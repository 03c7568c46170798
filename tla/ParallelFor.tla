---------------------------- MODULE ParallelFor ----------------------------
(***************************************************************************)
(* btcore::parallel_for (engine/src/parallel.cpp): a call of `work` for    *)
(* every index, handed out in chunks from a shared counter to a pool of    *)
(* threads, the calling thread among them.                                 *)
(*                                                                         *)
(* A thread's steps are its accesses of the shared counter and flag, its   *)
(* calls of `work` and its catch block, which holds the mutex throughout.  *)
(* Both atomics are relaxed: a load of `stopped` may miss another thread's *)
(* store, never the thread's own.  size_t is taken as unbounded: the       *)
(* counter stays below count + threads * chunk.                            *)
(***************************************************************************)
EXTENDS Integers, FiniteSets

CONSTANTS Helpers,          \* the threads a pool may have
          Caller,           \* the calling thread
          Count,            \* how many indices, `work` being called for each
          ChunksPerThread,  \* kChunksPerThread
          LargestChunk,     \* kLargestChunk
          Nothing           \* no failure

Threads == Helpers \union {Caller}
Indices == 0 .. Count - 1

ASSUME ConstantsAssumption ==
  /\ Caller \notin Helpers
  /\ IsFiniteSet(Helpers)
  /\ Count \in Nat \ {0}
  /\ ChunksPerThread \in Nat \ {0} /\ LargestChunk \in Nat \ {0}
  /\ Nothing \notin Indices

Smaller(a, b) == IF a < b THEN a ELSE b
Clamped(value, low, high) == IF value < low THEN low ELSE Smaller(value, high)

VARIABLES pool,            \* the threads to be started beside the caller
          next, stopped,   \* the two atomics
          failure,         \* the index whose exception is kept
          pc,              \* where each thread is
          at, last,        \* the index each calls next, and where its chunk ends
          calls,           \* how often `work` was called for each index
          raised,          \* the indices whose call raised
          outcome          \* how parallel_for ended

vars == <<pool, next, stopped, failure, pc, at, last, calls, raised, outcome>>

\* As many threads as were asked for or the machine has, at most one an index.
Init ==
  /\ pool \in {p \in SUBSET Helpers : Cardinality(p) < Count}
  /\ next = 0 /\ stopped = FALSE /\ failure = Nothing
  /\ pc = [w \in Threads |->
             IF w # Caller THEN "unborn" ELSE IF pool = {} THEN "alone" ELSE "spawning"]
  /\ at = [w \in Threads |-> 0]
  /\ last = [w \in Threads |-> 0]
  /\ calls = [i \in Indices |-> 0]
  /\ raised = {}
  /\ outcome = "running"

Chunk == Clamped(Count \div ((Cardinality(pool) + 1) * ChunksPerThread), 1, LargestChunk)

Goto(w, label) == pc' = [pc EXCEPT ![w] = label]

-----------------------------------------------------------------------------

\* The call of `work` for the index the thread is at.
Called(w) == calls' = [calls EXCEPT ![at[w]] = @ + 1]

\* With one thread to use, the caller goes through every index itself, and an
\* exception of `work` leaves at once.
CallAlone ==
  /\ pc[Caller] = "alone"
  /\ Called(Caller)
  /\ \/ /\ at' = [at EXCEPT ![Caller] = @ + 1]
        /\ IF at[Caller] + 1 = Count THEN Goto(Caller, "left") /\ outcome' = "returned"
                                     ELSE UNCHANGED <<pc, outcome>>
        /\ UNCHANGED <<failure, raised>>
     \/ /\ raised' = {at[Caller]} /\ failure' = at[Caller]
        /\ Goto(Caller, "left") /\ outcome' = "raised"
        /\ UNCHANGED at
  /\ UNCHANGED <<pool, next, stopped, last>>

\* The pool grows by a thread, which starts draining at once.
Spawn(w) ==
  /\ pc[Caller] = "spawning" /\ w \in pool /\ pc[w] = "unborn"
  /\ Goto(w, "check")
  /\ UNCHANGED <<pool, next, stopped, failure, at, last, calls, raised, outcome>>

\* The pool is full, and the caller drains too.
Join(w) ==
  /\ w = Caller /\ pc[w] = "spawning"
  /\ \A h \in pool : pc[h] # "unborn"
  /\ Goto(w, "check")
  /\ UNCHANGED <<pool, next, stopped, failure, at, last, calls, raised, outcome>>

\* A thread cannot be had: the pool's destructor waits for those started.
SpawnFails ==
  /\ pc[Caller] = "spawning"
  /\ \E h \in pool : pc[h] = "unborn"
  /\ Goto(Caller, "short")
  /\ UNCHANGED <<pool, next, stopped, failure, at, last, calls, raised, outcome>>

-----------------------------------------------------------------------------
(* drain.                                                                  *)

\* A thread whose chunk was cut short has stored `stopped` itself.
CutShort(w) == at[w] < last[w]

\* The thread that stored `stopped` sees it; any other may not see it yet.
LoadStopped(w) ==
  /\ pc[w] = "check"
  /\ \/ ~stopped /\ Goto(w, "claim")
     \/ stopped /\ Goto(w, "left")
     \/ stopped /\ ~CutShort(w) /\ Goto(w, "claim")
  /\ UNCHANGED <<pool, next, stopped, failure, at, last, calls, raised, outcome>>

\* Variants of a claim: the last chunk not cut at the count, the counter
\* moved by one index, and a drain that looks again once nothing is left.
ClaimPastCount(w) ==
  /\ pc[w] = "claim"
  /\ next' = next + Chunk
  /\ IF next >= Count
     THEN Goto(w, "left") /\ UNCHANGED <<at, last>>
     ELSE /\ at' = [at EXCEPT ![w] = next]
          /\ last' = [last EXCEPT ![w] = next + Chunk]
          /\ Goto(w, "work")
  /\ UNCHANGED <<pool, stopped, failure, calls, raised, outcome>>

ClaimByOne(w) ==
  /\ pc[w] = "claim"
  /\ next' = next + 1
  /\ IF next >= Count
     THEN Goto(w, "left") /\ UNCHANGED <<at, last>>
     ELSE /\ at' = [at EXCEPT ![w] = next]
          /\ last' = [last EXCEPT ![w] = Smaller(Count, next + Chunk)]
          /\ Goto(w, "work")
  /\ UNCHANGED <<pool, stopped, failure, calls, raised, outcome>>

ClaimAgain(w) ==
  /\ pc[w] = "claim"
  /\ IF next >= Count
     THEN Goto(w, "check") /\ UNCHANGED <<next, at, last>>
     ELSE /\ next' = next + Chunk
          /\ at' = [at EXCEPT ![w] = next]
          /\ last' = [last EXCEPT ![w] = Smaller(Count, next + Chunk)]
          /\ Goto(w, "work")
  /\ UNCHANGED <<pool, stopped, failure, calls, raised, outcome>>

Claim(w) ==
  /\ pc[w] = "claim"
  /\ next' = next + Chunk
  /\ IF next >= Count
     THEN Goto(w, "left") /\ UNCHANGED <<at, last>>
     ELSE /\ at' = [at EXCEPT ![w] = next]
          /\ last' = [last EXCEPT ![w] = Smaller(Count, next + Chunk)]
          /\ Goto(w, "work")
  /\ UNCHANGED <<pool, stopped, failure, calls, raised, outcome>>

Call(w) ==
  /\ pc[w] = "work"
  /\ Called(w)
  /\ \/ /\ at' = [at EXCEPT ![w] = @ + 1]
        /\ Goto(w, IF at[w] + 1 < last[w] THEN "work" ELSE "check")
        /\ UNCHANGED raised
     \/ /\ raised' = raised \union {at[w]}
        /\ Goto(w, "caught")
        /\ UNCHANGED at
  /\ UNCHANGED <<pool, next, stopped, failure, last, outcome>>

\* The catch block, under failure_guard.
Catch(w) ==
  /\ pc[w] = "caught"
  /\ failure' = IF failure = Nothing THEN at[w] ELSE failure
  /\ stopped' = TRUE
  /\ Goto(w, "check")
  /\ UNCHANGED <<pool, next, at, last, calls, raised, outcome>>

\* Variant: what was caught is looked at before the pool is joined.
ReturnBeforeJoin ==
  /\ pc[Caller] \in {"left", "short"} /\ outcome = "running"
  /\ outcome' = IF pc[Caller] = "short" THEN "not_spawned"
                ELSE IF failure # Nothing THEN "raised" ELSE "returned"
  /\ UNCHANGED <<pool, next, stopped, failure, pc, at, last, calls, raised>>

\* Every thread of the pool has been joined; what was caught is raised again.
Return ==
  /\ pc[Caller] \in {"left", "short"} /\ outcome = "running"
  /\ \A h \in Helpers : pc[h] \in {"left", "unborn"}
  /\ outcome' = IF pc[Caller] = "short" THEN "not_spawned"
                ELSE IF failure # Nothing THEN "raised" ELSE "returned"
  /\ UNCHANGED <<pool, next, stopped, failure, pc, at, last, calls, raised>>

-----------------------------------------------------------------------------

Drain(w) == LoadStopped(w) \/ Claim(w) \/ Call(w) \/ Catch(w)

Start == (\E w \in Helpers : Spawn(w)) \/ Join(Caller) \/ SpawnFails

\* parallel_for has ended.
Ended == outcome # "running" /\ UNCHANGED vars

Next == CallAlone \/ Start \/ (\E w \in Threads : Drain(w)) \/ Return \/ Ended

\* Every thread that can go on does, `work` returning or raising in the end.
Fairness ==
  /\ WF_vars(CallAlone) /\ WF_vars(Start) /\ WF_vars(Return)
  /\ \A w \in Threads : WF_vars(Drain(w))

Spec == Init /\ [][Next]_vars /\ Fairness

-----------------------------------------------------------------------------
(* Properties.                                                             *)

Draining == {"check", "claim", "work", "caught"}

\* Every variable has its type, and a thread in its chunk is at an index of it.
TypeOK ==
  /\ pool \subseteq Helpers
  /\ next \in Nat /\ stopped \in BOOLEAN
  /\ failure \in Indices \union {Nothing}
  /\ pc \in [Threads -> Draining \union {"unborn", "alone", "spawning", "short", "left"}]
  /\ at \in [Threads -> 0 .. Count]
  /\ last \in [Threads -> 0 .. Count]
  /\ calls \in [Indices -> Nat]
  /\ raised \subseteq Indices
  /\ outcome \in {"running", "returned", "raised", "not_spawned"}
  /\ pc[Caller] = "alone" => at[Caller] < Count
  /\ \A w \in Threads :
       /\ pc[w] = "work" => at[w] < last[w]
       /\ pc[w] = "caught" => at[w] < Count

\* "Calls work(index) once": never twice for an index, however the threads
\* interleave on the counter and wherever an exception stops them.
CalledOnce == \A i \in Indices : calls[i] <= 1

\* What the caller is told is so: a return means that every index was called
\* and none raised; an exception is one `work` raised; and neither comes while
\* a thread may still call `work`.
OutcomeIsTrue ==
  /\ outcome = "returned" => raised = {} /\ \A i \in Indices : calls[i] = 1
  /\ outcome = "raised" => failure \in raised
  /\ outcome # "running" => \A w \in Threads : pc[w] \notin Draining \union {"alone", "spawning"}

\* parallel_for ends, however many calls raise and however late threads see
\* that they are to stop.
Terminates == <>(outcome # "running")

=============================================================================
