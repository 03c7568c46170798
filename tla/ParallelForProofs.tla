------------------------- MODULE ParallelForProofs -------------------------
(***************************************************************************)
(* Proofs about ParallelFor, for any number of indices and of threads.     *)
(*                                                                         *)
(* The argument: the counter only grows, so the chunks handed out never    *)
(* overlap (Disjoint) and no index from the counter on has been called        *)
(* (Ahead); an index before it has been called or is still in some         *)
(* thread's chunk, unless a call raised (Behind).                          *)
(***************************************************************************)
EXTENDS ParallelFor, FiniteSetTheorems, TLAPS

\* With no pool the caller works alone.
Pooled == pool # {}

OwnModes ==
  /\ \A h \in Helpers : pc[h] \notin {"alone", "spawning", "short"}
  /\ ~Pooled => /\ pc[Caller] \in {"alone", "left"}
                /\ \A h \in Helpers : pc[h] = "unborn"
                /\ pc[Caller] = "left" => outcome # "running"
  /\ Pooled => pc[Caller] \notin {"alone", "unborn"}

\* A chunk ends before the counter, and no two threads' chunks overlap.
Disjoint ==
  \A w \in Threads : pc[w] = "work" =>
    /\ last[w] <= next
    /\ \A v \in Threads \ {w} : pc[v] = "work" => last[w] <= at[v] \/ last[v] <= at[w]

\* What is still to be handed out, or still to be reached in a chunk, has not
\* been called.
Ahead ==
  /\ Pooled => \A i \in Indices : i >= next => calls[i] = 0
  /\ \A w \in Threads : pc[w] = "work" => \A i \in Indices : at[w] <= i /\ i < last[w] => calls[i] = 0
  /\ pc[Caller] = "alone" => \A i \in Indices : i >= at[Caller] => calls[i] = 0

\* What was handed out has been called or will be, where no call raised.
Behind ==
  /\ Pooled /\ raised = {} => \A i \in Indices : i < next =>
       calls[i] = 1 \/ \E w \in Threads : pc[w] = "work" /\ at[w] <= i /\ i < last[w]
  /\ pc[Caller] = "alone" => raised = {} /\ \A i \in Indices : i < at[Caller] => calls[i] = 1

\* An exception raised is on its way to be kept, or kept.
Kept ==
  /\ failure # Nothing => failure \in raised
  /\ \A w \in Threads : pc[w] = "caught" => at[w] \in raised
  /\ Pooled => /\ stopped <=> failure # Nothing
               /\ raised # {} => failure # Nothing \/ \E w \in Threads : pc[w] = "caught"

\* A thread leaves when it is told to or when nothing is left to hand out.
LeavesRightly == \A w \in Threads : Pooled /\ pc[w] = "left" => stopped \/ next >= Count

IInv == TypeOK /\ OwnModes /\ Disjoint /\ Ahead /\ Behind /\ Kept /\ LeavesRightly
          /\ CalledOnce /\ OutcomeIsTrue

-----------------------------------------------------------------------------

\* A chunk has an index at least.
LEMMA ChunkPositive ==
  ASSUME TypeOK
  PROVE  Chunk \in Nat /\ Chunk >= 1
<1>1. Cardinality(pool) \in Nat
  <2>1. IsFiniteSet(pool)
    BY ConstantsAssumption, FS_Subset DEF TypeOK
  <2>2. QED
    BY <2>1, FS_CardinalityType
<1> DEFINE share == (Cardinality(pool) + 1) * ChunksPerThread
<1>2. share \in Nat /\ share > 0
  BY <1>1, ConstantsAssumption
<1> HIDE DEF share
<1>3. Count \div share \in Int
  BY <1>2, ConstantsAssumption
<1>4. QED
  BY <1>3, ConstantsAssumption DEF Chunk, share, Clamped, Smaller

LEMMA InitType == Init => TypeOK
<1> SUFFICES ASSUME Init
             PROVE  TypeOK
  OBVIOUS
<1>1. pc \in [Threads -> Draining \union {"unborn", "alone", "spawning", "short", "left"}]
      /\ \A w \in Threads : pc[w] \notin Draining
  BY DEF Init, Draining
<1>2. /\ at \in [Threads -> 0 .. Count] /\ last \in [Threads -> 0 .. Count] /\ calls \in [Indices -> Nat]
      /\ Caller \in Threads /\ (\A w \in Threads : at[w] = 0) /\ Count > 0
  BY ConstantsAssumption DEF Init, Threads
<1>3. /\ pool \subseteq Helpers /\ next \in Nat /\ stopped \in BOOLEAN /\ raised \subseteq Indices
      /\ failure \in Indices \union {Nothing}
      /\ outcome \in {"running", "returned", "raised", "not_spawned"}
  BY DEF Init
<1>4. QED
  BY <1>1, <1>2, <1>3 DEF TypeOK, Draining

\* A thread's program counter alone changes.
LEMMA GotoType ==
  ASSUME TypeOK, NEW w \in Threads, Goto(w, "check") \/ Goto(w, "claim") \/ Goto(w, "left") \/ Goto(w, "short")
  PROVE  /\ pc' \in [Threads -> Draining \union {"unborn", "alone", "spawning", "short", "left"}]
         /\ \A v \in Threads : pc'[v] \in {"work", "caught", "alone"} => v # w /\ pc'[v] = pc[v]
BY DEF TypeOK, Goto, Draining

LEMMA NextType ==
  ASSUME TypeOK, Next
  PROVE  TypeOK'
<1>1. Chunk \in Nat /\ Chunk >= 1 /\ Count \in Nat /\ Caller \in Threads /\ Helpers \subseteq Threads
  BY ChunkPositive, ConstantsAssumption DEF Threads
<1>2. ASSUME NEW w \in Threads,
             Goto(w, "check") \/ Goto(w, "claim") \/ Goto(w, "left") \/ Goto(w, "short"),
             UNCHANGED <<pool, at, last, calls, raised, outcome>>,
             next' \in Nat, stopped' \in BOOLEAN, failure' \in Indices \union {Nothing}
      PROVE  TypeOK'
  <2>1. /\ pc' \in [Threads -> Draining \union {"unborn", "alone", "spawning", "short", "left"}]
        /\ \A v \in Threads : pc'[v] \in {"work", "caught", "alone"} => v # w /\ pc'[v] = pc[v]
    BY <1>2, GotoType
  <2>2. QED
    BY <1>1, <1>2, <2>1 DEF TypeOK
<1>3. CASE Start
  <2>1. \E w \in Threads : Goto(w, "check") \/ Goto(w, "short")
    BY <1>1, <1>3 DEF Start, Spawn, Join, SpawnFails
  <2>2. UNCHANGED <<pool, next, stopped, failure, at, last, calls, raised, outcome>>
    BY <1>3 DEF Start, Spawn, Join, SpawnFails
  <2>3. next \in Nat /\ stopped \in BOOLEAN /\ failure \in Indices \union {Nothing}
    BY DEF TypeOK
  <2>4. QED
    BY <1>2, <2>1, <2>2, <2>3
<1>4. ASSUME NEW w \in Threads, LoadStopped(w)
      PROVE  TypeOK'
  BY <1>1, <1>2, <1>4 DEF LoadStopped, TypeOK
<1>5. ASSUME NEW w \in Threads, Claim(w)
      PROVE  TypeOK'
  <2>1. next' \in Nat
    BY <1>1, <1>5 DEF Claim, TypeOK
  <2>2. CASE next >= Count
    BY <1>2, <1>5, <2>1, <2>2 DEF Claim, TypeOK
  <2>3. CASE ~(next >= Count)
    <3>1. /\ at' = [at EXCEPT ![w] = next] /\ Goto(w, "work")
          /\ last' = [last EXCEPT ![w] = Smaller(Count, next + Chunk)]
      BY <1>5, <2>3 DEF Claim
    <3>2. next \in 0 .. Count /\ Smaller(Count, next + Chunk) \in 0 .. Count
          /\ next < Smaller(Count, next + Chunk)
      BY <1>1, <2>3 DEF TypeOK, Smaller
    <3>3. pc' \in [Threads -> Draining \union {"unborn", "alone", "spawning", "short", "left"}]
      BY <3>1 DEF Goto, TypeOK, Draining
    <3>4. at' \in [Threads -> 0 .. Count] /\ last' \in [Threads -> 0 .. Count]
      BY <3>1, <3>2 DEF TypeOK
    <3>5. /\ pc'[Caller] = "alone" => at'[Caller] < Count
          /\ \A v \in Threads : /\ pc'[v] = "work" => at'[v] < last'[v]
                                /\ pc'[v] = "caught" => at'[v] < Count
      BY <1>1, <3>1, <3>2 DEF Goto, TypeOK
    <3>6. QED
      BY <1>5, <2>1, <3>3, <3>4, <3>5 DEF Claim, TypeOK
  <2>4. QED
    BY <2>2, <2>3
<1>6. ASSUME NEW w \in Threads, Call(w)
      PROVE  TypeOK'
  <2>1. at[w] < last[w] /\ last[w] \in 0 .. Count /\ at[w] \in 0 .. Count
    BY <1>6 DEF Call, TypeOK
  <2>2. at[w] \in Indices /\ at[w] + 1 \in 0 .. Count
    BY <1>1, <2>1 DEF Indices
  <2>3. calls' \in [Indices -> Nat]
    BY <1>6, <2>2 DEF Call, Called, TypeOK
  <2>4. pc' \in [Threads -> Draining \union {"unborn", "alone", "spawning", "short", "left"}]
    BY <1>6 DEF Call, Goto, TypeOK, Draining
  <2>5. at' \in [Threads -> 0 .. Count] /\ raised' \subseteq Indices
    BY <1>6, <2>2 DEF Call, TypeOK
  <2>6. /\ pc'[Caller] = "alone" => at'[Caller] < Count
        /\ \A v \in Threads : /\ pc'[v] = "work" => at'[v] < last'[v]
                              /\ pc'[v] = "caught" => at'[v] < Count
    BY <1>1, <1>6, <2>1 DEF Call, Goto, TypeOK
  <2>7. QED
    BY <1>6, <2>3, <2>4, <2>5, <2>6 DEF Call, TypeOK
<1>7. ASSUME NEW w \in Threads, Catch(w)
      PROVE  TypeOK'
  <2>1. at[w] \in Indices
    BY <1>1, <1>7 DEF Catch, TypeOK, Indices
  <2>2. QED
    BY <1>2, <1>7, <2>1 DEF Catch, TypeOK
<1>8. CASE CallAlone
  <2>1. at[Caller] \in Indices /\ at[Caller] + 1 \in 0 .. Count
    BY <1>1, <1>8 DEF CallAlone, TypeOK, Indices
  <2>2. calls' \in [Indices -> Nat] /\ at' \in [Threads -> 0 .. Count]
    BY <1>1, <1>8, <2>1 DEF CallAlone, Called, TypeOK
  <2>3. pc' \in [Threads -> Draining \union {"unborn", "alone", "spawning", "short", "left"}]
    BY <1>1, <1>8 DEF CallAlone, Goto, TypeOK
  <2>4. /\ raised' \subseteq Indices /\ failure' \in Indices \union {Nothing}
        /\ outcome' \in {"running", "returned", "raised", "not_spawned"}
    BY <1>8, <2>1 DEF CallAlone, TypeOK
  <2>5. /\ pc'[Caller] = "alone" => at'[Caller] < Count
        /\ \A v \in Threads : /\ pc'[v] = "work" => at'[v] < last'[v]
                              /\ pc'[v] = "caught" => at'[v] < Count
    <3>1. pc[Caller] = "alone" /\ pc \in [Threads -> Draining \union {"unborn", "alone", "spawning", "short", "left"}]
          /\ at \in [Threads -> 0 .. Count] /\ last' = last
      BY <1>8 DEF CallAlone, TypeOK
    <3>2. \A v \in Threads \ {Caller} : pc'[v] = pc[v] /\ at'[v] = at[v]
      BY <1>1, <1>8, <3>1 DEF CallAlone, Goto
    <3>3. pc'[Caller] = "left" \/ (pc'[Caller] = "alone" /\ at'[Caller] = at[Caller] + 1 /\ at[Caller] + 1 # Count)
      BY <1>1, <1>8, <3>1 DEF CallAlone, Goto
    <3>4. QED
      BY <1>1, <2>1, <3>1, <3>2, <3>3 DEF TypeOK
  <2>6. QED
    BY <1>8, <2>2, <2>3, <2>4, <2>5 DEF CallAlone, TypeOK
<1>9. CASE Return
  BY <1>9 DEF Return, TypeOK
<1>10. CASE Ended
  BY <1>10 DEF Ended, vars, TypeOK
<1>11. QED
  BY <1>3, <1>4, <1>5, <1>6, <1>7, <1>8, <1>9, <1>10 DEF Next, Drain

\* Every variable keeps its type, and a thread at work is inside its chunk.
THEOREM TypeCorrect == Spec => []TypeOK
<1>1. TypeOK /\ UNCHANGED vars => TypeOK'
  BY DEF TypeOK, vars
<1>2. TypeOK /\ [Next]_vars => TypeOK'
  BY <1>1, NextType
<1>3. QED
  BY <1>2, InitType, PTL DEF Spec

-----------------------------------------------------------------------------

\* Claiming a chunk keeps the invariant.
LEMMA ClaimKeeps ==
  ASSUME IInv, NEW w \in Threads, Claim(w)
  PROVE  IInv'
<1>1. TypeOK'
  BY NextType DEF IInv, Next, Drain
<1>2. /\ Chunk \in Nat /\ Chunk >= 1 /\ Count \in Nat /\ next \in Nat /\ next' = next + Chunk
      /\ TypeOK /\ Pooled /\ Pooled' /\ pc[w] = "claim"
      /\ UNCHANGED <<pool, stopped, failure, calls, raised, outcome>>
  BY ChunkPositive, ConstantsAssumption DEF IInv, TypeOK, Claim, OwnModes, Pooled, Threads
<1>3. OwnModes'
  BY <1>2 DEF IInv, OwnModes, Claim, Goto, TypeOK, Pooled, Threads
<1>4. outcome = "running"
  BY <1>2 DEF IInv, OutcomeIsTrue, Draining
<1>5. CalledOnce' /\ OutcomeIsTrue'
  BY <1>2, <1>4 DEF IInv, CalledOnce, OutcomeIsTrue
<1>6. CASE next >= Count
  <2>1. /\ pc' = [pc EXCEPT ![w] = "left"] /\ UNCHANGED <<at, last>>
        /\ pc \in [Threads -> Draining \union {"unborn", "alone", "spawning", "short", "left"}]
    BY <1>6 DEF Claim, Goto, IInv, TypeOK
  <2>2. \A v \in Threads : /\ (pc'[v] = "work" <=> pc[v] = "work")
                           /\ (pc'[v] = "caught" <=> pc[v] = "caught")
                           /\ (pc'[v] = "left" => v = w \/ pc[v] = "left")
    <3>1. pc[w] = "claim" /\ pc'[w] = "left" /\ \A v \in Threads \ {w} : pc'[v] = pc[v]
      BY <1>2, <2>1
    <3>2. QED
      BY <3>1
  <2>3. pc'[Caller] = "alone" => pc[Caller] = "alone"
    BY <2>1 DEF Threads
  <2>4. Disjoint'
    BY <1>2, <2>1, <2>2 DEF IInv, TypeOK, Disjoint
  <2>5. Ahead'
    BY <1>2, <2>1, <2>2, <2>3 DEF IInv, Ahead, Indices
  <2>6. Behind'
    <3>1. \A i \in Indices : i < next
      BY <1>2, <1>6 DEF Indices
    <3>2. QED
      BY <1>2, <2>1, <2>2, <2>3, <3>1 DEF IInv, Behind
  <2>7. Kept'
    <3>1. UNCHANGED <<pool, stopped, failure, raised, at>>
      BY <1>2, <2>1
    <3>2. \A v \in Threads : pc'[v] = "caught" <=> pc[v] = "caught"
      BY <2>2
    <3>3. Kept
      BY DEF IInv
    <3>4. /\ failure' # Nothing => failure' \in raised'
          /\ \A v \in Threads : pc'[v] = "caught" => at'[v] \in raised'
      BY <3>1, <3>2, <3>3 DEF Kept
    <3>5. /\ (stopped' <=> failure' # Nothing)
          /\ (raised' # {} => failure' # Nothing \/ \E v \in Threads : pc'[v] = "caught")
      BY <1>2, <3>1, <3>2, <3>3 DEF Kept
    <3>6. QED
      BY <3>4, <3>5 DEF Kept
  <2>8. LeavesRightly'
    BY <1>2, <1>6, <2>2 DEF IInv, LeavesRightly
  <2>9. QED
    BY <1>1, <1>3, <1>5, <2>4, <2>5, <2>6, <2>7, <2>8 DEF IInv
<1>7. CASE ~(next >= Count)
  <2> DEFINE end == Smaller(Count, next + Chunk)
  <2>1. end \in Nat /\ next < end /\ end <= Count /\ end <= next' /\ (end = Count \/ end = next')
    BY <1>2, <1>7 DEF Smaller
  <2>2. /\ pc' = [pc EXCEPT ![w] = "work"] /\ at' = [at EXCEPT ![w] = next]
        /\ last' = [last EXCEPT ![w] = end]
        /\ pc \in [Threads -> Draining \union {"unborn", "alone", "spawning", "short", "left"}]
        /\ at \in [Threads -> 0 .. Count] /\ last \in [Threads -> 0 .. Count]
    BY <1>7 DEF Claim, Goto, IInv, TypeOK
  <2> HIDE DEF end
  <2>3. /\ pc'[w] = "work" /\ at'[w] = next /\ last'[w] = end
        /\ \A v \in Threads \ {w} : pc'[v] = pc[v] /\ at'[v] = at[v] /\ last'[v] = last[v]
    BY <2>2
  <2>4. \A v \in Threads \ {w} : pc[v] = "work" => last[v] <= next
    BY DEF IInv, Disjoint
  <2>5. \A v \in Threads : at[v] \in Nat /\ last[v] \in Nat
    BY <1>2, <2>2
  <2>6. Disjoint'
    BY <1>2, <2>1, <2>3, <2>4, <2>5 DEF IInv, Disjoint
  <2>7. pc'[Caller] # "alone"
    BY <1>2, <2>3 DEF IInv, OwnModes, Threads
  <2>8. Ahead'
    BY <1>2, <2>1, <2>3, <2>7 DEF IInv, Ahead, Indices
  <2>9. Behind'
    <3>1. ASSUME raised = {}, NEW i \in Indices, i < next'
          PROVE  calls[i] = 1 \/ \E v \in Threads : pc'[v] = "work" /\ at'[v] <= i /\ i < last'[v]
      <4>1. CASE i < next
        <5>1. calls[i] = 1 \/ \E v \in Threads : pc[v] = "work" /\ at[v] <= i /\ i < last[v]
          BY <1>2, <3>1, <4>1 DEF IInv, Behind
        <5>2. QED
          BY <1>2, <2>3, <5>1
      <4>2. CASE ~(i < next)
        <5>1. next <= i /\ i < end
          BY <1>2, <2>1, <3>1, <4>2 DEF Indices
        <5>2. QED
          BY <2>3, <5>1
      <4>3. QED
        BY <4>1, <4>2
    <3>2. QED
      BY <1>2, <2>7, <3>1 DEF Behind
  <2>10. Kept'
    <3>1. \A v \in Threads : (pc'[v] = "caught" <=> pc[v] = "caught") /\ (pc[v] = "caught" => at'[v] = at[v])
      BY <1>2, <2>3
    <3>2. QED
      BY <1>2, <3>1 DEF IInv, Kept
  <2>11. LeavesRightly'
    BY <1>2, <2>3 DEF IInv, LeavesRightly
  <2>12. QED
    BY <1>1, <1>3, <1>5, <2>6, <2>8, <2>9, <2>10, <2>11 DEF IInv
<1>8. QED
  BY <1>6, <1>7

\* Calling `work` keeps the invariant.
LEMMA CallKeeps ==
  ASSUME IInv, NEW w \in Threads, Call(w)
  PROVE  IInv'
<1>1. TypeOK'
  BY NextType DEF IInv, Next, Drain
<1>2. /\ TypeOK /\ Pooled /\ Pooled' /\ pc[w] = "work" /\ Count \in Nat /\ next \in Nat
      /\ UNCHANGED <<pool, next, stopped, failure, last, outcome>>
      /\ at \in [Threads -> 0 .. Count] /\ last \in [Threads -> 0 .. Count] /\ calls \in [Indices -> Nat]
      /\ pc \in [Threads -> Draining \union {"unborn", "alone", "spawning", "short", "left"}]
  BY ConstantsAssumption DEF IInv, TypeOK, Call, OwnModes, Pooled, Threads
<1>3. at[w] \in Indices /\ at[w] < last[w] /\ last[w] <= next /\ calls[at[w]] = 0
  BY <1>2 DEF IInv, TypeOK, Disjoint, Ahead, Indices
<1>4. /\ calls'[at[w]] = 1
      /\ \A i \in Indices : i # at[w] => calls'[i] = calls[i]
  BY <1>2, <1>3 DEF Call, Called
<1>5. /\ \A v \in Threads \ {w} : pc'[v] = pc[v] /\ at'[v] = at[v]
      /\ \/ at'[w] = at[w] + 1 /\ raised' = raised
            /\ pc'[w] = (IF at[w] + 1 < last[w] THEN "work" ELSE "check")
         \/ at'[w] = at[w] /\ raised' = raised \union {at[w]} /\ pc'[w] = "caught"
  BY <1>2 DEF Call, Goto
<1>6. \A v \in Threads : at[v] \in Nat /\ last[v] \in Nat /\ at'[v] >= at[v]
  BY <1>2, <1>5
<1>7. OwnModes'
  BY <1>2, <1>5 DEF IInv, OwnModes, Pooled, Threads
<1>8. outcome = "running"
  BY <1>2 DEF IInv, OutcomeIsTrue, Draining
<1>9. CalledOnce' /\ OutcomeIsTrue'
  BY <1>2, <1>4, <1>8 DEF IInv, CalledOnce, OutcomeIsTrue
<1>10. \A v \in Threads : pc'[v] = "work" => pc[v] = "work"
  BY <1>2, <1>5
<1>11. Disjoint'
  BY <1>2, <1>5, <1>6, <1>10 DEF IInv, Disjoint
<1>12. pc'[Caller] # "alone"
  BY <1>2, <1>5 DEF IInv, OwnModes, Threads
<1>13. Ahead'
  <2>1. \A i \in Indices : i >= next => calls'[i] = 0
    BY <1>2, <1>3, <1>4, <1>6 DEF IInv, Ahead, Indices
  <2>2. ASSUME NEW v \in Threads, pc'[v] = "work", NEW i \in Indices, at'[v] <= i, i < last[v]
        PROVE  calls'[i] = 0
    <3>1. pc[v] = "work" /\ at[v] <= i
      BY <1>6, <1>10, <2>2, <1>5 DEF Indices
    <3>2. calls[i] = 0
      BY <2>2, <3>1 DEF IInv, Ahead
    <3>3. i # at[w]
      <4>1. CASE v = w
        BY <1>5, <1>6, <2>2, <4>1
      <4>2. CASE v # w
        <5>1. last[w] <= at[v] \/ last[v] <= at[w]
          BY <1>2, <3>1, <4>2 DEF IInv, Disjoint
        <5>2. QED
          BY <1>3, <1>6, <2>2, <3>1, <5>1 DEF Indices
      <4>3. QED
        BY <4>1, <4>2
    <3>4. QED
      BY <1>4, <3>2, <3>3
  <2>3. QED
    BY <1>2, <1>12, <2>1, <2>2 DEF Ahead
<1>14. Behind'
  <2>1. ASSUME raised' = {}, NEW i \in Indices, i < next
        PROVE  calls'[i] = 1 \/ \E v \in Threads : pc'[v] = "work" /\ at'[v] <= i /\ i < last[v]
    <3>1. at'[w] = at[w] + 1 /\ raised = {} /\ pc'[w] = (IF at[w] + 1 < last[w] THEN "work" ELSE "check")
      BY <1>5, <2>1
    <3>2. calls[i] = 1 \/ \E v \in Threads : pc[v] = "work" /\ at[v] <= i /\ i < last[v]
      BY <1>2, <2>1, <3>1 DEF IInv, Behind
    <3>3. CASE i = at[w]
      BY <1>4, <3>3
    <3>4. CASE i # at[w] /\ calls[i] = 1
      BY <1>4, <3>4
    <3>5. ASSUME i # at[w], NEW v \in Threads, pc[v] = "work", at[v] <= i, i < last[v]
          PROVE  pc'[v] = "work" /\ at'[v] <= i
      <4>1. CASE v = w
        BY <1>6, <3>1, <3>5, <4>1 DEF Indices
      <4>2. CASE v # w
        BY <1>5, <3>5, <4>2
      <4>3. QED
        BY <4>1, <4>2
    <3>6. QED
      BY <3>2, <3>3, <3>4, <3>5
  <2>2. QED
    BY <1>2, <1>12, <2>1 DEF Behind
<1>15. Kept'
  <2>1. failure # Nothing => failure \in raised'
    BY <1>2, <1>5 DEF IInv, Kept
  <2>2. \A v \in Threads : pc'[v] = "caught" => at'[v] \in raised'
    BY <1>5 DEF IInv, Kept
  <2>3. stopped <=> failure # Nothing
    BY <1>2 DEF IInv, Kept
  <2>4. raised' # {} => failure # Nothing \/ \E v \in Threads : pc'[v] = "caught"
    BY <1>2, <1>5 DEF IInv, Kept
  <2>5. QED
    BY <1>2, <2>1, <2>2, <2>3, <2>4 DEF Kept
<1>16. LeavesRightly'
  BY <1>2, <1>5 DEF IInv, LeavesRightly
<1>17. QED
  BY <1>1, <1>7, <1>9, <1>11, <1>13, <1>14, <1>15, <1>16 DEF IInv

\* Keeping an exception keeps the invariant.
LEMMA CatchKeeps ==
  ASSUME IInv, NEW w \in Threads, Catch(w)
  PROVE  IInv'
<1>1. TypeOK'
  BY NextType DEF IInv, Next, Drain
<1>2. /\ TypeOK /\ Pooled /\ Pooled' /\ pc[w] = "caught" /\ Count \in Nat /\ next \in Nat
      /\ UNCHANGED <<pool, next, at, last, calls, raised, outcome>>
      /\ pc \in [Threads -> Draining \union {"unborn", "alone", "spawning", "short", "left"}]
  BY ConstantsAssumption DEF IInv, TypeOK, Catch, OwnModes, Pooled, Threads
<1>3. pc'[w] = "check" /\ \A v \in Threads \ {w} : pc'[v] = pc[v]
  BY <1>2 DEF Catch, Goto
<1>4. at[w] \in raised /\ at[w] \in Indices /\ at[w] # Nothing
  BY <1>2, ConstantsAssumption DEF IInv, Kept, TypeOK
<1>5. /\ failure' # Nothing /\ failure' \in raised /\ stopped' = TRUE
  BY <1>2, <1>4 DEF IInv, Kept, Catch
<1>6. OwnModes'
  BY <1>2, <1>3 DEF IInv, OwnModes, Pooled, Threads
<1>7. outcome = "running"
  BY <1>2 DEF IInv, OutcomeIsTrue, Draining
<1>8. CalledOnce' /\ OutcomeIsTrue'
  BY <1>2, <1>7 DEF IInv, CalledOnce, OutcomeIsTrue
<1>9. \A v \in Threads : /\ (pc'[v] = "work" <=> pc[v] = "work")
                         /\ (pc'[v] = "caught" => pc[v] = "caught")
  BY <1>2, <1>3
<1>10. pc'[Caller] # "alone"
  BY <1>2, <1>3 DEF IInv, OwnModes, Threads
<1>11. Disjoint' /\ Ahead' /\ Behind'
  <2>1. Disjoint'
    BY <1>2, <1>9 DEF IInv, Disjoint
  <2>2. Ahead'
    BY <1>2, <1>9, <1>10 DEF IInv, Ahead, Indices
  <2>3. Behind'
    BY <1>2, <1>9, <1>10 DEF IInv, Behind
  <2>4. QED
    BY <2>1, <2>2, <2>3
<1>12. Kept'
  <2>1. \A v \in Threads : pc'[v] = "caught" => at'[v] \in raised'
    BY <1>2, <1>9 DEF IInv, Kept
  <2>2. QED
    BY <1>2, <1>5, <2>1 DEF Kept
<1>13. LeavesRightly'
  BY <1>5 DEF LeavesRightly
<1>14. QED
  BY <1>1, <1>6, <1>8, <1>11, <1>12, <1>13 DEF IInv

\* A thread moving on without touching anything shared keeps the invariant.
LEMMA MoveKeeps ==
  ASSUME IInv, TypeOK', NEW w \in Threads, outcome = "running", Pooled,
         NEW label \in {"check", "claim", "left", "short"}, Goto(w, label),
         pc[w] \in {"unborn", "spawning", "check"},
         label = "short" => w = Caller,
         label = "left" => stopped,
         UNCHANGED <<pool, next, stopped, failure, at, last, calls, raised, outcome>>
  PROVE  IInv'
<1>1. /\ pc'[w] = label /\ \A v \in Threads \ {w} : pc'[v] = pc[v]
      /\ Caller \in Threads /\ Helpers \subseteq Threads /\ Caller \notin Helpers
  BY ConstantsAssumption DEF IInv, TypeOK, Goto, Threads
<1>2. \A v \in Threads : /\ (pc'[v] = "work" <=> pc[v] = "work")
                         /\ (pc'[v] = "caught" <=> pc[v] = "caught")
                         /\ (pc'[v] = "alone" <=> pc[v] = "alone")
                         /\ (pc'[v] = "left" => v = w \/ pc[v] = "left")
  BY <1>1
<1>3. OwnModes'
  BY <1>1, <1>2 DEF IInv, OwnModes, Pooled
<1>4. Disjoint'
  BY <1>2 DEF IInv, Disjoint
<1>5. Ahead'
  BY <1>1, <1>2 DEF IInv, Ahead, Pooled
<1>6. Behind'
  BY <1>1, <1>2 DEF IInv, Behind, Pooled
<1>7. Kept'
  <2>1. \A v \in Threads : pc'[v] = "caught" => at'[v] \in raised'
    BY <1>2 DEF IInv, Kept
  <2>2. QED
    BY <1>2, <2>1 DEF IInv, Kept, Pooled
<1>8. LeavesRightly'
  BY <1>1, <1>2 DEF IInv, LeavesRightly, Pooled
<1>9. CalledOnce' /\ OutcomeIsTrue'
  BY DEF IInv, CalledOnce, OutcomeIsTrue
<1>10. QED
  BY <1>3, <1>4, <1>5, <1>6, <1>7, <1>8, <1>9 DEF IInv

LEMMA LoadStoppedKeeps ==
  ASSUME IInv, NEW w \in Threads, LoadStopped(w)
  PROVE  IInv'
<1>1. TypeOK'
  BY NextType DEF IInv, Next, Drain
<1>2. outcome = "running" /\ Pooled
  BY ConstantsAssumption DEF IInv, OutcomeIsTrue, Draining, LoadStopped, OwnModes, Threads
<1>3. QED
  BY <1>1, <1>2, MoveKeeps DEF LoadStopped

LEMMA StartKeeps ==
  ASSUME IInv, Start
  PROVE  IInv'
<1>1. TypeOK'
  BY NextType DEF IInv, Next
<1>2. pc[Caller] = "spawning" /\ Caller \in Threads /\ Helpers \subseteq Threads
  BY DEF Start, Spawn, Join, SpawnFails, Threads
<1>3. outcome = "running" /\ Pooled
  BY <1>2 DEF IInv, OutcomeIsTrue, OwnModes
<1>4. QED
  BY <1>1, <1>2, <1>3, MoveKeeps DEF Start, Spawn, Join, SpawnFails

LEMMA ReturnKeeps ==
  ASSUME IInv, Return
  PROVE  IInv'
<1>1. TypeOK'
  BY NextType DEF IInv, Next
<1>2. /\ UNCHANGED <<pool, next, stopped, failure, pc, at, last, calls, raised>>
      /\ Caller \in Threads /\ Helpers \subseteq Threads /\ Threads = Helpers \union {Caller}
      /\ pc[Caller] \in {"left", "short"} /\ outcome = "running"
      /\ \A h \in Helpers : pc[h] \in {"left", "unborn"}
  BY DEF Return, Threads
<1>3. Pooled
  BY <1>2 DEF IInv, OwnModes
<1>4. \A w \in Threads : pc[w] \notin Draining \union {"alone", "spawning"}
  BY <1>2 DEF Draining
<1>5. outcome' = "raised" => failure \in raised
  BY <1>2 DEF Return, IInv, Kept
<1>6. ASSUME outcome' = "returned"
      PROVE  raised = {} /\ \A i \in Indices : calls[i] = 1
  <2>1. failure = Nothing /\ pc[Caller] = "left"
    BY <1>2, <1>6 DEF Return
  <2>2. ~stopped /\ raised = {}
    BY <1>3, <1>4, <2>1 DEF IInv, Kept, Draining
  <2>3. next >= Count
    BY <1>2, <1>3, <2>1, <2>2 DEF IInv, LeavesRightly
  <2>4. \A i \in Indices : i < next
    BY <2>3, ConstantsAssumption DEF Indices, IInv, TypeOK
  <2>5. QED
    BY <1>3, <1>4, <2>2, <2>4 DEF IInv, Behind, Draining
<1>7. OutcomeIsTrue'
  BY <1>2, <1>4, <1>5, <1>6 DEF OutcomeIsTrue
<1>8. OwnModes' /\ Disjoint' /\ Ahead'
  BY <1>2, <1>3 DEF IInv, OwnModes, Disjoint, Ahead, Pooled
<1>9. Behind' /\ Kept'
  BY <1>2, <1>3 DEF IInv, Behind, Kept, Pooled
<1>10. LeavesRightly' /\ CalledOnce'
  BY <1>2 DEF IInv, LeavesRightly, CalledOnce, Pooled
<1>11. QED
  BY <1>1, <1>7, <1>8, <1>9, <1>10 DEF IInv

LEMMA CallAloneKeeps ==
  ASSUME IInv, CallAlone
  PROVE  IInv'
<1>1. TypeOK'
  BY NextType DEF IInv, Next
<1>2. /\ TypeOK /\ pc[Caller] = "alone" /\ ~Pooled /\ ~Pooled' /\ Count \in Nat
      /\ UNCHANGED <<pool, next, stopped, last>> /\ outcome = "running"
      /\ Caller \in Threads /\ Threads = Helpers \union {Caller} /\ Caller \notin Helpers
      /\ \A h \in Helpers : pc[h] = "unborn"
  BY ConstantsAssumption DEF IInv, CallAlone, OwnModes, Pooled, Threads, OutcomeIsTrue
<1>3. /\ at[Caller] \in Indices /\ calls[at[Caller]] = 0 /\ raised = {}
      /\ \A i \in Indices : i < at[Caller] => calls[i] = 1
      /\ \A i \in Indices : i >= at[Caller] => calls[i] = 0
      /\ calls \in [Indices -> Nat] /\ at \in [Threads -> 0 .. Count]
  <2>1. at[Caller] \in Indices
    BY <1>2 DEF TypeOK, Indices
  <2>2. QED
    BY <1>2, <2>1 DEF IInv, TypeOK, Ahead, Behind, Indices
<1>4. /\ calls'[at[Caller]] = 1
      /\ \A i \in Indices : i # at[Caller] => calls'[i] = calls[i]
  BY <1>3 DEF CallAlone, Called
<1>5. \A h \in Helpers : pc'[h] = "unborn"
  BY <1>2 DEF CallAlone, Goto, TypeOK
<1>6. \/ /\ pc'[Caller] = "alone" /\ at'[Caller] = at[Caller] + 1 /\ outcome' = "running" /\ raised' = {}
         /\ failure' = failure
      \/ /\ pc'[Caller] = "left" /\ at[Caller] + 1 = Count /\ outcome' = "returned" /\ raised' = {}
         /\ failure' = failure
      \/ /\ pc'[Caller] = "left" /\ outcome' = "raised" /\ failure' \in raised'
  BY <1>2, <1>3 DEF CallAlone, Goto, TypeOK
<1>7. OwnModes'
  BY <1>2, <1>5, <1>6 DEF OwnModes
<1>8. \A w \in Threads : pc'[w] \notin {"work", "caught"}
  BY <1>2, <1>5, <1>6
<1>9. Disjoint'
  BY <1>8 DEF Disjoint
<1>10. Ahead'
  BY <1>2, <1>3, <1>4, <1>6, <1>8 DEF Ahead, Indices
<1>11. Behind'
  BY <1>2, <1>3, <1>4, <1>6, <1>8 DEF Behind, Indices
<1>12. failure # Nothing => failure \in {}
  BY <1>3 DEF IInv, Kept
<1>13. Kept'
  BY <1>2, <1>6, <1>8, <1>12 DEF Kept
<1>14. LeavesRightly'
  BY <1>2 DEF LeavesRightly
<1>15. CalledOnce'
  BY <1>3, <1>4 DEF IInv, CalledOnce
<1>16. OutcomeIsTrue'
  <2>1. outcome' = "returned" => raised' = {} /\ \A i \in Indices : calls'[i] = 1
    BY <1>2, <1>3, <1>4, <1>6 DEF Indices
  <2>2. outcome' # "running" => \A w \in Threads : pc'[w] \notin Draining \union {"alone", "spawning"}
    BY <1>2, <1>5, <1>6 DEF Draining
  <2>3. QED
    BY <1>6, <2>1, <2>2 DEF OutcomeIsTrue
<1>17. QED
  BY <1>1, <1>7, <1>9, <1>10, <1>11, <1>13, <1>14, <1>15, <1>16 DEF IInv

LEMMA InitInvariant == Init => IInv
<1> SUFFICES ASSUME Init
             PROVE  IInv
  OBVIOUS
<1>1. TypeOK
  BY InitType
<1>2. /\ next = 0 /\ stopped = FALSE /\ failure = Nothing /\ raised = {} /\ outcome = "running"
      /\ \A i \in Indices : calls[i] = 0
      /\ Caller \in Threads /\ at[Caller] = 0 /\ Caller \notin Helpers /\ Helpers \subseteq Threads
      /\ pc[Caller] = (IF pool = {} THEN "alone" ELSE "spawning")
      /\ \A h \in Helpers : pc[h] = "unborn"
      /\ \A w \in Threads : pc[w] \in {"unborn", "alone", "spawning"}
  BY ConstantsAssumption DEF Init, Threads
<1>3. OwnModes /\ Disjoint
  BY <1>2 DEF OwnModes, Disjoint, Pooled
<1>4. Ahead /\ Behind
  BY <1>2 DEF Ahead, Behind, Indices
<1>5. Kept /\ LeavesRightly
  BY <1>2 DEF Kept, LeavesRightly
<1>6. CalledOnce /\ OutcomeIsTrue
  BY <1>2 DEF CalledOnce, OutcomeIsTrue
<1>7. QED
  BY <1>1, <1>3, <1>4, <1>5, <1>6 DEF IInv

LEMMA NextInvariant == IInv /\ [Next]_vars => IInv'
<1>1. IInv /\ UNCHANGED vars => IInv'
  BY DEF vars, IInv, TypeOK, OwnModes, Pooled, Disjoint, Ahead, Behind, Kept, LeavesRightly,
     CalledOnce, OutcomeIsTrue
<1>2. IInv /\ Next => IInv'
  BY <1>1, CallAloneKeeps, StartKeeps, LoadStoppedKeeps, ClaimKeeps, CallKeeps, CatchKeeps, ReturnKeeps
     DEF Next, Drain, Ended
<1>3. QED
  BY <1>1, <1>2

\* `work` is never called twice for an index, for any pool and any count.
THEOREM CallsEachOnce == Spec => []CalledOnce
<1>1. IInv => CalledOnce
  BY DEF IInv
<1>2. QED
  BY <1>1, InitInvariant, NextInvariant, PTL DEF Spec

\* A return means that every index was called and none raised; an exception
\* is one `work` raised; neither comes while a thread may still call.
THEOREM TellsTheTruth == Spec => []OutcomeIsTrue
<1>1. IInv => OutcomeIsTrue
  BY DEF IInv
<1>2. QED
  BY <1>1, InitInvariant, NextInvariant, PTL DEF Spec
=============================================================================
