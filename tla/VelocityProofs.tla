--------------------------- MODULE VelocityProofs ---------------------------
(***************************************************************************)
(* Theorems about Velocity, for any number of workers and transactions,    *)
(* any window and any time-to-live.                                        *)
(***************************************************************************)
EXTENDS Velocity, TLAPS

USE VelocityAssumption

\* A call under way is about one of the keys.
LEMMA KeyType ==
  ASSUME TypeOK, NEW w \in Workers, pc[w] # "idle"
  PROVE  tx[w] \in Transactions /\ Key(w) \in Keys /\ EventTime[tx[w]] \in Nat
BY DEF TypeOK, Key

\* What a step of the program can do to the sorted sets.
LEMMA RedisStep ==
  ASSUME [Next]_vars
  PROVE  \/ \E w \in Workers : pc[w] = "zremrangebyscore" /\ TrimEffect(w)
         \/ \E w \in Workers : pc[w] = "zadd" /\ AddEffect(w)
         \/ \E w \in Workers : pc[w] = "expire" /\ ExpireEffect(w)
         \/ Tick
         \/ UNCHANGED <<redis, recorded, newest>>
BY DEF Next, Begin, Trim, Add, Expire, Count, Interrupt, Effect, vars, Commands

\* The sorted sets and their history stay well typed.
LEMMA RedisType ==
  ASSUME TypeOK, [Next]_vars
  PROVE  /\ zset' \in [Keys -> SUBSET Transactions]
         /\ ttl' \in [Keys -> {NoExpiry} \cup 1 .. Ttl]
         /\ recorded' \in [Keys -> SUBSET Transactions]
         /\ newest' \in [Keys -> Nat]
<1>1. CASE \E w \in Workers : pc[w] = "zremrangebyscore" /\ TrimEffect(w)
  BY <1>1, KeyType DEF TypeOK, TrimEffect
<1>2. CASE \E w \in Workers : pc[w] = "zadd" /\ AddEffect(w)
  BY <1>2, KeyType DEF TypeOK, AddEffect
<1>3. CASE \E w \in Workers : pc[w] = "expire" /\ ExpireEffect(w)
  BY <1>3, KeyType DEF TypeOK, ExpireEffect
<1>4. CASE Tick
  <2>1. ASSUME NEW k \in Keys
        PROVE  (CASE ttl[k] = 1 -> NoExpiry
                  [] ttl[k] > 1 -> ttl[k] - 1
                  [] OTHER -> ttl[k]) \in {NoExpiry} \cup 1 .. Ttl
    BY DEF TypeOK, NoExpiry
  <2>2. QED
    BY <1>4, <2>1 DEF TypeOK, Tick
<1>5. CASE UNCHANGED <<redis, recorded, newest>>
  BY <1>5 DEF TypeOK, redis
<1>6. QED
  BY <1>1, <1>2, <1>3, <1>4, <1>5, RedisStep

\* Every state of a run has the declared types.
THEOREM TypeCorrect == Spec => []TypeOK
<1>1. Init => TypeOK
  BY DEF Init, TypeOK, NoExpiry, Sides
<1>2. TypeOK /\ [Next]_vars => TypeOK'
  <2> SUFFICES ASSUME TypeOK, [Next]_vars PROVE TypeOK'
    OBVIOUS
  <2>1. CASE UNCHANGED vars
    BY <2>1 DEF TypeOK, vars, redis, call
  <2>2. ASSUME NEW w \in Workers, Begin(w) PROVE TypeOK'
    BY <2>2, RedisType DEF TypeOK, Begin, GoTo, Commands, Sides
  <2>3. ASSUME NEW w \in Workers, Trim(w) \/ Add(w) PROVE TypeOK'
    BY <2>3, RedisType DEF TypeOK, Trim, Add, GoTo, Commands
  <2>4. ASSUME NEW w \in Workers, Expire(w) \/ Count(w) PROVE TypeOK'
    BY <2>4, RedisType DEF TypeOK, Expire, Count, GoTo, Return, Commands, Sides
  <2>5. ASSUME NEW w \in Workers, Interrupt(w) PROVE TypeOK'
    BY <2>5, RedisType, KeyType DEF TypeOK, Interrupt, GoTo, Return, Commands, Sides
  <2>6. CASE Tick
    BY <2>6, RedisType DEF TypeOK, Tick, call
  <2>7. QED
    BY <2>1, <2>2, <2>3, <2>4, <2>5, <2>6 DEF Next
<1>3. QED
  BY <1>1, <1>2, PTL DEF Spec

-----------------------------------------------------------------------------

\* The clock does not go back, so an event validated once stays in the past.
LEMMA CallStep ==
  ASSUME TypeOK, CallIsValid, [Next]_vars
  PROVE  CallIsValid'
<1> SUFFICES ASSUME NEW w \in Workers, pc'[w] # "idle"
             PROVE  EventTime[tx'[w]] <= now'
  BY DEF CallIsValid
<1>1. now' \in Nat /\ now <= now'
  BY DEF TypeOK, Next, Begin, Trim, Add, Expire, Count, Interrupt, Tick, vars
<1>2. CASE pc[w] # "idle" /\ tx'[w] = tx[w]
  BY <1>1, <1>2, KeyType DEF TypeOK, CallIsValid
<1>3. CASE Begin(w)
  BY <1>3 DEF TypeOK, Begin, ValidEventTime
<1>4. ASSUME NEW v \in Workers,
             Begin(v) \/ Trim(v) \/ Add(v) \/ Expire(v) \/ Count(v) \/ Interrupt(v)
      PROVE  Begin(w) \/ (pc[w] # "idle" /\ tx'[w] = tx[w])
  <2>1. CASE v = w
    BY <1>4, <2>1
    DEF TypeOK, Trim, Add, Expire, Count, Interrupt, GoTo, Return
  <2>2. CASE v # w
    BY <1>4, <2>2
    DEF TypeOK, Begin, Trim, Add, Expire, Count, Interrupt, GoTo, Return
  <2>3. QED
    BY <2>1, <2>2
<1>5. CASE Tick \/ UNCHANGED vars
  BY <1>2, <1>5 DEF Tick, vars, call
<1>6. QED
  BY <1>2, <1>3, <1>4, <1>5 DEF Next

\* A member of the set that a step takes away is at least a window older than the
\* event whose trim took it.
LEMMA MissingStep ==
  ASSUME TypeOK, MissingHasCause, [Next]_vars
  PROVE  MissingHasCause'
<1> SUFFICES ASSUME NEW k \in Keys, NEW t \in recorded'[k], t \notin zset'[k]
             PROVE  EventTime[t] + Window <= newest'[k]
  BY DEF MissingHasCause
<1>1. CASE \E w \in Workers : pc[w] = "zremrangebyscore" /\ TrimEffect(w)
  <2>1. PICK w \in Workers : pc[w] = "zremrangebyscore" /\ TrimEffect(w)
    BY <1>1
  <2>2. /\ t \in recorded[k] /\ t \in Transactions
        /\ newest'[k] \in Nat /\ newest[k] <= newest'[k]
    BY <2>1, RedisType, KeyType DEF TypeOK, TrimEffect
  <2>3. CASE t \notin zset[k]
    BY <2>2, <2>3, RedisType DEF TypeOK, MissingHasCause
  <2>4. CASE t \in zset[k]
    <3>1. k = Key(w) /\ ~ (EventTime[t] > EventTime[tx[w]] - Window)
      BY <2>1, <2>4, KeyType DEF TypeOK, TrimEffect, Cutoff
    <3>2. EventTime[tx[w]] <= newest'[k]
      BY <2>1, <3>1, KeyType DEF TypeOK, TrimEffect
    <3>3. QED
      BY <2>1, <2>2, <3>1, <3>2, KeyType
  <2>5. QED
    BY <2>3, <2>4
<1>2. CASE \E w \in Workers : pc[w] = "zadd" /\ AddEffect(w)
  BY <1>2, KeyType DEF TypeOK, AddEffect, MissingHasCause
<1>3. CASE \E w \in Workers : pc[w] = "expire" /\ ExpireEffect(w)
  BY <1>3 DEF ExpireEffect, MissingHasCause
<1>4. CASE Tick
  BY <1>4 DEF Tick, MissingHasCause
<1>5. CASE UNCHANGED <<redis, recorded, newest>>
  BY <1>5 DEF redis, MissingHasCause
<1>6. QED
  BY <1>1, <1>2, <1>3, <1>4, <1>5, RedisStep

\* Only a call under way adds a member, and its event is in the past.
LEMMA PastStep ==
  ASSUME TypeOK, CallIsValid, NothingFromFuture, [Next]_vars
  PROVE  NothingFromFuture'
<1> SUFFICES ASSUME NEW k \in Keys, NEW t \in zset'[k]
             PROVE  EventTime[t] <= now'
  BY DEF NothingFromFuture
<1>1. now' \in Nat /\ now <= now'
  BY DEF TypeOK, Next, Begin, Trim, Add, Expire, Count, Interrupt, Tick, vars
<1>2. CASE t \in zset[k]
  BY <1>1, <1>2 DEF TypeOK, NothingFromFuture
<1>3. CASE \E w \in Workers : pc[w] = "zadd" /\ t = tx[w]
  BY <1>1, <1>3, KeyType DEF TypeOK, CallIsValid
<1>4. CASE \E w \in Workers : pc[w] = "zremrangebyscore" /\ TrimEffect(w)
  BY <1>2, <1>4, KeyType DEF TypeOK, TrimEffect
<1>5. CASE \E w \in Workers : pc[w] = "zadd" /\ AddEffect(w)
  BY <1>2, <1>3, <1>5, KeyType DEF TypeOK, AddEffect
<1>6. CASE \E w \in Workers : pc[w] = "expire" /\ ExpireEffect(w)
  BY <1>2, <1>6 DEF ExpireEffect
<1>7. CASE Tick
  BY <1>2, <1>7 DEF Tick
<1>8. CASE UNCHANGED <<redis, recorded, newest>>
  BY <1>2, <1>8 DEF redis
<1>9. QED
  BY <1>4, <1>5, <1>6, <1>7, <1>8, RedisStep

\* The call that adds to a set sets its time-to-live next.
LEMMA RetentionStep ==
  ASSUME TypeOK, RetentionIsBounded, [Next]_vars
  PROVE  RetentionIsBounded'
<1> DEFINE Pending(k) ==
      k \in stray \/ \E w \in Workers : pc[w] = "expire" /\ Key(w) = k
<1> SUFFICES ASSUME NEW k \in Keys, zset'[k] # {}, ttl'[k] = NoExpiry
             PROVE  Pending(k)'
  BY DEF RetentionIsBounded
<1>1. CASE UNCHANGED vars
  BY <1>1 DEF vars, redis, call, RetentionIsBounded, Key
<1>2. ASSUME NEW w \in Workers, Begin(w) PROVE Pending(k)'
  BY <1>2 DEF Begin, GoTo, redis, RetentionIsBounded, Key, TypeOK
<1>3. ASSUME NEW w \in Workers, Trim(w) PROVE Pending(k)'
  <2>1. zset[k] # {} /\ ttl[k] = NoExpiry
    BY <1>3, KeyType DEF Trim, TrimEffect, TypeOK
  <2>2. QED
    BY <1>3, <2>1 DEF Trim, GoTo, RetentionIsBounded, Key, TypeOK
<1>4. ASSUME NEW w \in Workers, Add(w) PROVE Pending(k)'
  <2>1. CASE k = Key(w)
    BY <1>4, <2>1 DEF Add, GoTo, Key, TypeOK
  <2>2. CASE k # Key(w)
    BY <1>4, <2>2, KeyType DEF Add, AddEffect, GoTo, RetentionIsBounded, Key, TypeOK
  <2>3. QED
    BY <2>1, <2>2
<1>5. ASSUME NEW w \in Workers, Expire(w) PROVE Pending(k)'
  <2>1. k # Key(w) /\ zset[k] # {} /\ ttl[k] = NoExpiry
    BY <1>5, KeyType DEF Expire, ExpireEffect, TypeOK, NoExpiry
  <2>2. PICK v \in Workers : k \in stray \/ (pc[v] = "expire" /\ Key(v) = k)
    BY <1>5, <2>1 DEF RetentionIsBounded
  <2>3. QED
    BY <1>5, <2>1, <2>2 DEF Expire, GoTo, Key, TypeOK
<1>6. ASSUME NEW w \in Workers, Count(w) PROVE Pending(k)'
  <2>1. PICK v \in Workers : k \in stray \/ (pc[v] = "expire" /\ Key(v) = k)
    BY <1>6 DEF Count, redis, RetentionIsBounded
  <2>2. CASE k \in stray
    BY <1>6, <2>2 DEF Count
  <2>3. CASE pc[v] = "expire" /\ Key(v) = k
    <3>1. v # w
      BY <1>6, <2>3 DEF Count
    <3>2. pc'[v] = pc[v] /\ side'[v] = side[v] /\ tx'[v] = tx[v]
      BY <1>6, <3>1 DEF Count, GoTo, Return, TypeOK
    <3>3. QED
      BY <2>3, <3>2 DEF Key
  <2>4. QED
    BY <2>1, <2>2, <2>3
<1>7. ASSUME NEW w \in Workers, Interrupt(w) PROVE Pending(k)'
  <2>1. CASE k = Key(w) /\ pc[w] \in {"zadd", "expire"}
    BY <1>7, <2>1 DEF Interrupt
  <2>2. CASE k # Key(w) \/ pc[w] \notin {"zadd", "expire"}
    <3>1. zset[k] # {} /\ ttl[k] = NoExpiry
      BY <1>7, <2>2, KeyType
      DEF Interrupt, Effect, TrimEffect, AddEffect, ExpireEffect, TypeOK, redis
    <3>2. PICK v \in Workers : k \in stray \/ (pc[v] = "expire" /\ Key(v) = k)
      BY <1>7, <3>1 DEF RetentionIsBounded
    <3>3. QED
      BY <1>7, <2>2, <3>2 DEF Interrupt, GoTo, Return, Key, TypeOK
  <2>3. QED
    BY <2>1, <2>2
<1>8. CASE Tick
  <2>1. zset[k] # {} /\ ttl[k] = NoExpiry
    BY <1>8 DEF Tick, TypeOK, NoExpiry
  <2>2. QED
    BY <1>8, <2>1 DEF Tick, call, RetentionIsBounded, Key
<1>9. QED
  BY <1>1, <1>2, <1>3, <1>4, <1>5, <1>6, <1>7, <1>8 DEF Next

\* VelocityInv holds in every state.
LEMMA VelocityInvariant == Spec => [](TypeOK /\ VelocityInv)
<1>1. Init => VelocityInv
  BY DEF Init, VelocityInv, CallIsValid, MissingHasCause, NothingFromFuture,
         RetentionIsBounded
<1>2. TypeOK /\ VelocityInv /\ [Next]_vars => VelocityInv'
  BY CallStep, MissingStep, PastStep, RetentionStep DEF VelocityInv
<1>3. QED
  BY <1>1, <1>2, TypeCorrect, PTL DEF Spec

-----------------------------------------------------------------------------

\* A recorded entry disappears only with its key or by the trim of an event at
\* least a window later.
THEOREM RemovalHasCause == Spec => []MissingHasCause
BY VelocityInvariant, PTL DEF VelocityInv

\* Events from the future never enter the windows.
THEOREM PastOnly == Spec => []NothingFromFuture
BY VelocityInvariant, PTL DEF VelocityInv

\* Only an interrupted call leaves a sorted set that never expires.
THEOREM BoundedRetention == Spec => []RetentionIsBounded
BY VelocityInvariant, PTL DEF VelocityInv

\* A count misses no neighbour while no later event has trimmed its key, however
\* many workers interleave and wherever calls are interrupted.
THEOREM ExactLatestCount == Spec => []LatestCountIsExact
<1>1. TypeOK /\ VelocityInv => LatestCountIsExact
  <2> SUFFICES ASSUME TypeOK, MissingHasCause,
                      NEW w \in Workers, pc[w] = "zcount",
                      newest[Key(w)] <= EventTime[tx[w]],
                      NEW t \in Neighbours(w)
               PROVE  t \in Counted(w)
    BY DEF VelocityInv, LatestCountIsExact
  <2>1. /\ t \in recorded[Key(w)] /\ t \in Transactions
        /\ EventTime[t] \in Nat /\ EventTime[tx[w]] \in Nat
        /\ newest[Key(w)] \in Nat
    BY KeyType DEF TypeOK, Neighbours
  <2>2. EventTime[tx[w]] - Window < EventTime[t] /\ EventTime[t] <= EventTime[tx[w]]
    BY DEF Neighbours, Cutoff
  <2>3. t \in zset[Key(w)]
    BY <2>1, <2>2, KeyType DEF MissingHasCause
  <2>4. QED
    BY <2>1, <2>2, <2>3 DEF Counted, Cutoff
<1>2. QED
  BY <1>1, VelocityInvariant, PTL
=============================================================================
