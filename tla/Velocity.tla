------------------------------ MODULE Velocity ------------------------------
(***************************************************************************)
(* The velocity windows in Redis, and the workers that record a            *)
(* transaction in them and count its neighbours (get_context in            *)
(* fraudlatch/risk/velocity.py).                                           *)
(*                                                                         *)
(* A call trims, adds to and sets the time-to-live of the sorted set of    *)
(* the transaction's customer, then that of its merchant, and then counts  *)
(* both.  Every command is atomic, the call is not: workers interleave     *)
(* between two awaits.  Events come in any order and any number of times.  *)
(*                                                                         *)
(* A member's score is the event time of its transaction, which never      *)
(* changes, so a sorted set is a set of transactions.  Event time and the  *)
(* wall clock are both measured in ticks.  The two ZRANGE calls at the end *)
(* of get_context only read, and no rule uses what they return.            *)
(***************************************************************************)
EXTENDS Integers

CONSTANTS
    Workers,
    Transactions,
    Keys,          \* the sorted sets, of customers and of merchants
    KeyOf,         \* KeyOf[t][s]: the key of t on side s
    EventTime,     \* EventTime[t]
    Window,        \* VelocityContextProvider.window
    Ttl,           \* VelocityContextProvider.ttl_seconds
    MaxNow,        \* bound on the wall clock
    NoTransaction

Sides == {"customer", "merchant"}

ASSUME VelocityAssumption ==
    /\ KeyOf \in [Transactions -> [Sides -> Keys]]
    /\ \A t, u \in Transactions : KeyOf[t]["customer"] # KeyOf[u]["merchant"]
    /\ EventTime \in [Transactions -> Nat]
    /\ Window \in Nat \ {0}
    /\ Ttl \in Nat \ {0}
    /\ MaxNow \in Nat
    /\ NoTransaction \notin Transactions

VARIABLES
    zset,      \* zset[k]: members of the sorted set k
    ttl,       \* ttl[k]: as the TTL command returns it, -1 for no expiry
    now,       \* wall clock of the workers
    pc,        \* pc[w]: the command w is waiting for
    side,      \* side[w]: the key it is about
    tx,        \* tx[w]: the transaction of the call
    \* history
    recorded,  \* recorded[k]: members added to k since k last expired
    newest,    \* newest[k]: latest event time for which k has been trimmed
    stray      \* keys a call interrupted before its EXPIRE left without expiry

redis == <<zset, ttl>>
call == <<pc, side, tx>>
vars == <<redis, now, call, recorded, newest, stray>>

Commands == {"zremrangebyscore", "zadd", "expire", "zcount"}

NoExpiry == -1

TypeOK ==
    /\ zset \in [Keys -> SUBSET Transactions]
    /\ ttl \in [Keys -> {NoExpiry} \cup 1 .. Ttl]
    /\ now \in 0 .. MaxNow
    /\ pc \in [Workers -> Commands \cup {"idle"}]
    /\ side \in [Workers -> Sides]
    /\ tx \in [Workers -> Transactions \cup {NoTransaction}]
    /\ recorded \in [Keys -> SUBSET Transactions]
    /\ newest \in [Keys -> Nat]
    /\ stray \subseteq Keys
    /\ \A w \in Workers : pc[w] # "idle" => tx[w] \in Transactions

Init ==
    /\ zset = [k \in Keys |-> {}]
    /\ ttl = [k \in Keys |-> NoExpiry]
    /\ now = 0
    /\ pc = [w \in Workers |-> "idle"]
    /\ side = [w \in Workers |-> "customer"]
    /\ tx = [w \in Workers |-> NoTransaction]
    /\ recorded = [k \in Keys |-> {}]
    /\ newest = [k \in Keys |-> 0]
    /\ stray = {}

Key(w) == KeyOf[tx[w]][side[w]]

Cutoff(t) == EventTime[t] - Window

-----------------------------------------------------------------------------
(* The commands, as the Redis server executes them                         *)

\* Mutant: the window ends now, not at the event.
TrimByWallClock(w) ==
    /\ zset' = [zset EXCEPT ![Key(w)] = {t \in @ : EventTime[t] > now - Window}]
    /\ UNCHANGED <<ttl, recorded, newest>>

\* A sorted set that becomes empty is deleted, with its time-to-live.
TrimEffect(w) ==
    LET kept == {t \in zset[Key(w)] : EventTime[t] > Cutoff(tx[w])}
    IN  /\ zset' = [zset EXCEPT ![Key(w)] = kept]
        /\ ttl' = [ttl EXCEPT ![Key(w)] = IF kept = {} THEN NoExpiry ELSE @]
        /\ newest' = [newest EXCEPT ![Key(w)] =
                          IF EventTime[tx[w]] > @ THEN EventTime[tx[w]] ELSE @]
        /\ UNCHANGED recorded

AddEffect(w) ==
    /\ zset' = [zset EXCEPT ![Key(w)] = @ \cup {tx[w]}]
    /\ recorded' = [recorded EXCEPT ![Key(w)] = @ \cup {tx[w]}]
    /\ UNCHANGED <<ttl, newest>>

\* Mutant: an absolute time where EXPIRE takes a relative one.
ExpireAbsolute(w) ==
    /\ ttl' = [ttl EXCEPT ![Key(w)] = IF zset[Key(w)] = {} THEN @ ELSE now + Ttl]
    /\ UNCHANGED <<zset, recorded, newest>>

\* Mutant: the merchant's key is forgotten.
ExpireCustomerOnly(w) ==
    /\ ttl' = [ttl EXCEPT ![Key(w)] =
                   IF zset[Key(w)] = {} \/ side[w] = "merchant" THEN @ ELSE Ttl]
    /\ UNCHANGED <<zset, recorded, newest>>

\* EXPIRE does nothing to a key that does not exist.
ExpireEffect(w) ==
    /\ ttl' = [ttl EXCEPT ![Key(w)] = IF zset[Key(w)] = {} THEN @ ELSE Ttl]
    /\ UNCHANGED <<zset, recorded, newest>>

\* Mutant: the upper end is excluded.
CountedBefore(w) ==
    {t \in zset[Key(w)] :
        Cutoff(tx[w]) <= EventTime[t] /\ EventTime[t] < EventTime[tx[w]]}

\* What ZCOUNT counts: both ends of the interval are included.
Counted(w) ==
    {t \in zset[Key(w)] :
        Cutoff(tx[w]) <= EventTime[t] /\ EventTime[t] <= EventTime[tx[w]]}

Effect(w) ==
    CASE pc[w] = "zremrangebyscore" -> TrimEffect(w)
      [] pc[w] = "zadd" -> AddEffect(w)
      [] pc[w] = "expire" -> ExpireEffect(w)
      [] OTHER -> UNCHANGED <<redis, recorded, newest>>

-----------------------------------------------------------------------------
(* get_context *)

GoTo(w, command, s) ==
    /\ pc' = [pc EXCEPT ![w] = command]
    /\ side' = [side EXCEPT ![w] = s]

Return(w) ==
    /\ GoTo(w, "idle", "customer")
    /\ tx' = [tx EXCEPT ![w] = NoTransaction]

\* _validate_event_time; any other event makes the call raise before its first
\* command.
ValidEventTime(t) == EventTime[t] <= now

Begin(w) ==
    /\ pc[w] = "idle"
    /\ \E t \in Transactions :
          /\ ValidEventTime(t)
          /\ tx' = [tx EXCEPT ![w] = t]
    /\ GoTo(w, "zremrangebyscore", "customer")
    /\ UNCHANGED <<redis, now, recorded, newest, stray>>

Trim(w) ==
    /\ pc[w] = "zremrangebyscore"
    /\ TrimEffect(w)
    /\ GoTo(w, "zadd", side[w])
    /\ UNCHANGED <<now, tx, stray>>

Add(w) ==
    /\ pc[w] = "zadd"
    /\ AddEffect(w)
    /\ GoTo(w, "expire", side[w])
    /\ UNCHANGED <<now, tx, stray>>

\* The last command for a key; after both keys come the counts.
Expire(w) ==
    /\ pc[w] = "expire"
    /\ ExpireEffect(w)
    /\ IF side[w] = "customer"
       THEN GoTo(w, "zremrangebyscore", "merchant")
       ELSE GoTo(w, "zcount", "customer")
    /\ stray' = stray \ {Key(w)}
    /\ UNCHANGED <<now, tx>>

\* The counts, of the customer and then of the merchant.
Count(w) ==
    /\ pc[w] = "zcount"
    /\ IF side[w] = "customer"
       THEN GoTo(w, "zcount", "merchant") /\ UNCHANGED tx
       ELSE Return(w)
    /\ UNCHANGED <<redis, now, recorded, newest, stray>>

\* The command raises, or the process dies, and the command was executed or was
\* not.  Nothing is undone.
Interrupt(w) ==
    /\ pc[w] # "idle"
    /\ Effect(w) \/ UNCHANGED <<redis, recorded, newest>>
    /\ stray' = IF pc[w] \in {"zadd", "expire"} /\ ttl'[Key(w)] = NoExpiry
                THEN stray \cup {Key(w)} ELSE stray
    /\ Return(w)
    /\ UNCHANGED now

\* Redis deletes a key when its time-to-live is over.
Tick ==
    /\ now < MaxNow
    /\ now' = now + 1
    /\ zset' = [k \in Keys |-> IF ttl[k] = 1 THEN {} ELSE zset[k]]
    /\ recorded' = [k \in Keys |-> IF ttl[k] = 1 THEN {} ELSE recorded[k]]
    /\ ttl' = [k \in Keys |-> CASE ttl[k] = 1 -> NoExpiry
                                [] ttl[k] > 1 -> ttl[k] - 1
                                [] OTHER -> ttl[k]]
    /\ UNCHANGED <<call, newest, stray>>

Next ==
    \/ \E w \in Workers :
          \/ Begin(w)
          \/ Trim(w)
          \/ Add(w)
          \/ Expire(w)
          \/ Count(w)
          \/ Interrupt(w)
    \/ Tick

Spec == Init /\ [][Next]_vars

-----------------------------------------------------------------------------
(* Properties *)

\* The transactions of the key, recorded since it last expired, that are less
\* than a window older than the event of w and not newer than it.
Neighbours(w) ==
    {t \in recorded[Key(w)] :
        Cutoff(tx[w]) < EventTime[t] /\ EventTime[t] <= EventTime[tx[w]]}

\* A count finds every neighbour, and itself, as long as no call for a later
\* event has trimmed the key: workers that interleave lose no entry of each
\* other, and a call that was interrupted takes none away.
LatestCountIsExact ==
    \A w \in Workers :
        pc[w] = "zcount" /\ newest[Key(w)] <= EventTime[tx[w]]
            => Neighbours(w) \subseteq Counted(w)

\* An entry disappears only because its key expired or because of a call for an
\* event at least one window later; a duplicate or an older event removes none.
MissingHasCause ==
    \A k \in Keys : \A t \in recorded[k] \ zset[k] :
        EventTime[t] + Window <= newest[k]

\* No event from the future enters the windows, however long a call takes.
NothingFromFuture ==
    \A k \in Keys : \A t \in zset[k] : EventTime[t] <= now

\* Bounded retention ("Apply TTL and bounded retention", milestones/5.2.md:41):
\* a sorted set without time-to-live is about to get one, or the call that should
\* have set it was interrupted.
RetentionIsBounded ==
    \A k \in Keys :
        zset[k] # {} /\ ttl[k] = NoExpiry =>
            k \in stray \/ \E w \in Workers : pc[w] = "expire" /\ Key(w) = k

-----------------------------------------------------------------------------
(* The inductive invariant behind these properties (see VelocityProofs).   *)

\* A call under way is about an event of the past.
CallIsValid == \A w \in Workers : pc[w] # "idle" => EventTime[tx[w]] <= now

VelocityInv ==
    /\ CallIsValid
    /\ MissingHasCause
    /\ NothingFromFuture
    /\ RetentionIsBounded
=============================================================================
