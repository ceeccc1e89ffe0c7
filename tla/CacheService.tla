---------------------------- MODULE CacheService ----------------------------
(***************************************************************************)
(* Cache-aside over one Redis: CacheService.getOrSet with and without its  *)
(* lock, the response caching of middleware.ts (getOrSet without lock, of  *)
(* a response that may turn out not to be cached), and the deletions of    *)
(* CacheInvalidator after a change of the data.                            *)
(*                                                                         *)
(* A call is a coroutine of some process; the field pc names the await it  *)
(* stands at.  Every Redis command is one step.  With Faults a command may *)
(* be refused, or its reply lost after it took effect; the service answers *)
(* both as if nothing were cached or nothing had to be done.               *)
(***************************************************************************)
EXTENDS Naturals, FiniteSets, Sequences

CONSTANTS
    Callers,        \* coroutines at work at the same time
    Kinds,          \* the kinds of data cached; a behaviour is about one of them
    Views,          \* Views[d]: the keys under which data of kind d is cached
    Plan,           \* Plan[d]: what invalidating d deletes, step by step
    MaxVersion,     \* bound: how often the data changes
    Locking,        \* the values of the option useLock in use
    Faults,         \* whether Redis, the data source and the process may fail
    Absent          \* no entry

Versions == 0..MaxVersion

ASSUME CacheAssumption ==
    /\ Absent \notin Versions
    /\ Locking \subseteq BOOLEAN
    /\ Faults \in BOOLEAN
    /\ MaxVersion \in Nat

VARIABLES
    kind,           \* the kind of data this behaviour is about
    source,         \* the version of the data in the database
    entry,          \* the version cached under each key
    lock,           \* the keys whose lock is set
    call,           \* the calls in flight
    excused         \* ghost: keys filled late, or whose deletion failed

vars == <<kind, source, entry, lock, call, excused>>

Keys == UNION {Views[d] : d \in Kinds}

\* A name in Redis: the parts of a key between its colons.
Names == Seq(STRING)

\* One awaited delete of an invalidation: of a key, or of the keys a pattern matches.
Deletion == [pattern : BOOLEAN, keys : SUBSET Names]

ASSUME PlanAssumption ==
    /\ Views \in [Kinds -> SUBSET Names]
    /\ Plan \in [Kinds -> Seq(Deletion)]

\* The lock of a key is kept under the key's name with ":lock" after it, where patterns
\* find it too.
LockOf(k) == Append(k, "lock")

Idle == [pc |-> "idle", key |-> Absent, value |-> Absent, locking |-> FALSE,
         plan |-> <<>>, found |-> {}]

Init ==
    /\ kind \in Kinds
    /\ source = 0
    /\ entry = [k \in Keys |-> Absent]
    /\ lock = {}
    /\ call = [c \in Callers |-> Idle]
    /\ excused = {}

At(c, l) == call[c].pc = l

Goto(c, l) == call' = [call EXCEPT ![c].pc = l]

Finish(c) == call' = [call EXCEPT ![c] = Idle]

-----------------------------------------------------------------------------
(* getOrSet *)

Begin(c, k, l) ==
    /\ At(c, "idle")
    /\ call' = [call EXCEPT ![c] = [Idle EXCEPT !.pc = "get", !.key = k, !.locking = l]]
    /\ UNCHANGED <<kind, source, entry, lock, excused>>

\* The first lookup, or the one after the wait for another's fetch, finds the value.
Hit(c) ==
    /\ At(c, "get") \/ At(c, "retry")
    /\ entry[call[c].key] # Absent
    /\ Finish(c)
    /\ UNCHANGED <<kind, source, entry, lock, excused>>

\* Mutant: who waits for another's fetch looks again until the value is there.
MissAndWaitOn(c) ==
    /\ At(c, "get") \/ At(c, "retry")
    /\ entry[call[c].key] = Absent \/ Faults
    /\ Goto(c, IF At(c, "retry") THEN "retry" ELSE IF call[c].locking THEN "lock" ELSE "fetch")
    /\ UNCHANGED <<kind, source, entry, lock, excused>>

\* Nothing cached, or nothing to be had from Redis.  Who waited once fetches himself.
Miss(c) ==
    /\ At(c, "get") \/ At(c, "retry")
    /\ entry[call[c].key] = Absent \/ Faults
    /\ Goto(c, IF At(c, "get") /\ call[c].locking THEN "lock" ELSE "fetch")
    /\ UNCHANGED <<kind, source, entry, lock, excused>>

TakeLock(c) ==
    /\ At(c, "lock")
    /\ call[c].key \notin lock
    /\ lock' = lock \cup {call[c].key}
    /\ Goto(c, "fetch")
    /\ UNCHANGED <<kind, source, entry, excused>>

\* Mutant: the lock is set under the name of the lock's lock.
NoLockButItsLock(c) ==
    /\ At(c, "lock")
    /\ call[c].key \in lock \/ Faults
    /\ lock' \in {lock, lock \cup {LockOf(call[c].key)}}
    /\ Goto(c, "retry")
    /\ UNCHANGED <<kind, source, entry, excused>>

\* setIfNotExists answers false: the lock is set, or the command failed, perhaps after
\* it had set the lock.
NoLock(c) ==
    /\ At(c, "lock")
    /\ call[c].key \in lock \/ Faults
    /\ lock' \in {lock, lock \cup {call[c].key}}
    /\ Goto(c, "retry")
    /\ UNCHANGED <<kind, source, entry, excused>>

Fetch(c) ==
    /\ At(c, "fetch")
    /\ call' = [call EXCEPT ![c].pc = "set", ![c].value = source]
    /\ UNCHANGED <<kind, source, entry, lock, excused>>

\* The fetcher throws.  With the lock it is tried again, without caring for the lock any
\* more; without, the error goes to the caller.
FetchFails(c) ==
    /\ Faults
    /\ At(c, "fetch")
    /\ IF call[c].locking
       THEN call' = [call EXCEPT ![c].locking = FALSE]
       ELSE Finish(c)
    /\ UNCHANGED <<kind, source, entry, lock, excused>>

\* The middleware stores no response that is not successful, or that it was told not to.
NotStored(c) ==
    /\ At(c, "fetch")
    /\ ~call[c].locking
    /\ Finish(c)
    /\ UNCHANGED <<kind, source, entry, lock, excused>>

AfterSet(c) == IF call[c].locking THEN Goto(c, "unlock") ELSE Finish(c)

\* setex: the entry replaces whatever is there, be it newer.
Set(c) ==
    /\ At(c, "set")
    /\ LET k == call[c].key
       IN  /\ entry' = [entry EXCEPT ![k] = call[c].value]
           /\ excused' = IF call[c].value = source THEN excused \ {k} ELSE excused \cup {k}
    /\ AfterSet(c)
    /\ UNCHANGED <<kind, source, lock>>

\* set answers false, which nobody looks at.
SetFails(c) ==
    /\ Faults
    /\ At(c, "set")
    /\ AfterSet(c)
    /\ UNCHANGED <<kind, source, entry, lock, excused>>

\* Who fetched after waiting deletes the lock too, although it is another's.
Unlock(c) ==
    /\ At(c, "unlock")
    /\ lock' \in {lock \ {call[c].key}} \cup (IF Faults THEN {lock} ELSE {})
    /\ Finish(c)
    /\ UNCHANGED <<kind, source, entry, excused>>

-----------------------------------------------------------------------------
(* Changes of the data, and invalidation *)

\* A writer changes the data, then invalidates it.
Update(c) ==
    /\ At(c, "idle")
    /\ source < MaxVersion
    /\ source' = source + 1
    /\ call' = [call EXCEPT ![c] = [Idle EXCEPT !.pc = "invalidate", !.plan = Plan[kind]]]
    /\ UNCHANGED <<kind, entry, lock, excused>>

\* The next step of the plan.
NextStep(c) ==
    call' = [call EXCEPT ![c].pc = "invalidate", ![c].plan = Tail(@), ![c].found = {}]

Invalidated(c) ==
    /\ At(c, "invalidate")
    /\ call[c].plan = <<>>
    /\ Finish(c)
    /\ UNCHANGED <<kind, source, entry, lock, excused>>

\* del: entries and locks alike.
Delete(gone) ==
    /\ entry' = [k \in Keys |-> IF k \in gone THEN Absent ELSE entry[k]]
    /\ lock' = {k \in lock : LockOf(k) \notin gone}
    /\ excused' = excused \ gone

DeleteKey(c) ==
    /\ At(c, "invalidate")
    /\ call[c].plan # <<>>
    /\ ~Head(call[c].plan).pattern
    /\ Delete(Head(call[c].plan).keys)
    /\ NextStep(c)
    /\ UNCHANGED <<kind, source>>

\* deletePattern asks for the keys that match and are there ...
FindKeys(c) ==
    /\ At(c, "invalidate")
    /\ call[c].plan # <<>>
    /\ Head(call[c].plan).pattern
    /\ LET present == {k \in Keys : entry[k] # Absent} \cup {LockOf(k) : k \in lock}
           found == Head(call[c].plan).keys \cap present
       IN  IF found = {}
           THEN NextStep(c)
           ELSE call' = [call EXCEPT ![c].pc = "del", ![c].found = found]
    /\ UNCHANGED <<kind, source, entry, lock, excused>>

\* ... and deletes these, not those that came since.
DeleteFound(c) ==
    /\ At(c, "del")
    /\ Delete(call[c].found)
    /\ NextStep(c)
    /\ UNCHANGED <<kind, source>>

\* Mutant: a failed deletion ends the plan.
DeleteFailsForAll(c) ==
    /\ Faults
    /\ At(c, "invalidate") \/ At(c, "del")
    /\ call[c].plan # <<>>
    /\ excused' = excused \cup (Head(call[c].plan).keys \cap Keys)
    /\ Finish(c)
    /\ UNCHANGED <<kind, source, entry, lock>>

\* A failed deletion is logged and the plan goes on.
DeleteFails(c) ==
    /\ Faults
    /\ At(c, "invalidate") \/ At(c, "del")
    /\ call[c].plan # <<>>
    /\ excused' = excused \cup (Head(call[c].plan).keys \cap Keys)
    /\ NextStep(c)
    /\ UNCHANGED <<kind, source, entry, lock>>

-----------------------------------------------------------------------------
(* Time and failure *)

\* Mutant: set gives the entry no time to live.
ExpireNever(k) ==
    /\ entry[k] \notin Versions \cup {Absent}
    /\ entry' = [entry EXCEPT ![k] = Absent]
    /\ UNCHANGED <<kind, source, lock, call, excused>>

\* Every entry has a time to live.
Expire(k) ==
    /\ entry[k] # Absent
    /\ entry' = [entry EXCEPT ![k] = Absent]
    /\ excused' = excused \ {k}
    /\ UNCHANGED <<kind, source, lock, call>>

Fetching(c, k) ==
    call[c].locking /\ call[c].key = k /\ call[c].pc \in {"fetch", "set", "unlock"}

\* A lock lives for five seconds, which an undisturbed fetch does not take.
ExpireLock(k) ==
    /\ k \in lock
    /\ Faults \/ \A c \in Callers : ~Fetching(c, k)
    /\ lock' = lock \ {k}
    /\ UNCHANGED <<kind, source, entry, call, excused>>

\* The keys that c has still to delete.
Pending(c) ==
    call[c].found \cup UNION {call[c].plan[i].keys : i \in 1..Len(call[c].plan)}

\* The process of the call dies.
Crash(c) ==
    /\ Faults
    /\ ~At(c, "idle")
    /\ excused' = excused \cup (Pending(c) \cap Keys)
    /\ Finish(c)
    /\ UNCHANGED <<kind, source, entry, lock>>

-----------------------------------------------------------------------------

Proceed(c) ==
    \/ Hit(c)
    \/ Miss(c)
    \/ TakeLock(c)
    \/ NoLock(c)
    \/ Fetch(c)
    \/ FetchFails(c)
    \/ NotStored(c)
    \/ Set(c)
    \/ SetFails(c)
    \/ Unlock(c)
    \/ Invalidated(c)
    \/ DeleteKey(c)
    \/ FindKeys(c)
    \/ DeleteFound(c)
    \/ DeleteFails(c)

Next ==
    \/ \E c \in Callers :
          \/ \E k \in Views[kind], l \in Locking : Begin(c, k, l)
          \/ Update(c)
          \/ Proceed(c)
          \/ Crash(c)
    \/ \E k \in Views[kind] : Expire(k) \/ ExpireLock(k)

\* A command is answered or times out, and Redis drops what has expired.
Fairness ==
    /\ \A c \in Callers : WF_vars(Proceed(c))
    /\ \A k \in Keys : WF_vars(Expire(k))

Spec == Init /\ [][Next]_vars /\ Fairness

-----------------------------------------------------------------------------

Pc == {"idle", "get", "lock", "retry", "fetch", "set", "unlock", "invalidate", "del"}

\* Versions are those of the source; locks, excuses and calls speak of keys in use.
TypeOK ==
    /\ kind \in Kinds
    /\ source \in Versions
    /\ entry \in [Keys -> Versions \cup {Absent}]
    /\ lock \subseteq Keys
    /\ excused \subseteq Keys
    /\ \A c \in Callers :
          /\ call[c].pc \in Pc
          /\ call[c].key \in Keys \cup {Absent}
          /\ call[c].value \in Versions \cup {Absent}
          /\ call[c].locking \in BOOLEAN

Stale(k) == entry[k] # Absent /\ entry[k] < source

\* Some step of the kind's plan deletes the key.
Reached(k) == \E i \in 1..Len(Plan[kind]) : k \in Plan[kind][i].keys

\* An entry older than the data is under a key that the plan does not reach, or is about to be
\* deleted by an invalidation under way, or was filled by a call that had fetched before the
\* data changed, or its deletion failed.  Deleting key by key and pattern by pattern, while
\* others fill, leaves no other way to serve old data (CacheInvalidator: "Prevents stale cache
\* issues").
StaleExplained ==
    \A k \in Keys : Stale(k) => \/ ~Reached(k)
                                \/ k \in excused
                                \/ \E c \in Callers : k \in Pending(c)

\* Once the data stops changing, old entries disappear for good, whatever raced or
\* failed: a late fill lives as long as its time to live.
Converges == <>[](\A k \in Keys : ~Stale(k))

\* Every call ends, whoever holds the lock and whether or not Redis answers: nobody
\* waits for the lock's holder longer than once.
CallsEnd == \A c \in Callers : ~At(c, "idle") ~> At(c, "idle")

=============================================================================
