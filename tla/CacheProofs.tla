---------------------------- MODULE CacheProofs ----------------------------
(***************************************************************************)
(* Old data is served only for a reason, for any number of calls, keys,    *)
(* kinds of data and plans of invalidation; and which of the keys that     *)
(* CacheKeyBuilder makes the operations of CacheInvalidator delete, and    *)
(* which they leave.                                                       *)
(***************************************************************************)
EXTENDS CacheService, CacheInvalidator, SequenceTheorems, TLAPS

-----------------------------------------------------------------------------
(* Type correctness *)

CallRecord ==
    [pc      : Pc,
     key     : Keys \cup {Absent},
     value   : Versions \cup {Absent},
     locking : BOOLEAN,
     plan    : Seq(Deletion),
     found   : SUBSET Names]

\* A call that gets data has a key of its kind, and no more to delete; one that has
\* fetched holds a version that was the source's then; one that found keys of a pattern
\* is about to delete these.
WellFormed(r) ==
    /\ r.pc \in {"get", "lock", "retry", "fetch", "set", "unlock"} => r.key \in Views[kind]
    /\ r.pc \notin {"invalidate", "del"} => r.plan = <<>>
    /\ r.pc # "del" => r.found = {}
    /\ r.pc = "del" => r.plan # <<>> /\ r.found \subseteq Head(r.plan).keys
    /\ r.pc = "set" => r.value \in 0..source

TypeInv ==
    /\ kind \in Kinds
    /\ source \in Versions
    /\ entry \in [Keys -> 0..source \cup {Absent}]
    /\ \A k \in Keys \ Views[kind] : entry[k] = Absent
    /\ lock \subseteq Keys
    /\ excused \subseteq Keys
    /\ call \in [Callers -> CallRecord]
    /\ \A c \in Callers : WellFormed(call[c])

LEMMA TypeInvTypes == TypeInv => TypeOK
BY CacheAssumption DEF TypeInv, TypeOK, CallRecord, Versions

LEMMA ViewsAreKeys == kind \in Kinds => Views[kind] \subseteq Keys /\ Views[kind] \subseteq Names
BY PlanAssumption DEF Keys

LEMMA IdleType == Idle \in CallRecord /\ WellFormed(Idle)
<1>1. /\ Idle.pc = "idle" /\ Idle.key = Absent /\ Idle.value = Absent
      /\ Idle.locking = FALSE /\ Idle.plan = <<>> /\ Idle.found = {}
  BY DEF Idle
<1>2. <<>> \in Seq(Deletion)
  BY EmptySeq
<1>3. Idle \in CallRecord
  BY <1>2 DEF Idle, CallRecord, Pc
<1> QED
  BY <1>1, <1>3 DEF WellFormed

\* A call that is replaced by a well-formed one.
LEMMA CallPut ==
    ASSUME TypeInv, NEW c \in Callers, NEW r \in CallRecord, call' = [call EXCEPT ![c] = r],
           WellFormed(r), UNCHANGED <<kind, source>>
    PROVE  call' \in [Callers -> CallRecord] /\ \A d \in Callers : WellFormed(call[d])'
BY DEF TypeInv, WellFormed

LEMMA FinishType ==
    ASSUME TypeInv, NEW c \in Callers, Finish(c), UNCHANGED <<kind, source>>
    PROVE  call' \in [Callers -> CallRecord] /\ \A d \in Callers : WellFormed(call[d])'
BY IdleType, CallPut DEF Finish

\* A call that gets data goes on: to a state that needs no more than the key.
LEMMA GotoType ==
    ASSUME TypeInv, NEW c \in Callers, NEW pc \in {"lock", "retry", "fetch", "unlock"},
           Goto(c, pc), call[c].pc \in {"get", "lock", "retry", "fetch", "set", "unlock"},
           UNCHANGED <<kind, source>>
    PROVE  call' \in [Callers -> CallRecord] /\ \A d \in Callers : WellFormed(call[d])'
<1> DEFINE r == [call[c] EXCEPT !.pc = pc]
<1>1. call[c] \in CallRecord /\ WellFormed(call[c])
  BY DEF TypeInv
<1>2. /\ r \in CallRecord /\ r.pc = pc /\ r.key = call[c].key
      /\ r.plan = call[c].plan /\ r.found = call[c].found
  BY <1>1 DEF CallRecord, Pc
<1>3. call' = [call EXCEPT ![c] = r]
  BY DEF Goto
<1> HIDE DEF r
<1>4. WellFormed(r)
  BY <1>1, <1>2 DEF WellFormed
<1> QED
  BY <1>2, <1>3, <1>4, CallPut

\* The next step of a plan: what is left of it is well formed.
LEMMA NextStepType ==
    ASSUME TypeInv, NEW c \in Callers, NextStep(c), call[c].plan # <<>>,
           UNCHANGED <<kind, source>>
    PROVE  call' \in [Callers -> CallRecord] /\ \A d \in Callers : WellFormed(call[d])'
<1> DEFINE p == Tail(call[c].plan)
           r == [call[c] EXCEPT !.pc = "invalidate", !.plan = p, !.found = {}]
<1>1. call[c] \in CallRecord /\ p \in Seq(Deletion)
  BY HeadTailProperties DEF TypeInv, CallRecord
<1>2. call' = [call EXCEPT ![c] = r]
  BY DEF NextStep, TypeInv
<1> HIDE DEF p
<1>3. r \in CallRecord /\ r.pc = "invalidate" /\ r.found = {}
  BY <1>1 DEF CallRecord, Pc
<1> HIDE DEF r
<1>4. WellFormed(r)
  BY <1>3 DEF WellFormed
<1> QED
  BY <1>2, <1>3, <1>4, CallPut

\* A step that changes nothing but a call.
LEMMA CallOnlyType ==
    ASSUME TypeInv, UNCHANGED <<kind, source, entry, lock, excused>>,
           call' \in [Callers -> CallRecord], \A d \in Callers : WellFormed(call[d])'
    PROVE  TypeInv'
BY DEF TypeInv

\* The key of a call that gets data.
LEMMA GetsKey ==
    ASSUME TypeInv, NEW c \in Callers,
           call[c].pc \in {"get", "lock", "retry", "fetch", "set", "unlock"}
    PROVE  call[c].key \in Views[kind] /\ call[c].key \in Keys /\ call[c].key \in Names
BY ViewsAreKeys DEF TypeInv, WellFormed

LEMMA BeginType ==
    ASSUME TypeInv, NEW c \in Callers, NEW k \in Views[kind], NEW l \in Locking, Begin(c, k, l)
    PROVE  TypeInv'
<1> DEFINE r == [Idle EXCEPT !.pc = "get", !.key = k, !.locking = l]
<1>1. k \in Keys /\ l \in BOOLEAN
  BY ViewsAreKeys, CacheAssumption DEF TypeInv
<1>2. /\ r \in CallRecord /\ r.pc = "get" /\ r.key = k
      /\ r.plan = Idle.plan /\ r.found = Idle.found
  BY <1>1, IdleType DEF CallRecord, Pc
<1>3. call' = [call EXCEPT ![c] = r] /\ UNCHANGED <<kind, source, entry, lock, excused>>
  BY DEF Begin
<1>4. Idle.plan = <<>> /\ Idle.found = {}
  BY DEF Idle
<1> HIDE DEF r
<1>5. WellFormed(r)
  BY <1>2, <1>4 DEF WellFormed
<1> QED
  BY <1>2, <1>3, <1>5, CallPut, CallOnlyType

LEMMA HitType == ASSUME TypeInv, NEW c \in Callers, Hit(c) PROVE TypeInv'
BY FinishType, CallOnlyType DEF Hit

LEMMA MissType == ASSUME TypeInv, NEW c \in Callers, Miss(c) PROVE TypeInv'
<1> DEFINE pc == IF At(c, "get") /\ call[c].locking THEN "lock" ELSE "fetch"
<1>1. pc \in {"lock", "retry", "fetch", "unlock"} /\ Goto(c, pc)
  BY DEF Miss
<1>2. call[c].pc \in {"get", "lock", "retry", "fetch", "set", "unlock"}
  BY DEF Miss, At
<1> HIDE DEF pc
<1> QED
  BY <1>1, <1>2, GotoType, CallOnlyType DEF Miss

LEMMA TakeLockType == ASSUME TypeInv, NEW c \in Callers, TakeLock(c) PROVE TypeInv'
<1>1. call[c].pc \in {"get", "lock", "retry", "fetch", "set", "unlock"} /\ Goto(c, "fetch")
  BY DEF TakeLock, At
<1>2. lock' \subseteq Keys
  BY <1>1, GetsKey DEF TakeLock, TypeInv
<1>3. call' \in [Callers -> CallRecord] /\ \A d \in Callers : WellFormed(call[d])'
  BY <1>1, GotoType DEF TakeLock
<1> QED
  BY <1>2, <1>3 DEF TakeLock, TypeInv

LEMMA NoLockType == ASSUME TypeInv, NEW c \in Callers, NoLock(c) PROVE TypeInv'
<1>1. call[c].pc \in {"get", "lock", "retry", "fetch", "set", "unlock"} /\ Goto(c, "retry")
  BY DEF NoLock, At
<1>2. lock' \subseteq Keys
  BY <1>1, GetsKey DEF NoLock, TypeInv
<1>3. call' \in [Callers -> CallRecord] /\ \A d \in Callers : WellFormed(call[d])'
  BY <1>1, GotoType DEF NoLock
<1> QED
  BY <1>2, <1>3 DEF NoLock, TypeInv

LEMMA FetchType == ASSUME TypeInv, NEW c \in Callers, Fetch(c) PROVE TypeInv'
<1> DEFINE r == [call[c] EXCEPT !.pc = "set", !.value = source]
<1>1. /\ call[c] \in CallRecord /\ WellFormed(call[c])
      /\ call[c].pc = "fetch" /\ source \in Versions
  BY DEF TypeInv, Fetch, At
<1>2. /\ r \in CallRecord /\ r.pc = "set" /\ r.key = call[c].key
      /\ r.plan = call[c].plan /\ r.found = call[c].found /\ r.value = source
  BY <1>1 DEF CallRecord, Pc
<1>3. call' = [call EXCEPT ![c] = r] /\ UNCHANGED <<kind, source, entry, lock, excused>>
  BY DEF Fetch, TypeInv
<1> HIDE DEF r
<1>4. source \in 0..source
  BY <1>1, CacheAssumption DEF Versions
<1>5. WellFormed(r)
  BY <1>1, <1>2, <1>4 DEF WellFormed
<1> QED
  BY <1>2, <1>3, <1>5, CallPut, CallOnlyType

LEMMA FetchFailsType == ASSUME TypeInv, NEW c \in Callers, FetchFails(c) PROVE TypeInv'
<1>1. CASE call[c].locking
  <2> DEFINE r == [call[c] EXCEPT !.locking = FALSE]
  <2>1. /\ call[c] \in CallRecord /\ WellFormed(call[c]) /\ call[c].pc = "fetch"
    BY DEF TypeInv, FetchFails, At
  <2>2. /\ r \in CallRecord /\ r.pc = "fetch" /\ r.key = call[c].key
        /\ r.plan = call[c].plan /\ r.found = call[c].found
    BY <2>1 DEF CallRecord, Pc
  <2>3. call' = [call EXCEPT ![c] = r] /\ UNCHANGED <<kind, source, entry, lock, excused>>
    BY <1>1 DEF FetchFails, TypeInv
  <2> HIDE DEF r
  <2>4. WellFormed(r)
    BY <2>1, <2>2 DEF WellFormed
  <2> QED
    BY <2>2, <2>3, <2>4, CallPut, CallOnlyType
<1>2. CASE ~call[c].locking
  BY <1>2, FinishType, CallOnlyType DEF FetchFails
<1> QED
  BY <1>1, <1>2

LEMMA NotStoredType == ASSUME TypeInv, NEW c \in Callers, NotStored(c) PROVE TypeInv'
BY FinishType, CallOnlyType DEF NotStored

LEMMA AfterSetType ==
    ASSUME TypeInv, NEW c \in Callers, call[c].pc = "set", AfterSet(c), UNCHANGED <<kind, source>>
    PROVE  call' \in [Callers -> CallRecord] /\ \A d \in Callers : WellFormed(call[d])'
<1>1. CASE call[c].locking
  BY <1>1, GotoType DEF AfterSet
<1>2. CASE ~call[c].locking
  BY <1>2, FinishType DEF AfterSet
<1> QED
  BY <1>1, <1>2

LEMMA SetType == ASSUME TypeInv, NEW c \in Callers, Set(c) PROVE TypeInv'
<1>1. call[c].pc = "set" /\ call[c].value \in 0..source
  BY DEF TypeInv, WellFormed, Set, At
<1>2. call[c].key \in Views[kind] /\ call[c].key \in Keys
  BY <1>1, GetsKey
<1>3. call' \in [Callers -> CallRecord] /\ \A d \in Callers : WellFormed(call[d])'
  BY <1>1, AfterSetType DEF Set
<1>4. /\ entry' = [entry EXCEPT ![call[c].key] = call[c].value]
      /\ excused' \subseteq excused \cup {call[c].key}
      /\ UNCHANGED <<kind, source, lock>>
  BY DEF Set
<1> QED
  BY <1>1, <1>2, <1>3, <1>4 DEF TypeInv

LEMMA SetFailsType == ASSUME TypeInv, NEW c \in Callers, SetFails(c) PROVE TypeInv'
BY AfterSetType, CallOnlyType DEF SetFails, At

LEMMA UnlockType == ASSUME TypeInv, NEW c \in Callers, Unlock(c) PROVE TypeInv'
<1>1. call' \in [Callers -> CallRecord] /\ \A d \in Callers : WellFormed(call[d])'
  BY FinishType DEF Unlock
<1>2. lock' \subseteq Keys
  BY DEF Unlock, TypeInv
<1> QED
  BY <1>1, <1>2 DEF Unlock, TypeInv

LEMMA UpdateType == ASSUME TypeInv, NEW c \in Callers, Update(c) PROVE TypeInv'
<1>0. PICK p : p = Plan[kind]
  OBVIOUS
<1> DEFINE r == [Idle EXCEPT !.pc = "invalidate", !.plan = p]
<1>1. /\ source' = source + 1 /\ source \in Versions /\ source < MaxVersion
      /\ UNCHANGED <<kind, entry, lock, excused>> /\ call' = [call EXCEPT ![c] = r]
  BY <1>0 DEF TypeInv, Update
<1>2. source' \in Versions /\ 0..source \subseteq 0..source'
  BY <1>1, CacheAssumption DEF Versions
<1>3. p \in Seq(Deletion)
  BY <1>0, PlanAssumption DEF TypeInv
<1>4. r \in CallRecord /\ r.pc = "invalidate" /\ r.found = Idle.found
  BY <1>3, IdleType DEF CallRecord, Pc
<1>5. Idle.found = {}
  BY DEF Idle
<1> HIDE DEF r
<1>6. WellFormed(r)'
  BY <1>4, <1>5 DEF WellFormed
<1>7. ASSUME NEW d \in Callers PROVE WellFormed(call[d])'
  <2>1. CASE d = c
    BY <2>1, <1>1, <1>6 DEF TypeInv
  <2>2. CASE d # c
    <3>1. call'[d] = call[d] /\ WellFormed(call[d])
      BY <2>2, <1>1 DEF TypeInv
    <3> QED
      BY <3>1, <1>1, <1>2 DEF WellFormed
  <2> QED
    BY <2>1, <2>2
<1> QED
  BY <1>1, <1>2, <1>4, <1>7 DEF TypeInv

LEMMA InvalidatedType == ASSUME TypeInv, NEW c \in Callers, Invalidated(c) PROVE TypeInv'
BY FinishType, CallOnlyType DEF Invalidated

\* Deletions leave fewer entries, locks and excuses.
LEMMA DeleteType ==
    ASSUME TypeInv, NEW gone, Delete(gone), UNCHANGED kind
    PROVE  /\ entry' \in [Keys -> 0..source \cup {Absent}]
           /\ \A k \in Keys \ Views[kind] : entry'[k] = Absent
           /\ lock' \subseteq Keys
           /\ excused' \subseteq Keys
BY DEF Delete, TypeInv

LEMMA DeleteKeyType == ASSUME TypeInv, NEW c \in Callers, DeleteKey(c) PROVE TypeInv'
<1>1. call' \in [Callers -> CallRecord] /\ \A d \in Callers : WellFormed(call[d])'
  BY NextStepType DEF DeleteKey
<1>2. PICK gone : Delete(gone) /\ UNCHANGED <<kind, source>>
  BY DEF DeleteKey
<1> QED
  BY <1>1, <1>2, DeleteType DEF TypeInv

LEMMA FindKeysType == ASSUME TypeInv, NEW c \in Callers, FindKeys(c) PROVE TypeInv'
<1> DEFINE found == Head(call[c].plan).keys
                    \cap ({k \in Keys : entry[k] # Absent} \cup {LockOf(k) : k \in lock})
           r == [call[c] EXCEPT !.pc = "del", !.found = found]
<1>1. /\ call[c] \in CallRecord /\ call[c].plan # <<>>
      /\ UNCHANGED <<kind, source, entry, lock, excused>>
  BY DEF FindKeys, TypeInv
<1>2. CASE found = {}
  BY <1>1, <1>2, NextStepType, CallOnlyType DEF FindKeys
<1>3. CASE found # {}
  <2>0. Head(call[c].plan) \in Deletion
    BY <1>1, HeadTailProperties DEF CallRecord
  <2>1. found \subseteq Names
    BY <2>0 DEF Deletion
  <2>2. call' = [call EXCEPT ![c] = r]
    BY <1>3 DEF FindKeys, TypeInv
  <2>3. found \subseteq Head(call[c].plan).keys
    OBVIOUS
  <2> HIDE DEF found
  <2>4. r \in CallRecord /\ r.pc = "del" /\ r.plan = call[c].plan /\ r.found = found
    BY <1>1, <2>1 DEF CallRecord, Pc
  <2> HIDE DEF r
  <2>5. WellFormed(r)
    BY <1>1, <2>3, <2>4 DEF WellFormed
  <2> QED
    BY <1>1, <2>2, <2>4, <2>5, CallPut, CallOnlyType
<1> QED
  BY <1>2, <1>3

LEMMA DeleteFoundType == ASSUME TypeInv, NEW c \in Callers, DeleteFound(c) PROVE TypeInv'
<1>1. call[c].plan # <<>>
  BY DEF DeleteFound, At, TypeInv, WellFormed
<1>2. call' \in [Callers -> CallRecord] /\ \A d \in Callers : WellFormed(call[d])'
  BY <1>1, NextStepType DEF DeleteFound
<1> QED
  BY <1>2, DeleteType DEF DeleteFound, TypeInv

LEMMA DeleteFailsType == ASSUME TypeInv, NEW c \in Callers, DeleteFails(c) PROVE TypeInv'
<1>1. call' \in [Callers -> CallRecord] /\ \A d \in Callers : WellFormed(call[d])'
  BY NextStepType DEF DeleteFails
<1> QED
  BY <1>1 DEF DeleteFails, TypeInv

LEMMA CrashType == ASSUME TypeInv, NEW c \in Callers, Crash(c) PROVE TypeInv'
<1>1. call' \in [Callers -> CallRecord] /\ \A d \in Callers : WellFormed(call[d])'
  BY FinishType DEF Crash
<1> QED
  BY <1>1 DEF Crash, TypeInv

LEMMA ExpireType == ASSUME TypeInv, NEW k \in Keys, Expire(k) PROVE TypeInv'
<1>1. \A d \in Callers : WellFormed(call[d])'
  BY DEF Expire, TypeInv, WellFormed
<1> QED
  BY <1>1 DEF Expire, TypeInv

LEMMA ExpireLockType == ASSUME TypeInv, NEW k \in Keys, ExpireLock(k) PROVE TypeInv'
<1>1. \A d \in Callers : WellFormed(call[d])'
  BY DEF ExpireLock, TypeInv, WellFormed
<1> QED
  BY <1>1 DEF ExpireLock, TypeInv

LEMMA TypeInvInit == Init => TypeInv
<1> SUFFICES ASSUME Init PROVE TypeInv
  OBVIOUS
<1>1. call \in [Callers -> CallRecord] /\ \A c \in Callers : WellFormed(call[c])
  BY IdleType DEF Init
<1>2. source \in Versions /\ 0 \in 0..source
  BY CacheAssumption DEF Init, Versions
<1> QED
  BY <1>1, <1>2 DEF Init, TypeInv

LEMMA TypeInvStep == TypeInv /\ [Next]_vars => TypeInv'
<1> SUFFICES ASSUME TypeInv, [Next]_vars PROVE TypeInv'
  OBVIOUS
<1>1. CASE UNCHANGED vars
  <2>1. \A d \in Callers : WellFormed(call[d])'
    BY <1>1 DEF vars, TypeInv, WellFormed
  <2> QED
    BY <1>1, <2>1 DEF vars, TypeInv
<1>2. ASSUME NEW c \in Callers, NEW k \in Views[kind], NEW l \in Locking, Begin(c, k, l)
      PROVE  TypeInv'
  BY <1>2, BeginType
<1>3. ASSUME NEW c \in Callers, Update(c) \/ Crash(c) PROVE TypeInv'
  BY <1>3, UpdateType, CrashType
<1>4. ASSUME NEW c \in Callers, Proceed(c) PROVE TypeInv'
  BY <1>4, HitType, MissType, TakeLockType, NoLockType, FetchType, FetchFailsType, NotStoredType,
     SetType, SetFailsType, UnlockType, InvalidatedType, DeleteKeyType, FindKeysType,
     DeleteFoundType, DeleteFailsType DEF Proceed
<1>5. ASSUME NEW k \in Views[kind], Expire(k) \/ ExpireLock(k) PROVE TypeInv'
  <2>1. k \in Keys
    BY ViewsAreKeys DEF TypeInv
  <2> QED
    BY <2>1, <1>5, ExpireType, ExpireLockType
<1> QED
  BY <1>1, <1>2, <1>3, <1>4, <1>5 DEF Next

\* Every step of getOrSet and of an invalidation leaves entries, locks and calls of the
\* right kind: no lock is ever set under a name that is not that of a key in use.
THEOREM TypeOKHolds == Spec => []TypeOK
<1>1. Init => TypeInv
  BY TypeInvInit
<1>2. TypeInv /\ [Next]_vars => TypeInv'
  BY TypeInvStep
<1>3. TypeInv => TypeOK
  BY TypeInvTypes
<1> QED
  BY <1>1, <1>2, <1>3, PTL DEF Spec

-----------------------------------------------------------------------------
(* Old data is explained *)

\* What a call has really still to delete: the keys it has found, and those of the rest of
\* its plan.  Once the keys of a pattern are found, the pattern itself promises no more:
\* a key that was filled since is not deleted by it.
Owes(r, k) ==
    \/ k \in r.found
    \/ \E i \in 1..Len(r.plan) : (i > 1 \/ r.pc # "del") /\ k \in r.plan[i].keys

StaleInv ==
    \A k \in Keys : Stale(k) /\ Reached(k) => k \in excused \/ \E c \in Callers : Owes(call[c], k)

LEMMA OwesIsPending == \A c, k : Owes(call[c], k) => k \in Pending(c)
BY DEF Owes, Pending

LEMMA StaleInvExplains == StaleInv => StaleExplained
BY OwesIsPending DEF StaleInv, StaleExplained

\* A call that does not invalidate, or is done with its plan, owes nothing.
LEMMA OwesNothing ==
    ASSUME TypeInv, NEW c \in Callers,
           call[c].pc \notin {"invalidate", "del"} \/ call[c].plan = <<>>, NEW k
    PROVE  ~Owes(call[c], k)
<1>1. call[c].plan = <<>> /\ call[c].found = {}
  BY DEF TypeInv, WellFormed
<1>2. Len(call[c].plan) = 0
  BY <1>1, EmptySeq
<1> QED
  BY <1>1, <1>2 DEF Owes

\* A step of a call that owes nothing, and changes neither entries nor excuses.
LEMMA QuietStep ==
    ASSUME TypeInv, StaleInv, NEW c \in Callers, UNCHANGED <<kind, source, entry, excused>>,
           call[c].pc \notin {"invalidate", "del"} \/ call[c].plan = <<>>,
           \A d \in Callers \ {c} : call'[d] = call[d]
    PROVE  StaleInv'
<1> SUFFICES ASSUME NEW k \in Keys, Stale(k)', Reached(k)', k \notin excused'
             PROVE  \E d \in Callers : Owes(call'[d], k)
  BY DEF StaleInv
<1>1. PICK d \in Callers : Owes(call[d], k)
  BY DEF StaleInv, Stale, Reached
<1>2. d # c
  BY <1>1, OwesNothing
<1> QED
  BY <1>1, <1>2

LEMMA GotoOthers ==
    ASSUME TypeInv, NEW c \in Callers, NEW pc, Goto(c, pc)
    PROVE  \A d \in Callers \ {c} : call'[d] = call[d]
BY DEF Goto, TypeInv

LEMMA FinishOthers ==
    ASSUME TypeInv, NEW c \in Callers, Finish(c)
    PROVE  \A d \in Callers \ {c} : call'[d] = call[d]
BY DEF Finish, TypeInv

LEMMA BeginStale ==
    ASSUME TypeInv, StaleInv, NEW c \in Callers, NEW k, NEW l, Begin(c, k, l)
    PROVE  StaleInv'
<1>1. \A d \in Callers \ {c} : call'[d] = call[d]
  BY DEF Begin, TypeInv
<1> QED
  BY <1>1, QuietStep DEF Begin, At

\* The steps of getOrSet other than set.
LEMMA GetStale ==
    ASSUME TypeInv, StaleInv, NEW c \in Callers,
           \/ Hit(c) \/ Miss(c) \/ TakeLock(c) \/ NoLock(c) \/ Fetch(c) \/ FetchFails(c)
           \/ NotStored(c) \/ SetFails(c) \/ Unlock(c) \/ Invalidated(c)
    PROVE  StaleInv'
<1>1. CASE Hit(c)
  BY <1>1, FinishOthers, QuietStep DEF Hit, At
<1>2. CASE Miss(c)
  BY <1>2, GotoOthers, QuietStep DEF Miss, At
<1>3. CASE TakeLock(c)
  BY <1>3, GotoOthers, QuietStep DEF TakeLock, At
<1>4. CASE NoLock(c)
  BY <1>4, GotoOthers, QuietStep DEF NoLock, At
<1>5. CASE Fetch(c)
  <2>1. \A d \in Callers \ {c} : call'[d] = call[d]
    BY <1>5 DEF Fetch, TypeInv
  <2> QED
    BY <1>5, <2>1, QuietStep DEF Fetch, At
<1>6. CASE FetchFails(c)
  <2>1. \A d \in Callers \ {c} : call'[d] = call[d]
    BY <1>6, FinishOthers DEF FetchFails, TypeInv
  <2> QED
    BY <1>6, <2>1, QuietStep DEF FetchFails, At
<1>7. CASE NotStored(c)
  BY <1>7, FinishOthers, QuietStep DEF NotStored, At
<1>8. CASE SetFails(c)
  BY <1>8, FinishOthers, GotoOthers, QuietStep DEF SetFails, AfterSet, At
<1>9. CASE Unlock(c)
  BY <1>9, FinishOthers, QuietStep DEF Unlock, At
<1>10. CASE Invalidated(c)
  BY <1>10, FinishOthers, QuietStep DEF Invalidated, At
<1> QED
  BY <1>1, <1>2, <1>3, <1>4, <1>5, <1>6, <1>7, <1>8, <1>9, <1>10

\* A late fill is excused, and one with the data of now is not stale.
LEMMA SetStale ==
    ASSUME TypeInv, StaleInv, NEW c \in Callers, Set(c)
    PROVE  StaleInv'
<1> DEFINE key == call[c].key
<1>1. /\ entry' = [entry EXCEPT ![key] = call[c].value] /\ UNCHANGED <<kind, source>>
      /\ excused' = IF call[c].value = source THEN excused \ {key} ELSE excused \cup {key}
      /\ AfterSet(c) /\ call[c].pc = "set"
  BY DEF Set, At
<1>2. call[c].value \in 0..source /\ source \in Nat /\ key \in Keys
  BY <1>1, GetsKey, CacheAssumption DEF TypeInv, WellFormed, Versions
<1>3. \A d \in Callers \ {c} : call'[d] = call[d]
  BY <1>1, FinishOthers, GotoOthers DEF AfterSet
<1> SUFFICES ASSUME NEW k \in Keys, Stale(k)', Reached(k)', k \notin excused'
             PROVE  \E d \in Callers : Owes(call'[d], k)
  BY DEF StaleInv
<1>4. k # key
  <2> SUFFICES ASSUME k = key PROVE FALSE
    OBVIOUS
  <2>1. entry'[k] = call[c].value
    BY <1>1, <1>2 DEF TypeInv
  <2>2. call[c].value = source
    BY <1>1
  <2> QED
    BY <1>1, <1>2, <2>1, <2>2 DEF Stale
<1>5. Stale(k) /\ Reached(k) /\ k \notin excused
  BY <1>1, <1>4 DEF Stale, Reached, TypeInv
<1>6. PICK d \in Callers : Owes(call[d], k)
  BY <1>5 DEF StaleInv
<1>7. d # c
  BY <1>1, <1>6, OwesNothing
<1> QED
  BY <1>3, <1>6, <1>7

\* What the data was cached under is owed as soon as it has changed.
LEMMA UpdateStale ==
    ASSUME TypeInv, NEW c \in Callers, Update(c)
    PROVE  StaleInv'
<1> SUFFICES ASSUME NEW k \in Keys, Reached(k)'
             PROVE  \E d \in Callers : Owes(call'[d], k)
  BY DEF StaleInv
<1>1. PICK i \in 1..Len(Plan[kind]) : k \in Plan[kind][i].keys
  BY DEF Reached, Update
<1>2. call'[c].pc = "invalidate" /\ call'[c].plan = Plan[kind]
  BY DEF Update, TypeInv, Idle
<1> QED
  BY <1>1, <1>2 DEF Owes

\* The next step of a plan leaves owed what was, but for what the step was about.
LEMMA NextStepOwes ==
    ASSUME TypeInv, NEW c \in Callers, NextStep(c), call[c].plan # <<>>,
           call[c].pc \in {"invalidate", "del"},
           NEW d \in Callers, NEW k, Owes(call[d], k),
           k \notin IF call[c].pc = "del" THEN call[c].found ELSE Head(call[c].plan).keys
    PROVE  Owes(call'[d], k)
<1>1. CASE d # c
  <2>1. call'[d] = call[d]
    BY <1>1 DEF NextStep, TypeInv
  <2> QED
    BY <2>1
<1>2. CASE d = c
  <2> DEFINE p == call[c].plan
  <2>1. p \in Seq(Deletion) /\ (call[c].pc # "del" => call[c].found = {})
    BY DEF TypeInv, CallRecord, WellFormed
  <2>2. /\ Head(p) = p[1] /\ Len(Tail(p)) = Len(p) - 1 /\ Len(p) \in Nat
        /\ \A j \in 1..(Len(p) - 1) : Tail(p)[j] = p[j + 1]
    BY <2>1, HeadTailProperties, LenProperties
  <2>3. call'[c].plan = Tail(p) /\ call'[c].pc = "invalidate"
    BY DEF NextStep, TypeInv, CallRecord
  <2>4. PICK i \in 1..Len(p) : (i > 1 \/ call[c].pc # "del") /\ k \in p[i].keys
    BY <1>2, <2>1 DEF Owes
  <2>5. i > 1
    BY <2>2, <2>4
  <2>6. i - 1 \in 1..Len(Tail(p)) /\ Tail(p)[i - 1] = p[i]
    BY <2>2, <2>4, <2>5
  <2> QED
    BY <1>2, <2>3, <2>4, <2>6 DEF Owes
<1> QED
  BY <1>1, <1>2

LEMMA DeleteKeyStale ==
    ASSUME TypeInv, StaleInv, NEW c \in Callers, DeleteKey(c)
    PROVE  StaleInv'
<1>1. PICK gone : gone = Head(call[c].plan).keys
  OBVIOUS
<1>2. /\ call[c].pc = "invalidate" /\ call[c].plan # <<>>
      /\ Delete(gone) /\ NextStep(c) /\ UNCHANGED <<kind, source>>
  BY <1>1 DEF DeleteKey, At
<1> SUFFICES ASSUME NEW k \in Keys, Stale(k)', Reached(k)', k \notin excused'
             PROVE  \E d \in Callers : Owes(call'[d], k)
  BY DEF StaleInv
<1>3. k \notin gone /\ Stale(k) /\ Reached(k) /\ k \notin excused
  BY <1>2 DEF Delete, Stale, Reached
<1>4. PICK d \in Callers : Owes(call[d], k)
  BY <1>3 DEF StaleInv
<1> QED
  BY <1>1, <1>2, <1>3, <1>4, NextStepOwes

\* The keys that are there are found: what a pattern does not find it need not delete.
LEMMA FindKeysStale ==
    ASSUME TypeInv, StaleInv, NEW c \in Callers, FindKeys(c)
    PROVE  StaleInv'
<1>1. PICK found : found = Head(call[c].plan).keys
                     \cap ({k \in Keys : entry[k] # Absent} \cup {LockOf(k) : k \in lock})
  OBVIOUS
<1>2. /\ call[c].pc = "invalidate" /\ call[c].plan # <<>>
      /\ UNCHANGED <<kind, source, entry, excused>>
      /\ IF found = {} THEN NextStep(c)
         ELSE call' = [call EXCEPT ![c].pc = "del", ![c].found = found]
  BY <1>1 DEF FindKeys, At
<1> SUFFICES ASSUME NEW k \in Keys, Stale(k)', Reached(k)', k \notin excused'
             PROVE  \E d \in Callers : Owes(call'[d], k)
  BY DEF StaleInv
<1>3. Stale(k) /\ Reached(k) /\ entry[k] # Absent
  BY <1>2 DEF Stale, Reached
<1>4. PICK d \in Callers : Owes(call[d], k)
  BY <1>2, <1>3 DEF StaleInv
<1>5. k \in Head(call[c].plan).keys => k \in found
  BY <1>1, <1>3
<1>6. CASE found = {}
  BY <1>2, <1>4, <1>5, <1>6, NextStepOwes
<1>7. CASE found # {}
  <2>1. CASE d # c
    <3>1. call'[d] = call[d]
      BY <1>2, <1>7, <2>1 DEF TypeInv
    <3> QED
      BY <1>4, <3>1
  <2>2. CASE d = c
    <3>1. /\ call'[c].plan = call[c].plan /\ call'[c].found = found
          /\ call[c].plan \in Seq(Deletion) /\ call[c].found = {}
      BY <1>2, <1>7 DEF TypeInv, CallRecord, WellFormed
    <3>2. PICK i \in 1..Len(call[c].plan) : k \in call[c].plan[i].keys
      BY <1>4, <2>2, <3>1 DEF Owes
    <3>3. CASE i = 1
      <4>1. Head(call[c].plan) = call[c].plan[1]
        BY <1>2, <3>1, HeadTailProperties
      <4> QED
        BY <1>5, <3>1, <3>2, <3>3, <4>1 DEF Owes
    <3>4. CASE i > 1
      BY <3>1, <3>2, <3>4 DEF Owes
    <3> QED
      BY <3>2, <3>3, <3>4, <3>1, LenProperties
  <2> QED
    BY <2>1, <2>2
<1> QED
  BY <1>6, <1>7

LEMMA DeleteFoundStale ==
    ASSUME TypeInv, StaleInv, NEW c \in Callers, DeleteFound(c)
    PROVE  StaleInv'
<1>1. PICK gone : gone = call[c].found
  OBVIOUS
<1>2. /\ call[c].pc = "del" /\ call[c].plan # <<>>
      /\ Delete(gone) /\ NextStep(c) /\ UNCHANGED <<kind, source>>
  BY <1>1 DEF DeleteFound, At, TypeInv, WellFormed
<1> SUFFICES ASSUME NEW k \in Keys, Stale(k)', Reached(k)', k \notin excused'
             PROVE  \E d \in Callers : Owes(call'[d], k)
  BY DEF StaleInv
<1>3. k \notin gone /\ Stale(k) /\ Reached(k) /\ k \notin excused
  BY <1>2 DEF Delete, Stale, Reached
<1>4. PICK d \in Callers : Owes(call[d], k)
  BY <1>3 DEF StaleInv
<1> QED
  BY <1>1, <1>2, <1>3, <1>4, NextStepOwes

\* A failed deletion excuses what it was to delete.
LEMMA DeleteFailsStale ==
    ASSUME TypeInv, StaleInv, NEW c \in Callers, DeleteFails(c)
    PROVE  StaleInv'
<1>1. /\ call[c].pc \in {"invalidate", "del"} /\ call[c].plan # <<>>
      /\ excused' = excused \cup (Head(call[c].plan).keys \cap Keys)
      /\ NextStep(c) /\ UNCHANGED <<kind, source, entry>>
  BY DEF DeleteFails, At
<1>2. call[c].pc = "del" => call[c].found \subseteq Head(call[c].plan).keys
  BY DEF TypeInv, WellFormed
<1> SUFFICES ASSUME NEW k \in Keys, Stale(k)', Reached(k)', k \notin excused'
             PROVE  \E d \in Callers : Owes(call'[d], k)
  BY DEF StaleInv
<1>3. Stale(k) /\ Reached(k) /\ k \notin excused /\ k \notin Head(call[c].plan).keys
  BY <1>1 DEF Stale, Reached
<1>4. PICK d \in Callers : Owes(call[d], k)
  BY <1>3 DEF StaleInv
<1> QED
  BY <1>1, <1>2, <1>3, <1>4, NextStepOwes

\* A crash excuses all that the call had still to delete.
LEMMA CrashStale ==
    ASSUME TypeInv, StaleInv, NEW c \in Callers, Crash(c)
    PROVE  StaleInv'
<1>1. excused' = excused \cup (Pending(c) \cap Keys) /\ Finish(c) /\ UNCHANGED <<kind, source, entry>>
  BY DEF Crash
<1> SUFFICES ASSUME NEW k \in Keys, Stale(k)', Reached(k)', k \notin excused'
             PROVE  \E d \in Callers : Owes(call'[d], k)
  BY DEF StaleInv
<1>2. Stale(k) /\ Reached(k) /\ k \notin excused /\ k \notin Pending(c)
  BY <1>1 DEF Stale, Reached
<1>3. PICK d \in Callers : Owes(call[d], k)
  BY <1>2 DEF StaleInv
<1>4. d # c
  BY <1>2, <1>3, OwesIsPending
<1> QED
  BY <1>1, <1>3, <1>4, FinishOthers

LEMMA ExpireStale == ASSUME TypeInv, StaleInv, NEW j \in Keys, Expire(j) PROVE StaleInv'
<1> SUFFICES ASSUME NEW k \in Keys, Stale(k)', Reached(k)', k \notin excused'
             PROVE  \E d \in Callers : Owes(call'[d], k)
  BY DEF StaleInv
<1>1. k # j /\ Stale(k) /\ Reached(k) /\ k \notin excused /\ call' = call
  BY DEF Expire, Stale, Reached, TypeInv
<1> QED
  BY <1>1 DEF StaleInv

LEMMA StaleInvStep == TypeInv /\ StaleInv /\ [Next]_vars => StaleInv'
<1> SUFFICES ASSUME TypeInv, StaleInv, [Next]_vars PROVE StaleInv'
  OBVIOUS
<1>1. CASE UNCHANGED vars
  BY <1>1 DEF vars, StaleInv, Stale, Reached
<1>2. ASSUME NEW c \in Callers, NEW k \in Views[kind], NEW l \in Locking, Begin(c, k, l)
      PROVE  StaleInv'
  BY <1>2, BeginStale
<1>3. ASSUME NEW c \in Callers, Update(c) \/ Crash(c) PROVE StaleInv'
  BY <1>3, UpdateStale, CrashStale
<1>4. ASSUME NEW c \in Callers, Proceed(c) PROVE StaleInv'
  BY <1>4, GetStale, SetStale, DeleteKeyStale, FindKeysStale, DeleteFoundStale, DeleteFailsStale
     DEF Proceed
<1>5. ASSUME NEW k \in Views[kind], Expire(k) \/ ExpireLock(k) PROVE StaleInv'
  <2>1. k \in Keys
    BY ViewsAreKeys DEF TypeInv
  <2>2. CASE ExpireLock(k)
    BY <2>2 DEF ExpireLock, StaleInv, Stale, Reached
  <2> QED
    BY <2>1, <2>2, <1>5, ExpireStale
<1> QED
  BY <1>1, <1>2, <1>3, <1>4, <1>5 DEF Next

\* An entry older than the data is under a key that no step of the invalidation deletes, is
\* owed a deletion by an invalidation under way, or was filled by a call that had fetched
\* before the data changed, or its deletion failed: patterns that delete key by key what they
\* found a moment ago, while other calls fill, lose nothing else.
THEOREM StaleExplainedHolds == Spec => []StaleExplained
<1>1. Init => TypeInv /\ StaleInv
  <2>1. Init => StaleInv
    BY DEF Init, StaleInv, Stale
  <2> QED
    BY <2>1, TypeInvInit
<1>2. TypeInv /\ StaleInv /\ [Next]_vars => (TypeInv /\ StaleInv)'
  BY TypeInvStep, StaleInvStep
<1>3. StaleInv => StaleExplained
  BY StaleInvExplains
<1> QED
  BY <1>1, <1>2, <1>3, PTL DEF Spec

-----------------------------------------------------------------------------
(* The plans of CacheInvalidator *)

Deletes(plan, k) == \E i \in 1..Len(plan) : k \in plan[i].keys

LEMMA PrefixOf ==
    ASSUME NEW S, NEW p \in Seq(S), NEW k \in Seq(S), Len(p) < Len(k),
           \A i \in 1..Len(p) : p[i] = k[i]
    PROVE  IsStrictPrefix(p, k)
<1>1. Len(p) \in Nat /\ Len(k) \in Nat
  BY LenProperties
<1>2. /\ SubSeq(p, 1, Len(p)) \in Seq(S) /\ Len(SubSeq(p, 1, Len(p))) = Len(p)
      /\ \A i \in 1..Len(p) : SubSeq(p, 1, Len(p))[i] = p[i]
  BY <1>1, SubSeqProperties
<1>3. /\ SubSeq(k, 1, Len(p)) \in Seq(S) /\ Len(SubSeq(k, 1, Len(p))) = Len(p)
      /\ \A i \in 1..Len(p) : SubSeq(k, 1, Len(p))[i] = k[i]
  BY <1>1, SubSeqProperties
<1>4. SubSeq(p, 1, Len(p)) = SubSeq(k, 1, Len(p))
  BY <1>2, <1>3, SeqEqual
<1> QED
  BY <1>1, <1>4 DEF IsStrictPrefix, IsPrefix

LEMMA OnePart ==
    ASSUME NEW S, NEW a \in S
    PROVE  <<a>> \in Seq(S) /\ Len(<<a>>) = 1 /\ <<a>>[1] = a
OBVIOUS

LEMMA TwoParts ==
    ASSUME NEW S, NEW a \in S, NEW b \in S
    PROVE  <<a, b>> \in Seq(S) /\ Len(<<a, b>>) = 2 /\ <<a, b>>[1] = a /\ <<a, b>>[2] = b
OBVIOUS

LEMMA ThreeParts ==
    ASSUME NEW S, NEW a \in S, NEW b \in S, NEW c \in S
    PROVE  /\ <<a, b, c>> \in Seq(S) /\ Len(<<a, b, c>>) = 3
           /\ <<a, b, c>>[1] = a /\ <<a, b, c>>[2] = b /\ <<a, b, c>>[3] = c
OBVIOUS

LEMMA FourParts ==
    ASSUME NEW S, NEW a \in S, NEW b \in S, NEW c \in S, NEW d \in S
    PROVE  /\ <<a, b, c, d>> \in Seq(S) /\ Len(<<a, b, c, d>>) = 4
           /\ <<a, b, c, d>>[1] = a /\ <<a, b, c, d>>[2] = b /\ <<a, b, c, d>>[3] = c
OBVIOUS

LEMMA FiveParts ==
    ASSUME NEW S, NEW a \in S, NEW b \in S, NEW c \in S, NEW d \in S, NEW e \in S
    PROVE  /\ <<a, b, c, d, e>> \in Seq(S) /\ Len(<<a, b, c, d, e>>) = 5
           /\ <<a, b, c, d, e>>[1] = a /\ <<a, b, c, d, e>>[3] = c
OBVIOUS

LEMMA HeadIsFirst == ASSUME NEW S, NEW s \in Seq(S), Len(s) > 0 PROVE Head(s) = s[1]
BY EmptySeq

\* What "a:*" and "a:b:c:*" match.
LEMMA UnderOne ==
    ASSUME NEW S, NEW a \in S, NEW keys, NEW k \in Seq(S), k \in keys, Len(k) > 1, k[1] = a
    PROVE  k \in Under(<<a>>, keys)
<1> DEFINE p == <<a>>
<1>1. p \in Seq(S) /\ Len(p) = 1 /\ p[1] = a
  BY OnePart
<1> HIDE DEF p
<1>2. ASSUME NEW i \in 1..Len(p) PROVE p[i] = k[i]
  <2>1. i = 1
    BY <1>1
  <2> QED
    BY <1>1, <2>1
<1>3. IsStrictPrefix(p, k)
  BY <1>1, <1>2, PrefixOf
<1> QED
  BY <1>3 DEF Under, p

LEMMA UnderThree ==
    ASSUME NEW a, NEW b, NEW c, NEW d, NEW keys, <<a, b, c, d>> \in keys
    PROVE  <<a, b, c, d>> \in Under(<<a, b, c>>, keys)
<1> DEFINE S == {a, b, c, d}
           p == <<a, b, c>>
           k == <<a, b, c, d>>
<1>1. p \in Seq(S) /\ Len(p) = 3 /\ p[1] = a /\ p[2] = b /\ p[3] = c
  BY ThreeParts
<1>2. k \in Seq(S) /\ Len(k) = 4 /\ k[1] = a /\ k[2] = b /\ k[3] = c
  BY FourParts
<1> HIDE DEF S, p, k
<1>3. ASSUME NEW i \in 1..Len(p) PROVE p[i] = k[i]
  <2>1. i = 1 \/ i = 2 \/ i = 3
    BY <1>1
  <2> QED
    BY <1>1, <1>2, <2>1
<1>4. Len(p) < Len(k)
  BY <1>1, <1>2
<1>5. IsStrictPrefix(p, k)
  BY <1>1, <1>2, <1>3, <1>4, PrefixOf
<1> QED
  BY <1>5 DEF Under, p, k

LEMMA UnderTwo ==
    ASSUME NEW a, NEW b, NEW c, NEW keys, <<a, b, c>> \in keys
    PROVE  <<a, b, c>> \in Under(<<a, b>>, keys)
<1> DEFINE S == {a, b, c}
           p == <<a, b>>
           k == <<a, b, c>>
<1>1. p \in Seq(S) /\ Len(p) = 2 /\ p[1] = a /\ p[2] = b
  BY TwoParts
<1>2. k \in Seq(S) /\ Len(k) = 3 /\ k[1] = a /\ k[2] = b
  BY ThreeParts
<1> HIDE DEF S, p, k
<1>3. ASSUME NEW i \in 1..Len(p) PROVE p[i] = k[i]
  <2>1. i = 1 \/ i = 2
    BY <1>1
  <2> QED
    BY <1>1, <1>2, <2>1
<1>4. Len(p) < Len(k)
  BY <1>1, <1>2
<1>5. IsStrictPrefix(p, k)
  BY <1>1, <1>2, <1>3, <1>4, PrefixOf
<1> QED
  BY <1>5 DEF Under, p, k

\* What "complaint*:list:*" and "dashboard*" match.
LEMMA InLists ==
    ASSUME NEW keys, NEW S, NEW k \in Seq(S), k \in keys, k[1] = "complaint",
           NEW i \in 2..(Len(k) - 1), k[i] = "list"
    PROVE  k \in ComplaintListPattern(keys)
<1>1. Head(k) = k[1]
  BY HeadIsFirst, LenProperties
<1> QED
  BY <1>1 DEF ComplaintListPattern

LEMMA InDashboard ==
    ASSUME NEW keys, NEW S, NEW k \in Seq(S), k \in keys, Len(k) > 0, k[1] = "dashboard"
    PROVE  k \in DashboardPattern(keys)
<1>1. Head(k) = k[1]
  BY HeadIsFirst
<1> QED
  BY <1>1 DEF DashboardPattern

\* Keys of two, three and four parts under their first.
LEMMA UnderFirst ==
    ASSUME NEW a, NEW b, NEW c, NEW d, NEW keys
    PROVE  /\ <<a, b>> \in keys => <<a, b>> \in Under(<<a>>, keys)
           /\ <<a, b, c>> \in keys => <<a, b, c>> \in Under(<<a>>, keys)
           /\ <<a, b, c, d>> \in keys => <<a, b, c, d>> \in Under(<<a>>, keys)
<1>1. <<a, b>> \in keys => <<a, b>> \in Under(<<a>>, keys)
  <2> DEFINE S == {a, b, c, d}
             k == <<a, b>>
  <2>1. k \in Seq(S) /\ Len(k) > 1 /\ k[1] = a
    BY TwoParts
  <2> HIDE DEF S, k
  <2>2. k \in keys => k \in Under(<<a>>, keys)
    BY <2>1, UnderOne
  <2> QED
    BY <2>2 DEF k
<1>2. <<a, b, c>> \in keys => <<a, b, c>> \in Under(<<a>>, keys)
  <2> DEFINE S == {a, b, c, d}
             k == <<a, b, c>>
  <2>1. k \in Seq(S) /\ Len(k) > 1 /\ k[1] = a
    BY ThreeParts
  <2> HIDE DEF S, k
  <2>2. k \in keys => k \in Under(<<a>>, keys)
    BY <2>1, UnderOne
  <2> QED
    BY <2>2 DEF k
<1>3. <<a, b, c, d>> \in keys => <<a, b, c, d>> \in Under(<<a>>, keys)
  <2> DEFINE S == {a, b, c, d}
             k == <<a, b, c, d>>
  <2>1. k \in Seq(S) /\ Len(k) > 1 /\ k[1] = a
    BY FourParts
  <2> HIDE DEF S, k
  <2>2. k \in keys => k \in Under(<<a>>, keys)
    BY <2>1, UnderOne
  <2> QED
    BY <2>2 DEF k
<1> QED
  BY <1>1, <1>2, <1>3

LEMMA InDashboards ==
    ASSUME NEW a, NEW b, NEW keys
    PROVE  /\ <<"dashboard", a>> \in keys => <<"dashboard", a>> \in DashboardPattern(keys)
           /\ <<"dashboard", a, b>> \in keys => <<"dashboard", a, b>> \in DashboardPattern(keys)
<1>1. PICK e : e = "dashboard"
  OBVIOUS
<1> DEFINE S == {a, b, e}
           k == <<e, a>>
           l == <<e, a, b>>
<1>2. k \in Seq(S) /\ Len(k) = 2 /\ k[1] = e
  BY TwoParts
<1>3. l \in Seq(S) /\ Len(l) = 3 /\ l[1] = e
  BY ThreeParts
<1> HIDE DEF S, k, l
<1>4. k \in keys => k \in DashboardPattern(keys)
  BY <1>1, <1>2, InDashboard
<1>5. l \in keys => l \in DashboardPattern(keys)
  BY <1>1, <1>3, InDashboard
<1> QED
  BY <1>1, <1>4, <1>5 DEF k, l

LEMMA ListsOfAll ==
    ASSUME NEW status, NEW page, NEW keys
    PROVE  /\ <<"complaint", "list", page>> \in keys
                => <<"complaint", "list", page>> \in ComplaintListPattern(keys)
           /\ <<"complaint", "status", "list", status, page>> \in keys
                => <<"complaint", "status", "list", status, page>> \in ComplaintListPattern(keys)
<1>1. PICK a, b, c : a = "complaint" /\ b = "list" /\ c = "status"
  OBVIOUS
<1> DEFINE S == {a, b, c, status, page}
           k == <<a, b, page>>
           l == <<a, c, b, status, page>>
<1>2. k \in Seq(S) /\ Len(k) = 3 /\ k[1] = a /\ k[2] = b
  BY ThreeParts
<1>3. l \in Seq(S) /\ Len(l) = 5 /\ l[1] = a /\ l[3] = b
  BY FiveParts
<1> HIDE DEF S, k, l
<1>4. k \in keys => k \in ComplaintListPattern(keys)
  BY <1>1, <1>2, InLists
<1>5. l \in keys => l \in ComplaintListPattern(keys)
  BY <1>1, <1>3, InLists
<1> QED
  BY <1>1, <1>4, <1>5 DEF k, l

LEMMA StepDeletes ==
    ASSUME NEW plan, Len(plan) \in Nat, NEW i \in 1..Len(plan), NEW k, k \in plan[i].keys
    PROVE  Deletes(plan, k)
BY DEF Deletes

LEMMA OneKey == ASSUME NEW k PROVE Deletes(<<Key(k)>>, k)
BY DEF Deletes, Key

LeftOut(argument) == argument = ""

\* A plan whose last step depends on an argument.
Dependent(steps, argument, last) == steps \o Given(argument, <<last>>)

Longer(plan, steps, argument, last) ==
    /\ Len(plan) \in {Len(steps), Len(steps) + 1}
    /\ \A i \in 1..Len(steps) : plan[i] = steps[i]
    /\ ~LeftOut(argument) => Len(plan) = Len(steps) + 1 /\ plan[Len(steps) + 1] = last

LEMMA GivenLast ==
    ASSUME NEW S, NEW steps \in Seq(S), NEW last \in S, NEW argument
    PROVE  Longer(Dependent(steps, argument, last), steps, argument, last)
<1> DEFINE t == Given(argument, <<last>>)
           plan == steps \o t
<1>1. <<last>> \in Seq(S) /\ Len(<<last>>) = 1 /\ <<last>>[1] = last
  BY OnePart
<1>2. <<>> \in Seq(S) /\ Len(<<>>) = 0 /\ Len(steps) \in Nat
  BY EmptySeq, LenProperties
<1>3. CASE LeftOut(argument)
  <2>1. t = <<>>
    BY <1>3 DEF Given, LeftOut
  <2>2. steps \o <<>> = steps
    BY ConcatEmptySeq
  <2> QED
    BY <1>2, <1>3, <2>1, <2>2 DEF Dependent, Longer
<1>4. CASE ~LeftOut(argument)
  <2> DEFINE u == <<last>>
  <2>1. t = u /\ u \in Seq(S) /\ Len(u) = 1 /\ u[1] = last
    BY <1>1, <1>4 DEF Given, LeftOut
  <2> HIDE DEF u
  <2>2. /\ Len(steps \o u) = Len(steps) + Len(u)
        /\ \A j \in 1..Len(steps) + Len(u) :
              (steps \o u)[j] = IF j <= Len(steps) THEN steps[j] ELSE u[j - Len(steps)]
    BY <2>1, ConcatProperties
  <2>3. Len(plan) = Len(steps) + 1
    BY <2>1, <2>2
  <2>4. \A j \in 1..Len(steps) : plan[j] = steps[j]
    BY <1>2, <2>1, <2>2
  <2>5. plan[Len(steps) + 1] = last
    <3>1. Len(steps) + 1 \in 1..Len(steps) + Len(u) /\ ~(Len(steps) + 1 <= Len(steps))
      BY <1>2, <2>1
    <3>2. plan[Len(steps) + 1] = u[(Len(steps) + 1) - Len(steps)]
      BY <2>1, <2>2, <3>1
    <3> QED
      BY <1>2, <2>1, <3>2
  <2> QED
    BY <2>3, <2>4, <2>5 DEF Dependent, Longer
<1> QED
  BY <1>3, <1>4

LEMMA GivenDeletes ==
    ASSUME NEW k, NEW other, NEW argument
    PROVE  LET plan == Dependent(<<Key(k)>>, argument, Key(other))
           IN  Deletes(plan, k) /\ (~LeftOut(argument) => Deletes(plan, other))
<1> DEFINE S == {Key(k), Key(other)}
           s == <<Key(k)>>
           plan == Dependent(s, argument, Key(other))
<1>1. s \in Seq(S) /\ Len(s) = 1 /\ s[1] = Key(k)
  BY OnePart
<1>2. Key(other) \in S
  OBVIOUS
<1> HIDE DEF S, s
<1>3. Longer(plan, s, argument, Key(other))
  BY <1>1, <1>2, GivenLast
<1> HIDE DEF plan
<1>4. Len(plan) \in Nat /\ 1 \in 1..Len(plan) /\ plan[1] = Key(k)
  BY <1>1, <1>3 DEF Longer
<1>5. ~LeftOut(argument) => 2 \in 1..Len(plan) /\ plan[2] = Key(other)
  BY <1>1, <1>3 DEF Longer
<1>6. k \in Key(k).keys /\ other \in Key(other).keys
  BY DEF Key
<1>7. Deletes(plan, k)
  BY <1>4, <1>6, StepDeletes
<1>8. ~LeftOut(argument) => Deletes(plan, other)
  BY <1>4, <1>5, <1>6, StepDeletes
<1> QED
  BY <1>7, <1>8 DEF plan, s

LEMMA FirstPattern ==
    ASSUME NEW P, NEW y, NEW z, NEW argument, NEW k \in P
    PROVE  Deletes(Dependent(<<Pattern(P), y>>, argument, z), k)
<1> DEFINE x == Pattern(P)
           S == {x, y, z}
           s == <<x, y>>
           plan == Dependent(s, argument, z)
<1>1. s \in Seq(S) /\ Len(s) = 2 /\ s[1] = x /\ z \in S
  BY TwoParts
<1>2. k \in x.keys
  BY DEF Pattern
<1> HIDE DEF x, S, s
<1>3. Longer(plan, s, argument, z)
  BY <1>1, GivenLast
<1> HIDE DEF plan
<1>4. Len(plan) \in Nat /\ 1 \in 1..Len(plan) /\ plan[1] = x
  BY <1>1, <1>3 DEF Longer
<1>5. Deletes(plan, k)
  BY <1>2, <1>4, StepDeletes
<1> QED
  BY <1>5 DEF plan, s, x

LEMMA LastPattern ==
    ASSUME NEW x, NEW y, NEW P, NEW k \in P
    PROVE  Deletes(<<x, Pattern(P)>>, k) /\ Deletes(<<x, y, Pattern(P)>>, k)
<1>1. k \in Pattern(P).keys
  BY DEF Pattern
<1> HIDE DEF Pattern
<1> QED
  BY <1>1 DEF Deletes

\* Every operation deletes these keys of CacheKeyBuilder, singly or under a pattern, for any
\* ids, texts and pages and whatever else Redis holds.
THEOREM InvalidationsReach ==
    ASSUME NEW keys, NEW id, NEW complaint, NEW user, NEW dept, NEW text, NEW page
    PROVE
      LET lists == complaintLists(user, dept, text, page)
          ofUser == userKey(id, text, page)
          ofComplaint == complaintKey(id)
          ofDashboard == dashboardKey(user, text)
          dashboards == {ofDashboard.summary, ofDashboard.stats, ofDashboard.overview,
                         ofDashboard.metrics}
          ofAnnouncement == announcementKey(id, dept, page)
          ofScheme == schemeKey(id, text, page)
          ofAssignment == assignmentKey(id, complaint, user, page)
          ofEscalation == escalationKey(id, complaint, page)
          ofFeedback == feedbackKey(id, complaint, page)
          ofSystem == systemKey(text)
      IN
      /\ \A k \in {ofUser.byId, ofUser.profile, ofUser.roles, ofUser.permissions} :
            Deletes(invalidateUser(id, keys), k)
      /\ \A k \in {ofComplaint.byId, ofComplaint.detail, ofComplaint.status,
                   ofComplaint.history, ofComplaint.stats} :
            Deletes(invalidateComplaint(id, keys), k)
      /\ \A k \in ({lists.list, lists.listByStatus} \cup dashboards) \cap keys :
            Deletes(invalidateComplaint(id, keys), k)
      /\ lists.listByUser \in keys => Deletes(invalidateUserComplaints(user, keys), lists.listByUser)
      /\ lists.listByDepartment \in keys =>
            Deletes(invalidateDepartmentComplaints(dept, keys), lists.listByDepartment)
      /\ \A period \in {"", text} : lists.analytics \in keys =>
            Deletes(invalidateComplaintAnalytics(period, keys), lists.analytics)
      /\ \A k \in {ofAnnouncement.byId, ofAnnouncement.list, ofAnnouncement.listByDepartment,
                   ofAnnouncement.active} \cap keys :
            Deletes(invalidateAnnouncement(id, keys), k)
      /\ \A k \in {ofScheme.byId, ofScheme.list, ofScheme.listByCategory, ofScheme.search}
                  \cap keys :
            Deletes(invalidateScheme(id, keys), k)
      /\ \A c \in {"", complaint} : Deletes(invalidateAssignment(id, c), ofAssignment.byId)
      /\ complaint # "" => Deletes(invalidateAssignment(id, complaint), ofAssignment.byComplaint)
      /\ \A c \in {"", complaint} :
         \A k \in {ofEscalation.byId, ofEscalation.byComplaint, ofEscalation.list,
                   ofEscalation.pending} \cap keys :
            Deletes(invalidateEscalation(id, c, keys), k)
      /\ \A c \in {"", complaint} : Deletes(invalidateFeedback(id, c), ofFeedback.byId)
      /\ complaint # "" => Deletes(invalidateFeedback(id, complaint), ofFeedback.byComplaint)
      /\ \A k \in dashboards \cap keys : Deletes(invalidateDashboard("", keys), k)
      /\ ofDashboard.summary \in keys => Deletes(invalidateDashboard(user, keys), ofDashboard.summary)
      /\ \A k \in {notificationKey(id, user).byUser, notificationKey(id, user).unread} :
            Deletes(invalidateNotification(user), k)
      /\ \A k \in {ofSystem.config, ofSystem.settings, ofSystem.departments, ofSystem.roles,
                   ofSystem.permissions} \cap keys :
            Deletes(invalidateSystem(keys), k)
      /\ Deletes(invalidateSession(text), sessionKey(text, user).byToken)
      /\ \A k \in keys : Deletes(clearAll(keys), k)
<1> DEFINE lists == complaintLists(user, dept, text, page)
           ofUser == userKey(id, text, page)
           ofComplaint == complaintKey(id)
           ofDashboard == dashboardKey(user, text)
           dashboards == {ofDashboard.summary, ofDashboard.stats, ofDashboard.overview,
                          ofDashboard.metrics}
           ofAnnouncement == announcementKey(id, dept, page)
           ofScheme == schemeKey(id, text, page)
           ofAssignment == assignmentKey(id, complaint, user, page)
           ofEscalation == escalationKey(id, complaint, page)
           ofFeedback == feedbackKey(id, complaint, page)
           ofSystem == systemKey(text)
<1>1. \A k \in {ofUser.byId, ofUser.profile, ofUser.roles, ofUser.permissions} :
            Deletes(invalidateUser(id, keys), k)
  BY DEF userKey, invalidateUser, Deletes, Key
<1>2. \A k \in {ofComplaint.byId, ofComplaint.detail, ofComplaint.status,
                ofComplaint.history, ofComplaint.stats} :
            Deletes(invalidateComplaint(id, keys), k)
  BY DEF complaintKey, invalidateComplaint, Deletes, Key
<1>3. \A k \in dashboards \cap keys : k \in DashboardPattern(keys)
  <2>1. /\ <<"dashboard", "summary", user>> \in keys
              => <<"dashboard", "summary", user>> \in DashboardPattern(keys)
        /\ <<"dashboard", "stats", text>> \in keys
              => <<"dashboard", "stats", text>> \in DashboardPattern(keys)
        /\ <<"dashboard", "overview">> \in keys
              => <<"dashboard", "overview">> \in DashboardPattern(keys)
        /\ <<"dashboard", "metrics", text>> \in keys
              => <<"dashboard", "metrics", text>> \in DashboardPattern(keys)
    BY InDashboards
  <2> QED
    BY <2>1 DEF dashboardKey
<1>4. \A k \in {lists.list, lists.listByStatus} \cap keys : k \in ComplaintListPattern(keys)
  <2>1. /\ <<"complaint", "list", page>> \in keys
              => <<"complaint", "list", page>> \in ComplaintListPattern(keys)
        /\ <<"complaint", "status", "list", text, page>> \in keys
              => <<"complaint", "status", "list", text, page>> \in ComplaintListPattern(keys)
    BY ListsOfAll
  <2> QED
    BY <2>1 DEF complaintLists
<1>5. \A k \in ({lists.list, lists.listByStatus} \cup dashboards) \cap keys :
            Deletes(invalidateComplaint(id, keys), k)
  <2>1. \A k \in ComplaintListPattern(keys) \cup DashboardPattern(keys) :
            Deletes(invalidateComplaint(id, keys), k)
    BY DEF invalidateComplaint, Deletes, Pattern
  <2> QED
    BY <1>3, <1>4, <2>1
<1>6. lists.listByUser \in keys => Deletes(invalidateUserComplaints(user, keys), lists.listByUser)
  <2>1. \A k \in {<<"complaint", "user", user, page>>} \cap keys :
            k \in Under(<<"complaint", "user", user>>, keys)
    BY UnderThree
  <2> QED
    BY <2>1 DEF complaintLists, invalidateUserComplaints, Deletes, Pattern
<1>7. lists.listByDepartment \in keys =>
            Deletes(invalidateDepartmentComplaints(dept, keys), lists.listByDepartment)
  <2>1. \A k \in {<<"complaint", "dept", dept, page>>} \cap keys :
            k \in Under(<<"complaint", "dept", dept>>, keys)
    BY UnderThree
  <2> QED
    BY <2>1 DEF complaintLists, invalidateDepartmentComplaints, Deletes, Pattern
<1>8. \A period \in {"", text} : lists.analytics \in keys =>
            Deletes(invalidateComplaintAnalytics(period, keys), lists.analytics)
  <2>1. \A k \in {<<"complaint", "analytics", text>>} \cap keys :
            k \in Under(<<"complaint", "analytics">>, keys)
    BY UnderTwo
  <2>2. lists.analytics = <<"complaint", "analytics", text>>
    BY DEF complaintLists
  <2>3. lists.analytics \in keys => Deletes(invalidateComplaintAnalytics("", keys), lists.analytics)
    BY <2>1, <2>2 DEF invalidateComplaintAnalytics, Deletes, Pattern
  <2>4. text # "" => Deletes(invalidateComplaintAnalytics(text, keys), lists.analytics)
    BY <2>2, OneKey DEF invalidateComplaintAnalytics, complaintLists
  <2> QED
    BY <2>3, <2>4
<1>9. \A k \in {ofAnnouncement.byId, ofAnnouncement.list, ofAnnouncement.listByDepartment,
                ofAnnouncement.active} \cap keys : Deletes(invalidateAnnouncement(id, keys), k)
  <2>1. \A k \in {ofAnnouncement.byId, ofAnnouncement.list, ofAnnouncement.listByDepartment,
                  ofAnnouncement.active} \cap keys : k \in Under(<<"announcement">>, keys)
    <3>1. /\ <<"announcement", id>> \in keys
                => <<"announcement", id>> \in Under(<<"announcement">>, keys)
          /\ <<"announcement", "list", page>> \in keys
                => <<"announcement", "list", page>> \in Under(<<"announcement">>, keys)
          /\ <<"announcement", "dept", dept>> \in keys
                => <<"announcement", "dept", dept>> \in Under(<<"announcement">>, keys)
          /\ <<"announcement", "active">> \in keys
                => <<"announcement", "active">> \in Under(<<"announcement">>, keys)
      BY UnderFirst
    <3> QED
      BY <3>1 DEF announcementKey
  <2> QED
    BY <2>1, LastPattern DEF invalidateAnnouncement
<1>10. \A k \in {ofScheme.byId, ofScheme.list, ofScheme.listByCategory, ofScheme.search} \cap keys :
            Deletes(invalidateScheme(id, keys), k)
  <2>1. \A k \in {ofScheme.byId, ofScheme.list, ofScheme.listByCategory, ofScheme.search}
                    \cap keys : k \in Under(<<"scheme">>, keys)
    <3>1. /\ <<"scheme", id>> \in keys
                => <<"scheme", id>> \in Under(<<"scheme">>, keys)
          /\ <<"scheme", "list", page>> \in keys
                => <<"scheme", "list", page>> \in Under(<<"scheme">>, keys)
          /\ <<"scheme", "category", text, page>> \in keys
                => <<"scheme", "category", text, page>> \in Under(<<"scheme">>, keys)
          /\ <<"scheme", "search", text>> \in keys
                => <<"scheme", "search", text>> \in Under(<<"scheme">>, keys)
      BY UnderFirst
    <3> QED
      BY <3>1 DEF schemeKey
  <2> QED
    BY <2>1, LastPattern DEF invalidateScheme
<1>11. \A c \in {"", complaint} : Deletes(invalidateAssignment(id, c), ofAssignment.byId)
  BY GivenDeletes DEF assignmentKey, invalidateAssignment, Dependent
<1>12. complaint # "" => Deletes(invalidateAssignment(id, complaint), ofAssignment.byComplaint)
  <2>1. invalidateAssignment(id, complaint)
          = Dependent(<<Key(ofAssignment.byId)>>, complaint, Key(ofAssignment.byComplaint))
    BY DEF assignmentKey, invalidateAssignment, Dependent
  <2> QED
    BY <2>1, GivenDeletes DEF LeftOut
<1>13. \A c \in {"", complaint} :
       \A k \in {ofEscalation.byId, ofEscalation.byComplaint, ofEscalation.list,
                 ofEscalation.pending} \cap keys :
            Deletes(invalidateEscalation(id, c, keys), k)
  <2>1. \A k \in {ofEscalation.byId, ofEscalation.byComplaint, ofEscalation.list,
                  ofEscalation.pending} \cap keys : k \in Under(<<"escalation">>, keys)
    <3>1. /\ <<"escalation", id>> \in keys
                => <<"escalation", id>> \in Under(<<"escalation">>, keys)
          /\ <<"escalation", "complaint", complaint>> \in keys
                => <<"escalation", "complaint", complaint>> \in Under(<<"escalation">>, keys)
          /\ <<"escalation", "list", page>> \in keys
                => <<"escalation", "list", page>> \in Under(<<"escalation">>, keys)
          /\ <<"escalation", "pending">> \in keys
                => <<"escalation", "pending">> \in Under(<<"escalation">>, keys)
      BY UnderFirst
    <3> QED
      BY <3>1 DEF escalationKey
  <2>2. \A c \in {"", complaint} :
        \A k \in Under(<<"escalation">>, keys) : Deletes(invalidateEscalation(id, c, keys), k)
    <3> SUFFICES ASSUME NEW c \in {"", complaint}, NEW k \in Under(<<"escalation">>, keys)
                 PROVE  Deletes(invalidateEscalation(id, c, keys), k)
      OBVIOUS
    <3>1. invalidateEscalation(id, c, keys)
            = Dependent(<<Pattern(Under(<<"escalation">>, keys)), Key(escalationKey(id, c, "").byId)>>,
                        c, Key(escalationKey(id, c, "").byComplaint))
      BY DEF invalidateEscalation, Dependent
    <3> QED
      BY <3>1, FirstPattern
  <2> QED
    BY <2>1, <2>2
<1>14. \A c \in {"", complaint} : Deletes(invalidateFeedback(id, c), ofFeedback.byId)
  BY GivenDeletes DEF feedbackKey, invalidateFeedback, Dependent
<1>15. complaint # "" => Deletes(invalidateFeedback(id, complaint), ofFeedback.byComplaint)
  <2>1. invalidateFeedback(id, complaint)
          = Dependent(<<Key(ofFeedback.byId)>>, complaint, Key(ofFeedback.byComplaint))
    BY DEF feedbackKey, invalidateFeedback, Dependent
  <2> QED
    BY <2>1, GivenDeletes DEF LeftOut
<1>16. \A k \in dashboards \cap keys : Deletes(invalidateDashboard("", keys), k)
  BY <1>3 DEF invalidateDashboard, Deletes, Pattern
<1>17. ofDashboard.summary \in keys => Deletes(invalidateDashboard(user, keys), ofDashboard.summary)
  <2>1. CASE user = ""
    BY <1>16, <2>1
  <2>2. CASE user # ""
    BY <2>2, OneKey DEF invalidateDashboard, dashboardKey
  <2> QED
    BY <2>1, <2>2
<1>18. \A k \in {notificationKey(id, user).byUser, notificationKey(id, user).unread} :
            Deletes(invalidateNotification(user), k)
  BY DEF notificationKey, invalidateNotification, Deletes, Key
<1>19. \A k \in {ofSystem.config, ofSystem.settings, ofSystem.departments, ofSystem.roles,
                 ofSystem.permissions} \cap keys : Deletes(invalidateSystem(keys), k)
  <2>1. \A k \in {ofSystem.config, ofSystem.settings, ofSystem.departments, ofSystem.roles,
                  ofSystem.permissions} \cap keys : k \in Under(<<"system">>, keys)
    <3>1. /\ <<"system", "config", text>> \in keys
                => <<"system", "config", text>> \in Under(<<"system">>, keys)
          /\ <<"system", "settings">> \in keys
                => <<"system", "settings">> \in Under(<<"system">>, keys)
          /\ <<"system", "departments">> \in keys
                => <<"system", "departments">> \in Under(<<"system">>, keys)
          /\ <<"system", "roles">> \in keys
                => <<"system", "roles">> \in Under(<<"system">>, keys)
          /\ <<"system", "permissions">> \in keys
                => <<"system", "permissions">> \in Under(<<"system">>, keys)
      BY UnderFirst
    <3> QED
      BY <3>1 DEF systemKey
  <2> QED
    BY <2>1 DEF invalidateSystem, Deletes, Pattern
<1>20. Deletes(invalidateSession(text), sessionKey(text, user).byToken)
  BY DEF sessionKey, invalidateSession, Deletes, Key
<1>21. \A k \in keys : Deletes(clearAll(keys), k)
  BY DEF clearAll, Deletes
<1> QED
  BY <1>1, <1>2, <1>5, <1>6, <1>7, <1>8, <1>9, <1>10, <1>11, <1>12, <1>13, <1>14, <1>15, <1>16,
     <1>17, <1>18, <1>19, <1>20, <1>21

-----------------------------------------------------------------------------
(* The keys that an invalidation leaves *)

LEMMA SameParts ==
    /\ \A a, b, c, d, e : <<a, b>> # <<c, d, e>>
    /\ \A a, b, c, d, e, f : <<a, b>> # <<c, d, e, f>>
    /\ \A a, b, c, d, e, f, g : <<a, b, c>> # <<d, e, f, g>>
    /\ \A a, b, c, d : <<a, b>> = <<c, d>> => a = c /\ b = d
    /\ \A a, b, c, d, e, f : <<a, b, c>> = <<d, e, f>> => a = d /\ b = e /\ c = f
OBVIOUS

LEMMA PrefixAgrees ==
    ASSUME NEW S, NEW p \in Seq(S), NEW k \in Seq(S), IsStrictPrefix(p, k), NEW i \in 1..Len(p)
    PROVE  p[i] = k[i]
<1>1. Len(p) \in Nat /\ Len(k) \in Nat /\ Len(p) <= Len(k)
  BY LenProperties DEF IsStrictPrefix, IsPrefix
<1>2. SubSeq(p, 1, Len(p))[i] = p[i] /\ SubSeq(k, 1, Len(p))[i] = k[i]
  BY <1>1, SubSeqProperties
<1> QED
  BY <1>2 DEF IsStrictPrefix, IsPrefix

\* What is under "a:b:" has b for its second part.
LEMMA UnderAgrees ==
    ASSUME NEW a, NEW b, NEW x, NEW y, NEW z, NEW keys, <<x, y, z>> \in Under(<<a, b>>, keys)
    PROVE  y = b
<1> DEFINE S == {a, b, x, y, z}
           p == <<a, b>>
           k == <<x, y, z>>
<1>1. p \in Seq(S) /\ Len(p) = 2 /\ p[2] = b
  BY TwoParts
<1>2. k \in Seq(S) /\ Len(k) = 3 /\ k[2] = y
  BY ThreeParts
<1>3. IsStrictPrefix(p, k)
  BY DEF Under
<1> HIDE DEF S, p, k
<1>4. p[2] = k[2]
  BY <1>1, <1>2, <1>3, PrefixAgrees
<1> QED
  BY <1>1, <1>2, <1>4

\* What matches "complaint*:list:*" has a part "list" between its first and its last.
LEMMA ListInside ==
    ASSUME NEW a, NEW b, NEW c, NEW d, NEW keys
    PROVE  /\ <<a, b, c>> \in ComplaintListPattern(keys) => b = "list"
           /\ <<a, b, c, d>> \in ComplaintListPattern(keys) => b = "list" \/ c = "list"
<1> DEFINE S == {a, b, c, d}
           k == <<a, b, c>>
           l == <<a, b, c, d>>
<1>1. k \in Seq(S) /\ Len(k) = 3 /\ k[2] = b
  BY ThreeParts
<1>2. l \in Seq(S) /\ Len(l) = 4 /\ l[2] = b /\ l[3] = c
  BY FourParts
<1> HIDE DEF S, k, l
<1>3. ASSUME k \in ComplaintListPattern(keys) PROVE b = "list"
  <2>1. PICK i \in 2..(Len(k) - 1) : k[i] = "list"
    BY <1>3 DEF ComplaintListPattern
  <2>2. i = 2
    BY <1>1
  <2> QED
    BY <1>1, <2>1, <2>2
<1>4. ASSUME l \in ComplaintListPattern(keys) PROVE b = "list" \/ c = "list"
  <2>1. PICK i \in 2..(Len(l) - 1) : l[i] = "list"
    BY <1>4 DEF ComplaintListPattern
  <2>2. i = 2 \/ i = 3
    BY <1>2
  <2> QED
    BY <1>2, <2>1, <2>2
<1> QED
  BY <1>3, <1>4 DEF k, l

LEMMA InDashboardsOnly ==
    ASSUME NEW a, NEW b, NEW c, NEW d, NEW keys
    PROVE  /\ <<a, b, c>> \in DashboardPattern(keys) => a = "dashboard"
           /\ <<a, b, c, d>> \in DashboardPattern(keys) => a = "dashboard"
<1> DEFINE S == {a, b, c, d}
           k == <<a, b, c>>
           l == <<a, b, c, d>>
<1>1. k \in Seq(S) /\ Len(k) > 0 /\ k[1] = a
  BY ThreeParts
<1>2. l \in Seq(S) /\ Len(l) > 0 /\ l[1] = a
  BY FourParts
<1> HIDE DEF S, k, l
<1>3. Head(k) = a /\ Head(l) = a
  BY <1>1, <1>2, HeadIsFirst
<1>4. /\ k \in DashboardPattern(keys) => Head(k) = "dashboard"
      /\ l \in DashboardPattern(keys) => Head(l) = "dashboard"
  BY DEF DashboardPattern
<1> QED
  BY <1>3, <1>4 DEF k, l

LEMMA FiveKeysTwoPatterns ==
    ASSUME NEW a, NEW b, NEW c, NEW d, NEW e, NEW P, NEW Q, NEW k,
           Deletes(<<Key(a), Key(b), Key(c), Key(d), Key(e), Pattern(P), Pattern(Q)>>, k)
    PROVE  k \in {a, b, c, d, e} \cup P \cup Q
BY DEF Deletes, Key, Pattern

LEMMA FourKeysPattern ==
    ASSUME NEW a, NEW b, NEW c, NEW d, NEW P, NEW k,
           Deletes(<<Key(a), Key(b), Key(c), Key(d), Pattern(P)>>, k)
    PROVE  k \in {a, b, c, d} \cup P
BY DEF Deletes, Key, Pattern

LEMMA OneOrTwoKeys ==
    ASSUME NEW a, NEW b, NEW k
    PROVE  /\ Deletes(<<Key(a)>>, k) => k = a
           /\ Deletes(<<Key(a), Key(b)>>, k) => k = a \/ k = b
BY DEF Deletes, Key

LEMMA OnlyGiven ==
    ASSUME NEW a, NEW b, NEW argument, NEW k, Deletes(Dependent(<<Key(a)>>, argument, Key(b)), k)
    PROVE  k = a \/ (~LeftOut(argument) /\ k = b)
<1> DEFINE S == {Key(a), Key(b)}
           s == <<Key(a)>>
           plan == Dependent(s, argument, Key(b))
<1>1. s \in Seq(S) /\ Len(s) = 1 /\ s[1] = Key(a) /\ Key(b) \in S
  BY OnePart
<1>2. PICK i \in 1..Len(plan) : k \in plan[i].keys
  BY DEF Deletes
<1>3. CASE LeftOut(argument)
  <2>1. plan = s
    BY <1>1, <1>3, ConcatEmptySeq DEF Dependent, Given, LeftOut
  <2>2. Deletes(s, k)
    BY <2>1
  <2> QED
    BY <2>2, OneOrTwoKeys
<1>4. CASE ~LeftOut(argument)
  <2>1. Longer(plan, s, argument, Key(b))
    BY <1>1, GivenLast
  <2> HIDE DEF S, s, plan
  <2>2. Len(plan) = 2 /\ plan[1] = Key(a) /\ plan[2] = Key(b)
    BY <1>1, <1>4, <2>1 DEF Longer
  <2>3. i = 1 \/ i = 2
    BY <2>2
  <2>4. k \in Key(a).keys \/ k \in Key(b).keys
    BY <1>2, <2>2, <2>3
  <2> QED
    BY <1>4, <2>4 DEF Key
<1> QED
  BY <1>3, <1>4

\* The keys of CacheKeyBuilder that the operations leave, for whatever else Redis holds and
\* any ids, texts and pages that are not words of the keys themselves: the lists and searches
\* of users, searches and figures of complaints, and the lists of a citizen and of a
\* department, which have operations of their own; the lists of assignments and of feedback,
\* an officer's assignments, and a complaint's when the complaint is not named; a single
\* notification; a user's sessions and passwords of one use; of the dashboards all but the
\* named user's summary, and the figures of other periods.  Data under these keys stays as old
\* as its time to live lets it.
THEOREM InvalidationsLeave ==
    ASSUME NEW keys, NEW id, NEW complaint, NEW user, NEW other, NEW dept, NEW text, NEW period,
           NEW page, id \notin {"email", "phone", "list", "search"},
           "list" \notin {user, dept, text}, user # other, period # text
    PROVE
      LET lists == complaintLists(user, dept, text, page)
          ofUser == userKey(id, text, page)
          ofDashboard == dashboardKey(other, text)
          ofAssignment == assignmentKey(id, complaint, other, page)
          ofFeedback == feedbackKey(id, complaint, page)
      IN
      /\ \A k \in {ofUser.byEmail, ofUser.byPhone, ofUser.list, ofUser.search} :
            ~Deletes(invalidateUser(id, keys), k)
      /\ \A k \in {lists.listByUser, lists.listByDepartment, lists.search, lists.analytics} :
            ~Deletes(invalidateComplaint(id, keys), k)
      /\ period # "" => ~Deletes(invalidateComplaintAnalytics(period, keys), lists.analytics)
      /\ \A c : \A k \in {ofAssignment.byOfficer, ofAssignment.list} :
            ~Deletes(invalidateAssignment(id, c), k)
      /\ ~Deletes(invalidateAssignment(id, ""), ofAssignment.byComplaint)
      /\ \A c : ~Deletes(invalidateFeedback(id, c), ofFeedback.list)
      /\ ~Deletes(invalidateFeedback(id, ""), ofFeedback.byComplaint)
      /\ user # "" => \A k \in {ofDashboard.summary, ofDashboard.stats, ofDashboard.overview,
                                ofDashboard.metrics} :
            ~Deletes(invalidateDashboard(user, keys), k)
      /\ ~Deletes(invalidateNotification(user), notificationKey(id, user).byId)
      /\ \A k \in {sessionKey(text, user).byUserId, sessionKey(text, user).otp} :
            ~Deletes(invalidateSession(text), k)
<1> DEFINE lists == complaintLists(user, dept, text, page)
           ofUser == userKey(id, text, page)
           ofDashboard == dashboardKey(other, text)
           ofAssignment == assignmentKey(id, complaint, other, page)
           ofFeedback == feedbackKey(id, complaint, page)
<1>1. \A k \in {ofUser.byEmail, ofUser.byPhone, ofUser.list, ofUser.search} :
            ~Deletes(invalidateUser(id, keys), k)
  <2>1. ASSUME NEW part \in {"email", "phone", "list", "search"}, NEW z,
               Deletes(invalidateUser(id, keys), <<"user", part, z>>)
        PROVE  FALSE
    <3>1. Deletes(<<Key(<<"user", id>>), Key(<<"user", "profile", id>>),
                    Key(<<"user", "roles", id>>), Key(<<"user", "permissions", id>>),
                    Pattern(Under(<<"user", id>>, keys))>>, <<"user", part, z>>)
      BY <2>1 DEF invalidateUser, userKey
    <3>2. <<"user", part, z>> \in {<<"user", id>>, <<"user", "profile", id>>,
                    <<"user", "roles", id>>, <<"user", "permissions", id>>}
                    \cup Under(<<"user", id>>, keys)
      BY <3>1, FourKeysPattern
    <3>3. part \in {"profile", "roles", "permissions", id}
      BY <3>2, SameParts, UnderAgrees
    <3> QED
      BY <3>3
  <2> QED
    BY <2>1 DEF userKey
<1>2. \A k \in {lists.listByUser, lists.listByDepartment, lists.search, lists.analytics} :
            ~Deletes(invalidateComplaint(id, keys), k)
  <2> DEFINE single == {<<"complaint", id>>, <<"complaint", "detail", id>>,
                        <<"complaint", "status", id>>, <<"complaint", "history", id>>,
                        <<"complaint", "stats", id>>}
  <2>1. \A k : Deletes(invalidateComplaint(id, keys), k) =>
                  k \in single \cup ComplaintListPattern(keys) \cup DashboardPattern(keys)
    BY FiveKeysTwoPatterns DEF invalidateComplaint, complaintKey
  <2>2. ASSUME NEW b \in {"user", "dept", "search"}, NEW c \in {user, dept, text}
        PROVE  ~Deletes(invalidateComplaint(id, keys), <<"complaint", b, c, page>>)
    <3>1. <<"complaint", b, c, page>> \notin single
      BY SameParts
    <3>2. <<"complaint", b, c, page>> \notin ComplaintListPattern(keys) \cup DashboardPattern(keys)
      BY ListInside, InDashboardsOnly
    <3> QED
      BY <2>1, <3>1, <3>2
  <2>3. ~Deletes(invalidateComplaint(id, keys), <<"complaint", "analytics", text>>)
    <3>1. <<"complaint", "analytics", text>> \notin single
      BY SameParts
    <3>2. <<"complaint", "analytics", text>>
             \notin ComplaintListPattern(keys) \cup DashboardPattern(keys)
      BY ListInside, InDashboardsOnly
    <3> QED
      BY <2>1, <3>1, <3>2
  <2> QED
    BY <2>2, <2>3 DEF complaintLists
<1>3. period # "" => ~Deletes(invalidateComplaintAnalytics(period, keys), lists.analytics)
  <2>1. ~Deletes(<<Key(<<"complaint", "analytics", period>>)>>, <<"complaint", "analytics", text>>)
    <3>1. <<"complaint", "analytics", period>> # <<"complaint", "analytics", text>>
      BY SameParts
    <3> QED
      BY <3>1, OneOrTwoKeys
  <2> QED
    BY <2>1 DEF invalidateComplaintAnalytics, complaintLists
<1>4. \A c : \A k \in {ofAssignment.byOfficer, ofAssignment.list} :
            ~Deletes(invalidateAssignment(id, c), k)
  <2>1. ASSUME NEW c, NEW b \in {"officer", "list"}, NEW z,
               Deletes(invalidateAssignment(id, c), <<"assignment", b, z>>)
        PROVE  FALSE
    <3>1. Deletes(Dependent(<<Key(<<"assignment", id>>)>>, c, Key(<<"assignment", "complaint", c>>)),
                  <<"assignment", b, z>>)
      BY <2>1 DEF invalidateAssignment, assignmentKey, Dependent
    <3> QED
      BY <3>1, OnlyGiven, SameParts
  <2> QED
    BY <2>1 DEF assignmentKey
<1>5. ~Deletes(invalidateAssignment(id, ""), ofAssignment.byComplaint)
  <2>1. invalidateAssignment(id, "") = Dependent(<<Key(<<"assignment", id>>)>>, "",
                                                 Key(<<"assignment", "complaint", "">>))
    BY DEF invalidateAssignment, assignmentKey, Dependent
  <2> QED
    <3>1. LeftOut("") /\ <<"assignment", id>> # <<"assignment", "complaint", complaint>>
      BY SameParts DEF LeftOut
    <3>2. ASSUME NEW none, LeftOut(none), NEW z, NEW k,
                 Deletes(Dependent(<<Key(<<"assignment", id>>)>>, none, Key(z)), k)
          PROVE  k = <<"assignment", id>>
      <4>1. PICK a : a = <<"assignment", id>>
        OBVIOUS
      <4>2. k = a \/ (~LeftOut(none) /\ k = z)
        BY <3>2, <4>1, OnlyGiven
      <4> QED
        BY <3>2, <4>1, <4>2
    <3>3. ~Deletes(invalidateAssignment(id, ""), <<"assignment", "complaint", complaint>>)
      BY <2>1, <3>1, <3>2
    <3> QED
      BY <3>3 DEF assignmentKey
<1>6. \A c : ~Deletes(invalidateFeedback(id, c), ofFeedback.list)
  <2>1. ASSUME NEW c, Deletes(invalidateFeedback(id, c), <<"feedback", "list", page>>)
        PROVE  FALSE
    <3>1. Deletes(Dependent(<<Key(<<"feedback", id>>)>>, c, Key(<<"feedback", "complaint", c>>)),
                  <<"feedback", "list", page>>)
      BY <2>1 DEF invalidateFeedback, feedbackKey, Dependent
    <3> QED
      BY <3>1, OnlyGiven, SameParts
  <2> QED
    BY <2>1 DEF feedbackKey
<1>7. ~Deletes(invalidateFeedback(id, ""), ofFeedback.byComplaint)
  <2>1. invalidateFeedback(id, "") = Dependent(<<Key(<<"feedback", id>>)>>, "",
                                               Key(<<"feedback", "complaint", "">>))
    BY DEF invalidateFeedback, feedbackKey, Dependent
  <2> QED
    <3>1. LeftOut("") /\ <<"feedback", id>> # <<"feedback", "complaint", complaint>>
      BY SameParts DEF LeftOut
    <3>2. ASSUME NEW none, LeftOut(none), NEW z, NEW k,
                 Deletes(Dependent(<<Key(<<"feedback", id>>)>>, none, Key(z)), k)
          PROVE  k = <<"feedback", id>>
      <4>1. PICK a : a = <<"feedback", id>>
        OBVIOUS
      <4>2. k = a \/ (~LeftOut(none) /\ k = z)
        BY <3>2, <4>1, OnlyGiven
      <4> QED
        BY <3>2, <4>1, <4>2
    <3>3. ~Deletes(invalidateFeedback(id, ""), <<"feedback", "complaint", complaint>>)
      BY <2>1, <3>1, <3>2
    <3> QED
      BY <3>3 DEF feedbackKey
<1>8. user # "" => \A k \in {ofDashboard.summary, ofDashboard.stats, ofDashboard.overview,
                             ofDashboard.metrics} :
            ~Deletes(invalidateDashboard(user, keys), k)
  <2>1. \A k : Deletes(<<Key(<<"dashboard", "summary", user>>)>>, k)
                  => k = <<"dashboard", "summary", user>>
    BY OneOrTwoKeys
  <2>2. <<"dashboard", "summary", user>> \notin {ofDashboard.summary, ofDashboard.stats,
                                                 ofDashboard.overview, ofDashboard.metrics}
    BY SameParts DEF dashboardKey
  <2> QED
    BY <2>1, <2>2 DEF invalidateDashboard, dashboardKey
<1>9. ~Deletes(invalidateNotification(user), notificationKey(id, user).byId)
  <2>1. ~Deletes(<<Key(<<"notification", "user", user>>), Key(<<"notification", "unread", user>>)>>,
                 <<"notification", id>>)
    <3>1. /\ <<"notification", id>> # <<"notification", "user", user>>
          /\ <<"notification", id>> # <<"notification", "unread", user>>
      BY SameParts
    <3> QED
      BY <3>1, OneOrTwoKeys
  <2> QED
    BY <2>1 DEF invalidateNotification, notificationKey
<1>10. \A k \in {sessionKey(text, user).byUserId, sessionKey(text, user).otp} :
            ~Deletes(invalidateSession(text), k)
  <2>1. /\ ~Deletes(<<Key(<<"session", "token", text>>)>>, <<"session", "user", user>>)
        /\ ~Deletes(<<Key(<<"session", "token", text>>)>>, <<"otp", text>>)
    <3>1. /\ <<"session", "token", text>> # <<"session", "user", user>>
          /\ <<"session", "token", text>> # <<"otp", text>>
      BY SameParts
    <3> QED
      BY <3>1, OneOrTwoKeys
  <2> QED
    BY <2>1 DEF invalidateSession, sessionKey
<1> QED
  BY <1>1, <1>2, <1>3, <1>4, <1>5, <1>6, <1>7, <1>8, <1>9, <1>10

=============================================================================
