----------------------------- MODULE TieredCache -----------------------------
(***************************************************************************)
(* One key of the two-tier cache: a front in memory over files on disk, a  *)
(* value and a sidecar with its deadline, and the pool of per-key locks    *)
(* that lets one coroutine compute what several ask for.  Coroutines are   *)
(* interrupted where the code awaits, and every file operation is a step   *)
(* of a thread of its own.  Values are numbered in the order of their      *)
(* computation.                                                            *)
(***************************************************************************)
EXTENDS Naturals, FiniteSets

CONSTANTS
  Lookups,     \* coroutines in get_or_set
  Deleters,    \* coroutines in delete
  LoopOf,      \* the event loop each lookup runs on
  FrontTTL,    \* TIERED_FRONT_TTL_SECONDS
  TTL,         \* lifetime of a computed value
  MaxClock     \* bound: how far the clock goes

ASSUME CacheAssumption ==
  /\ Lookups \cap Deleters = {}
  /\ {FrontTTL, TTL} \subseteq Nat \ {0} /\ MaxClock \in Nat
  /\ DOMAIN LoopOf = Lookups /\ "none" \notin {LoopOf[l] : l \in Lookups}
  /\ IsFiniteSet(Lookups)

VARIABLES
  clock,
  front,   \* MemoryCache: the value and its deadline, or Absent
  file,    \* DiskCache: the value file and the sidecar, 0 where there is none
  locks,   \* _KeyedLockPool: the loop it belongs to, the entry of the key
  held,    \* the lock objects that are held
  lookup,  \* each lookup: where it is, its lock, what it has read
  deleter, \* each deleter: where it is
  paid     \* how many values the factory has produced

cacheVars == <<clock, front, file, locks, held, lookup, deleter, paid>>

NotCached == [value |-> 0, expires |-> 0]
NoEntry == [lock |-> 0, waiters |-> 0]
Locks == 1..Cardinality(Lookups)
UsedLocks == held \cup {locks.entry.lock} \cup {lookup[l].lock : l \in Lookups}
LookupStart == [at |-> "first", lock |-> 0, value |-> 0, until |-> 0]

CacheInit ==
  /\ clock = 0
  /\ front = NotCached
  /\ file = [value |-> 0, meta |-> 0]
  /\ locks = [loop |-> "none", entry |-> NoEntry]
  /\ held = {}
  /\ lookup = [l \in Lookups |-> LookupStart]
  /\ deleter = [d \in Deleters |-> "idle"]
  /\ paid = 0

LookupGoes(l, at) == lookup' = [lookup EXCEPT ![l].at = at]

\* The copy in front lives FRONT_TTL or what is left of the value, the shorter; a
\* value whose deadline cannot be told any more counts as unbounded.
FrontTTLFor(expires) ==
  LET left == IF expires > clock THEN expires - clock ELSE FrontTTL
  IN  IF left < FrontTTL THEN left ELSE FrontTTL

-----------------------------------------------------------------------------
(* TieredCache.get, as the first and the second look of get_or_set. *)

Second(l) == l \in Lookups /\ lookup[l].lock # 0
Missed(l) == IF Second(l) THEN "compute" ELSE "checkout"
Found(l) == IF Second(l) THEN "release" ELSE "done"

\* Mutant of LookFront: the look under the lock always misses.
LookOnce(l) ==
  /\ lookup[l].at \in {"first", "second"}
  /\ IF lookup[l].at = "first" /\ front.value # 0 /\ front.expires > clock
     THEN LookupGoes(l, "done")
     ELSE LookupGoes(l, IF Second(l) THEN "compute" ELSE "sidecar")
  /\ UNCHANGED <<clock, front, file, locks, held, deleter, paid>>

LookFront(l) ==
  /\ lookup[l].at \in {"first", "second"}
  /\ IF front.value # 0 /\ front.expires > clock
     THEN LookupGoes(l, Found(l)) /\ UNCHANGED front
     ELSE LookupGoes(l, "sidecar") /\ front' = NotCached
  /\ UNCHANGED <<clock, file, locks, held, deleter, paid>>

\* _read_sync: the sidecar first; an expired entry is removed on the way.
ReadSidecar(l) ==
  /\ lookup[l].at = "sidecar"
  /\ LookupGoes(l, IF file.meta = 0 THEN Missed(l)
                   ELSE IF file.meta <= clock THEN "unlink" ELSE "value")
  /\ UNCHANGED <<clock, front, file, locks, held, deleter, paid>>

ReadValue(l) ==
  /\ lookup[l].at = "value"
  /\ lookup' = [lookup EXCEPT ![l].at = IF file.value = 0 THEN "unlink" ELSE "deadline",
                              ![l].value = file.value]
  /\ UNCHANGED <<clock, front, file, locks, held, deleter, paid>>

\* _remove, in two steps; the entry it removes may by now be another one.
UnlinkValue(l) ==
  /\ lookup[l].at = "unlink"
  /\ file' = [file EXCEPT !.value = 0]
  /\ LookupGoes(l, "unlinked")
  /\ UNCHANGED <<clock, front, locks, held, deleter, paid>>

UnlinkSidecar(l) ==
  /\ lookup[l].at = "unlinked"
  /\ file' = [file EXCEPT !.meta = 0]
  /\ LookupGoes(l, Missed(l))
  /\ UNCHANGED <<clock, front, locks, held, deleter, paid>>

\* _backing_ttl and the promotion into the front.
Promote(l) ==
  /\ lookup[l].at = "deadline"
  /\ front' = [value |-> lookup[l].value, expires |-> clock + FrontTTLFor(file.meta)]
  /\ LookupGoes(l, Found(l))
  /\ UNCHANGED <<clock, file, locks, held, deleter, paid>>

-----------------------------------------------------------------------------
(* The lock pool. *)

\* _checkout: the pool starts over on another loop, and counts who holds the entry.
Checkout(l) ==
  /\ lookup[l].at = "checkout"
  /\ LET entry == IF locks.loop = LoopOf[l] THEN locks.entry ELSE NoEntry
         lock  == IF entry.lock # 0 THEN entry.lock
                  ELSE CHOOSE k \in Locks : k \notin UsedLocks
     IN  /\ locks' = [loop |-> LoopOf[l],
                      entry |-> [lock |-> lock, waiters |-> entry.waiters + 1]]
         /\ lookup' = [lookup EXCEPT ![l].at = "await", ![l].lock = lock]
  /\ UNCHANGED <<clock, front, file, held, deleter, paid>>

Acquire(l) ==
  /\ lookup[l].at = "await"
  /\ lookup[l].lock \notin held
  /\ held' = held \cup {lookup[l].lock}
  /\ LookupGoes(l, "second")
  /\ UNCHANGED <<clock, front, file, locks, deleter, paid>>

\* Mutant of CheckedIn: the entry goes with the first.
CheckedInForAll == [locks EXCEPT !.entry = NoEntry]

\* _checkin: the entry goes with the last one that counted itself in.
CheckedIn ==
  LET left == locks.entry.waiters - 1
  IN  IF locks.entry.lock = 0 THEN locks
      ELSE [locks EXCEPT !.entry = IF left = 0 THEN NoEntry ELSE [@ EXCEPT !.waiters = left]]

\* Mutant of Release: only the bookkeeping is undone.
ReleaseForgets(l) ==
  /\ lookup[l].at = "release"
  /\ locks' = CheckedIn
  /\ lookup' = [lookup EXCEPT ![l] = [LookupStart EXCEPT !.at = "done"]]
  /\ UNCHANGED <<clock, front, file, held, deleter, paid>>

Release(l) ==
  /\ lookup[l].at = "release"
  /\ held' = held \ {lookup[l].lock}
  /\ locks' = CheckedIn
  /\ lookup' = [lookup EXCEPT ![l] = [LookupStart EXCEPT !.at = "done"]]
  /\ UNCHANGED <<clock, front, file, deleter, paid>>

\* Cancelled while it waits for the lock: _checkin is not reached.
CancelWaiting(l) ==
  /\ lookup[l].at = "await"
  /\ lookup' = [lookup EXCEPT ![l] = [LookupStart EXCEPT !.at = "done"]]
  /\ UNCHANGED <<clock, front, file, locks, held, deleter, paid>>

-----------------------------------------------------------------------------
(* The factory and TieredCache.set. *)

\* A factory may fail, be cancelled, or have nothing: nothing is stored.
Compute(l) ==
  /\ lookup[l].at = "compute"
  /\ \/ /\ paid' = paid + 1
        /\ lookup' = [lookup EXCEPT ![l].at = "write", ![l].value = paid + 1]
     \/ LookupGoes(l, "release") /\ UNCHANGED paid
  /\ UNCHANGED <<clock, front, file, locks, held, deleter>>

\* _write_sync: the value, then the sidecar with a deadline reckoned before both.
WriteValue(l) ==
  /\ lookup[l].at = "write"
  /\ file' = [file EXCEPT !.value = lookup[l].value]
  /\ lookup' = [lookup EXCEPT ![l].at = "written", ![l].until = clock + TTL]
  /\ UNCHANGED <<clock, front, locks, held, deleter, paid>>

WriteSidecar(l) ==
  /\ lookup[l].at = "written"
  /\ file' = [file EXCEPT !.meta = lookup[l].until]
  /\ lookup' = [lookup EXCEPT ![l].at = "mirror", ![l].until = 0]
  /\ UNCHANGED <<clock, front, locks, held, deleter, paid>>

Mirror(l) ==
  /\ lookup[l].at = "mirror"
  /\ front' = [value |-> lookup[l].value, expires |-> clock + FrontTTLFor(clock + TTL)]
  /\ LookupGoes(l, "release")
  /\ UNCHANGED <<clock, file, locks, held, deleter, paid>>

-----------------------------------------------------------------------------
(* TieredCache.delete, the clock, and the front's eviction for another key. *)

Delete(d) ==
  /\ \/ deleter[d] = "idle" /\ front' = NotCached /\ UNCHANGED file
     \/ deleter[d] = "value" /\ file' = [file EXCEPT !.value = 0] /\ UNCHANGED front
     \/ deleter[d] = "sidecar" /\ file' = [file EXCEPT !.meta = 0] /\ UNCHANGED front
  /\ deleter' = [deleter EXCEPT ![d] =
       CASE @ = "idle" -> "value" [] @ = "value" -> "sidecar" [] @ = "sidecar" -> "done"]
  /\ UNCHANGED <<clock, locks, held, lookup, paid>>

Clock ==
  /\ clock < MaxClock
  /\ clock' = clock + 1
  /\ UNCHANGED <<front, file, locks, held, lookup, deleter, paid>>

Evict ==
  /\ front # NotCached
  /\ front' = NotCached
  /\ UNCHANGED <<clock, file, locks, held, lookup, deleter, paid>>

Get(l) == LookFront(l) \/ ReadSidecar(l) \/ ReadValue(l)
          \/ UnlinkValue(l) \/ UnlinkSidecar(l) \/ Promote(l)
Set(l) == WriteValue(l) \/ WriteSidecar(l) \/ Mirror(l)
GetOrSet(l) == Get(l) \/ Checkout(l) \/ Acquire(l) \/ Compute(l) \/ Set(l) \/ Release(l)

CacheNext ==
  \/ \E l \in Lookups : GetOrSet(l) \/ CancelWaiting(l)
  \/ \E d \in Deleters : Delete(d)
  \/ Clock \/ Evict

CacheSpec == CacheInit /\ [][CacheNext]_cacheVars
-----------------------------------------------------------------------------
CacheTypeOK ==
  /\ clock \in 0..MaxClock
  /\ paid \in 0..Cardinality(Lookups)
  /\ {front.value, file.value} \subseteq 0..paid
  /\ front.expires \in 0..(MaxClock + FrontTTL) /\ file.meta \in 0..(MaxClock + TTL)
  /\ locks.loop \in {LoopOf[l] : l \in Lookups} \cup {"none"}
  /\ locks.entry \in [lock : {0} \cup Locks, waiters : 0..Cardinality(Lookups)]
  /\ held \subseteq Locks
  /\ lookup \in [Lookups ->
       [at : {"first", "second", "sidecar", "value", "unlink", "unlinked", "deadline",
              "checkout", "await", "compute", "write", "written", "mirror", "release", "done"},
        lock : {0} \cup Locks, value : 0..Cardinality(Lookups), until : 0..(MaxClock + TTL)]]
  /\ deleter \in [Deleters -> {"idle", "value", "sidecar", "done"}]

\* Stampede protection: however the coroutines of one loop interleave, are cancelled
\* or find the front evicted, one value is computed until something expires or is deleted.
PaidOnce ==
  /\ clock = 0
  /\ \A d \in Deleters : deleter[d] = "idle"
  /\ Cardinality({LoopOf[l] : l \in Lookups}) = 1
  => paid <= 1

\* Nobody waits for a lock for ever: every lookup that starts comes back.
EveryLookupReturns ==
  \A l \in Lookups : lookup[l].at # "first" ~> lookup[l].at = "done"

\* The loop runs every coroutine that is ready, and the threads finish.
CacheFairness == \A l \in Lookups : WF_cacheVars(GetOrSet(l))
CacheFairSpec == CacheSpec /\ CacheFairness
=============================================================================
