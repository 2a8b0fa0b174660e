---------------------------- MODULE WorkdaySites ----------------------------
(***************************************************************************)
(* Workday's boards have to be found before they can be read: a tenant's   *)
(* shard and site are probed for, remembered in the process and in the     *)
(* durable cache, and a search probes for a bounded number of them         *)
(* (workday.py).  The boards share one budget in list order.               *)
(***************************************************************************)
EXTENDS Integers, Sequences

CONSTANTS
  Tenants,         \* the tenants of the query, in order
  Resolutions,     \* MAX_SITE_RESOLUTIONS_PER_SEARCH
  Wish,            \* SearchQuery.limit
  MaxSearches,     \* bound: searches of the process
  MaxTurns         \* bound: tenants that come, leave or go down, and restarts

ASSUME WorkdayAssumption ==
  /\ Len(Tenants) \in Nat /\ DOMAIN Tenants = 1 .. Len(Tenants)
  /\ {Resolutions, Wish} \subseteq Nat \ {0}
  /\ {MaxSearches, MaxTurns} \subseteq Nat

VARIABLES
  tenant,    \* the world: whether a tenant is "there", "gone", or "down" for now
  sites,     \* _sites: the memo of the process; "unknown", "site" or "miss"
  durable,   \* the same in the shared cache
  hunt,      \* the search in progress
  searches,
  turns

workdayVars == <<tenant, sites, durable, hunt, searches, turns>>
-----------------------------------------------------------------------------
Listed == DOMAIN Tenants
Known == {"site", "miss"}
Resting == [going |-> FALSE, at |-> 1, counted |-> 0, probed |-> 0, produced |-> 0]

WorkdayInit ==
  /\ tenant \in [Listed -> {"there", "gone", "down"}]
  /\ sites = [t \in Listed |-> "unknown"]
  /\ durable = [t \in Listed |-> "unknown"]
  /\ hunt = Resting
  /\ searches = 0
  /\ turns = 0

BeginHunt ==
  /\ ~hunt.going /\ searches < MaxSearches
  /\ hunt' = [Resting EXCEPT !.going = TRUE]
  /\ searches' = searches + 1
  /\ UNCHANGED <<tenant, sites, durable, turns>>

Current == hunt.at
OnTheList == hunt.going /\ Current \in Listed /\ hunt.produced < Wish

\* The search over a site yields what it finds, at most the rest of the budget, and may
\* fail on the way; a tenant without a site is passed over.
Visit(site, counted, probed) ==
  \E n \in 0 .. Wish - hunt.produced :
    /\ (n > 0 => site = "site" /\ tenant[Current] = "there")
    /\ hunt' = [hunt EXCEPT !.at = @ + 1, !.counted = @ + counted, !.probed = @ + probed,
                            !.produced = @ + n]

RememberedCounts ==
  /\ OnTheList /\ sites[Current] \in Known
  /\ Visit(sites[Current], 1, 0)
  /\ UNCHANGED <<tenant, sites, durable, searches, turns>>

Remembered ==
  /\ OnTheList /\ sites[Current] \in Known
  /\ Visit(sites[Current], 0, 0)
  /\ UNCHANGED <<tenant, sites, durable, searches, turns>>

ReadDurable ==
  /\ OnTheList /\ sites[Current] = "unknown" /\ durable[Current] \in Known
  /\ sites' = [sites EXCEPT ![Current] = durable[Current]]
  /\ Visit(durable[Current], 0, 0)
  /\ UNCHANGED <<tenant, durable, searches, turns>>

\* A host that does not answer is taken for the wrong shard: a tenant that is down is a
\* miss, and a miss is remembered like a site.
ProbeShards ==
  LET found == IF tenant[Current] = "there" THEN "site" ELSE "miss"
  IN /\ OnTheList /\ sites[Current] = "unknown" /\ durable[Current] = "unknown"
     /\ hunt.counted < Resolutions
     /\ sites' = [sites EXCEPT ![Current] = found]
     /\ durable' = [durable EXCEPT ![Current] = found]
     /\ Visit(found, 1, 1)
     /\ UNCHANGED <<tenant, searches, turns>>

PutOff ==
  /\ OnTheList /\ sites[Current] = "unknown" /\ durable[Current] = "unknown"
  /\ hunt.counted >= Resolutions
  /\ Visit("miss", 0, 0)
  /\ UNCHANGED <<tenant, sites, durable, searches, turns>>

EndHunt ==
  /\ hunt.going /\ ~OnTheList
  /\ hunt' = [hunt EXCEPT !.going = FALSE]
  /\ UNCHANGED <<tenant, sites, durable, searches, turns>>

\* SITE_CACHE_TTL_SECONDS, SITE_MISS_CACHE_TTL_SECONDS: of the durable entry only.
ResolutionExpires ==
  \E t \in Listed :
    /\ durable[t] \in Known
    /\ durable' = [durable EXCEPT ![t] = "unknown"]
    /\ UNCHANGED <<tenant, sites, hunt, searches, turns>>

TenantTurns ==
  \E t \in Listed, s \in {"there", "gone", "down"} :
    /\ turns < MaxTurns /\ tenant[t] # s
    /\ tenant' = [tenant EXCEPT ![t] = s]
    /\ turns' = turns + 1
    /\ UNCHANGED <<sites, durable, hunt, searches>>

ProcessRestarts ==
  /\ turns < MaxTurns
  /\ turns' = turns + 1
  /\ sites' = [t \in Listed |-> "unknown"]
  /\ hunt' = Resting
  /\ UNCHANGED <<tenant, durable, searches>>

WorkdayNext ==
  \/ BeginHunt \/ Remembered \/ ReadDurable \/ ProbeShards \/ PutOff \/ EndHunt
  \/ ResolutionExpires \/ TenantTurns \/ ProcessRestarts

WorkdaySpec == WorkdayInit /\ [][WorkdayNext]_workdayVars
-----------------------------------------------------------------------------
WorkdayTypeOK ==
  /\ tenant \in [Listed -> {"there", "gone", "down"}]
  /\ sites \in [Listed -> Known \cup {"unknown"}]
  /\ durable \in [Listed -> Known \cup {"unknown"}]
  /\ hunt \in [going : BOOLEAN, at : 1 .. Len(Tenants) + 1, counted : 0 .. Resolutions,
               probed : 0 .. Resolutions, produced : 0 .. Wish]
  /\ searches \in 0 .. MaxSearches /\ turns \in 0 .. MaxTurns

(* "A run always makes progress and always finishes; the tenants that did not fit resolve on
   the next poll" (workday.py:283-287): across restarts, expiring entries and tenants that
   come and go, a search that read its whole list has probed for as many tenants as it may,
   or leaves none behind that nobody has looked for. *)
ColdStartAdvances ==
  [][EndHunt /\ hunt.produced < Wish =>
       hunt.probed = Resolutions \/ \A t \in Listed : sites[t] \in Known]_workdayVars

(* What the constant SITE_MISS_CACHE_TTL_SECONDS says of a miss, that it is remembered for
   six hours (workday.py:294-297): after its durable entry ran out, a tenant that is there
   is probed for again.  It is not while the process lives, whose memo has no lifetime. *)
MissIsForgotten ==
  \A t \in Listed : sites[t] = "miss" => durable[t] = "miss"
=============================================================================
