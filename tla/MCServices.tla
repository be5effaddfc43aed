----------------------------- MODULE MCServices -----------------------------
(***************************************************************************)
(* Small instances of the services that guard a record, checked in one     *)
(* run.  They share no state: each behavior is one of one service, chosen  *)
(* at the start.                                                           *)
(***************************************************************************)
EXTENDS Limits, Cache, Organization, Initialization, Realtime, PostgresTasks, TLC

CONSTANTS c1, c2, h1, h2

VARIABLE part    \* the service that this behavior is of

MCFlights == h1 :> {c1, c2} @@ h2 :> {}
CallSymmetry == Permutations({c1, c2})

ServicesInit == /\ part \in {"counter", "leases", "cache", "organization", "setup", "realtime", "postgres"}
                /\ CounterInit /\ LimitInit /\ CacheInit /\ OrgInit /\ SetupInit
                /\ RealtimeInit /\ PgInit
                /\ blocked => part = "setup"

serviceVars == <<part, counterVars, leaseVars, cacheVars, orgVars, setupVars, rtVars, pgVars>>

Only(name, next, others) == part = name /\ next /\ UNCHANGED <<part, others>>

ServicesNext ==
  \/ Only("counter", CounterNext, <<leaseVars, cacheVars, orgVars, setupVars, rtVars, pgVars>>)
  \/ Only("leases", LimitNext, <<counterVars, cacheVars, orgVars, setupVars, rtVars, pgVars>>)
  \/ Only("cache", CacheNext, <<counterVars, leaseVars, orgVars, setupVars, rtVars, pgVars>>)
  \/ Only("organization", OrgNext, <<counterVars, leaseVars, cacheVars, setupVars, rtVars, pgVars>>)
  \/ Only("setup", SetupNext, <<counterVars, leaseVars, cacheVars, orgVars, rtVars, pgVars>>)
  \/ Only("realtime", RealtimeNext, <<counterVars, leaseVars, cacheVars, orgVars, setupVars, pgVars>>)
  \/ Only("postgres", PgNext, <<counterVars, leaseVars, cacheVars, orgVars, setupVars, rtVars>>)

ServicesSpec == ServicesInit /\ [][ServicesNext]_serviceVars
=============================================================================
