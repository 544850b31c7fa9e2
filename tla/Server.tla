------------------------------- MODULE Server -------------------------------
(***************************************************************************)
(* Servers that migrate the database and then serve.  The buckets of the   *)
(* rate limiter of one of them, me, live in its memory: they come with     *)
(* SetupRouter after the migration.                                        *)
(***************************************************************************)
EXTENDS Migrate, RateLimiter

CONSTANT me

ASSUME ServerAssumption == me \in Servers

vars == <<migrateVars, rvars>>

Init == MInit /\ RInit

\* SetupRouter makes new limiters.
Open == Serve(me) /\ Restarted

Next ==
    \/ \E s \in Servers : Preparing(s) /\ UNCHANGED rvars
    \/ \E s \in Servers \ {me} : Serve(s) /\ UNCHANGED rvars
    \/ Open
    \/ \E s \in Servers : Crash(s) /\ UNCHANGED rvars
    \/ Tick /\ UNCHANGED migrateVars
    \/ pc[me] = "serving" /\ (\E c \in Clients : Request(c)) /\ UNCHANGED migrateVars

Spec == Init /\ [][Next]_vars

\* Servers are started again when they stop and run; pg_advisory_lock is granted in
\* the order it was asked for, so nobody waits for ever while others get it.
Fairness ==
    \A s \in Servers :
        /\ WF_migrateVars(Start(s) \/ CheckFile(s) \/ ApplyFile(s) \/ Serve(s))
        /\ SF_migrateVars(AcquireLock(s))

FairSpec == Spec /\ Fairness

-----------------------------------------------------------------------------
\* Crashes over, every server gets to serve: no lock is left behind.
AllServe == <>[](\A s \in Servers : pc[s] = "serving")
=============================================================================
