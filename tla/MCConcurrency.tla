--------------------------- MODULE MCConcurrency ---------------------------
(***************************************************************************)
(* Model-checking instance of the objects that several threads use and     *)
(* that share no state with each other: io_manager, the thread pool,       *)
(* wait_callback, the client's calls, and the cache of schemas with the    *)
(* validation of what it holds.  A behaviour is one of the object that     *)
(* focus names; the others stay as constructed.                            *)
(***************************************************************************)
EXTENDS IoManager, ThreadPool, WaitCallback, ClientCall, MCSchemas

CONSTANTS b, c0, c1, c2, c3, f1, h1, h2, i1, i2, o1, o2, t1, t2, w1, w2

VARIABLE focus

MCInit ==
    /\ IoInit /\ PoolInit /\ WaitInit /\ ClientInit /\ SchemasInit
    /\ focus \in {"io_manager", "thread_pool", "wait_callback", "client", "schemas"}

MCNext ==
    /\ UNCHANGED focus
    /\ \/ focus = "io_manager" /\ IoNext /\ UNCHANGED <<poolVars, waitVars, clientVars, schemaVars>>
       \/ focus = "thread_pool" /\ PoolNext /\ UNCHANGED <<ioVars, waitVars, clientVars, schemaVars>>
       \/ focus = "wait_callback" /\ WaitNext /\ UNCHANGED <<ioVars, poolVars, clientVars, schemaVars>>
       \/ focus = "client" /\ ClientNext /\ UNCHANGED <<ioVars, poolVars, waitVars, schemaVars>>
       \/ focus = "schemas" /\ SchemasNext /\ UNCHANGED <<ioVars, poolVars, waitVars, clientVars>>

(* As constructed an object owes no step, so the fairness of those that    *)
(* stay so is void.                                                        *)
MCSpec ==
    /\ MCInit
    /\ [][MCNext]_<<ioVars, poolVars, waitVars, clientVars, schemaVars, focus>>
    /\ IoFairness /\ PoolFairness /\ WaitFairness /\ ClientFairness /\ CacheFairness
=============================================================================
