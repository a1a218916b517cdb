------------------------- MODULE FleetOrchestrator -------------------------
(***************************************************************************)
(* Gateway nodes that drain a common queue of migration jobs. The JobStore *)
(* (the migration_jobs table, or the mutex-guarded map) makes every claim, *)
(* heartbeat and release one atomic write; RunOnce on each node works from *)
(* a snapshot of the queue and takes the jobs one store call at a time.    *)
(*                                                                         *)
(* Time is reduced to what the store compares: whether a claim's           *)
(* claimed_until has passed. Job IDs are numbers, in the order in which    *)
(* ListActiveJobs returns them.                                            *)
(***************************************************************************)
EXTENDS Integers, FiniteSets, FiniteSetsExt

CONSTANTS
    Nodes,      \* the gateways, by NodeID
    Jobs,       \* job IDs
    Cells,      \* destination cells
    CellOf,     \* the DestCellID of each job
    Limit,      \* MaxConcurrentJobs of each cell
    NoNode,     \* claimed_by IS NULL
    Regimes     \* the sets of mishaps a fleet may live with

(* The claim of a node that is up runs out; a node stops with jobs in       *)
(* flight; a store call fails.                                              *)
Mishaps == {"stall", "crash", "fault"}

ASSUME FleetAssumption ==
    /\ IsFiniteSet(Nodes) /\ NoNode \notin Nodes
    /\ Jobs \subseteq Nat /\ IsFiniteSet(Jobs)
    /\ CellOf \in [Jobs -> Cells]
    /\ Limit \in [Cells -> Nat \ {0}]
    /\ Regimes \subseteq SUBSET Mishaps

VARIABLES
    state,      \* the state column of each job
    claimedBy,  \* the claimed_by column
    live,       \* claimed_until is still ahead of the clock
    up,         \* the nodes that are running
    todo,       \* each node's RunOnce: the pending jobs of its snapshot still to try
    running,    \* each node's RunOnce: its count of running jobs per cell
    worker,     \* each node's goroutine for each job
    beating,    \* its heartbeat goroutine
    regime      \* the mishaps of this fleet, fixed at the start

vars == <<state, claimedBy, live, up, todo, running, worker, beating, regime>>
store == <<state, claimedBy, live>>

JobState == {"absent", "pending", "running", "done", "failed"}
Terminal == {"done", "failed"}
WorkerState == {"none", "get", "run", "release"}

-----------------------------------------------------------------------------
(* The JobStore.                                                            *)

(* PutJob: a new row, unclaimed and pending.                                *)
PutJob(j) ==
    /\ state[j] = "absent"
    /\ state' = [state EXCEPT ![j] = "pending"]
    /\ UNCHANGED <<claimedBy, live, up, todo, running, worker, beating, regime>>

(* Mutant: the WHERE clause without the claim condition.                    *)
ClaimableAnyClaim(j, n) ==
    state[j] \in {"pending", "running"}

(* The WHERE clause of AcquireJob.                                          *)
Claimable(j, n) ==
    /\ state[j] \in {"pending", "running"}
    /\ claimedBy[j] = NoNode \/ ~live[j] \/ claimedBy[j] = n

AcquireJob(j, n) ==
    /\ state' = [state EXCEPT ![j] = "running"]
    /\ claimedBy' = [claimedBy EXCEPT ![j] = n]
    /\ live' = [live EXCEPT ![j] = TRUE]

(* Mutant: ReleaseJob takes any terminal value, the empty one too.          *)
ReleaseJobUnchecked(j, terminal) ==
    /\ state' = [state EXCEPT ![j] = ""]
    /\ claimedBy' = [claimedBy EXCEPT ![j] = NoNode]
    /\ live' = [live EXCEPT ![j] = FALSE]

ReleaseJob(j, terminal) ==
    /\ state' = [state EXCEPT ![j] = terminal]
    /\ claimedBy' = [claimedBy EXCEPT ![j] = NoNode]
    /\ live' = [live EXCEPT ![j] = FALSE]

(* The clock passes claimed_until before the next heartbeat.                *)
Lapse(j) ==
    /\ live[j]
    /\ "stall" \in regime \/ claimedBy[j] \notin up \/ worker[claimedBy[j]][j] = "none"
    /\ live' = [live EXCEPT ![j] = FALSE]
    /\ UNCHANGED <<state, claimedBy, up, todo, running, worker, beating, regime>>

-----------------------------------------------------------------------------
(* RunOnce.                                                                 *)

RunningIn(c) == {j \in Jobs : state[j] = "running" /\ CellOf[j] = c}

(* ListActiveJobs, and the count of the running jobs it returned.           *)
RunOnceList(n) ==
    /\ n \in up
    /\ todo[n] = {}
    /\ todo' = [todo EXCEPT ![n] = {j \in Jobs : state[j] = "pending"}]
    /\ running' = [running EXCEPT ![n] = [c \in Cells |-> Cardinality(RunningIn(c))]]
    /\ UNCHANGED <<state, claimedBy, live, up, worker, beating, regime>>

(* Mutant: a claim made in this pass is not added to the running count.     *)
RunOnceTryUncounted(n) ==
    /\ n \in up
    /\ todo[n] # {}
    /\ LET j == Min(todo[n])
       IN /\ todo' = [todo EXCEPT ![n] = @ \ {j}]
          /\ IF running[n][CellOf[j]] < Limit[CellOf[j]] /\ Claimable(j, n)
             THEN AcquireJob(j, n) /\ worker' = [worker EXCEPT ![n][j] = "get"]
             ELSE UNCHANGED <<store, worker>>
    /\ UNCHANGED <<running, up, beating, regime>>

(* Mutant: the claim is made before the cell's limit is looked at.          *)
RunOnceTryClaimsFirst(n) ==
    /\ n \in up
    /\ todo[n] # {}
    /\ LET j == Min(todo[n])
           c == CellOf[j]
       IN /\ todo' = [todo EXCEPT ![n] = @ \ {j}]
          /\ IF Claimable(j, n) THEN AcquireJob(j, n) ELSE UNCHANGED store
          /\ IF Claimable(j, n) /\ running[n][c] < Limit[c]
             THEN /\ running' = [running EXCEPT ![n][c] = @ + 1]
                  /\ worker' = [worker EXCEPT ![n][j] = "get"]
             ELSE UNCHANGED <<running, worker>>
    /\ UNCHANGED <<up, beating, regime>>

(* The next pending job of the snapshot: skipped when its cell is full,     *)
(* otherwise claimed and given a goroutine. A failed AcquireJob may have    *)
(* been applied all the same.                                               *)
RunOnceTry(n) ==
    /\ n \in up
    /\ todo[n] # {}
    /\ LET j == Min(todo[n])
           c == CellOf[j]
       IN /\ todo' = [todo EXCEPT ![n] = @ \ {j}]
          /\ \/ /\ running[n][c] >= Limit[c] \/ ~Claimable(j, n)
                /\ UNCHANGED <<store, running, worker>>
             \/ /\ running[n][c] < Limit[c] /\ Claimable(j, n)
                /\ AcquireJob(j, n)
                /\ running' = [running EXCEPT ![n][c] = @ + 1]
                /\ worker' = [worker EXCEPT ![n][j] = "get"]
             \/ /\ "fault" \in regime /\ running[n][c] < Limit[c]
                /\ UNCHANGED store \/ (Claimable(j, n) /\ AcquireJob(j, n))
                /\ UNCHANGED <<running, worker>>
    /\ UNCHANGED <<up, beating, regime>>

-----------------------------------------------------------------------------
(* run and heartbeatLoop.                                                   *)

(* GetJob, then the heartbeat goroutine and the runner start. On an error   *)
(* the goroutine returns and the claim stays behind.                        *)
WorkerGet(n, j) ==
    /\ worker[n][j] = "get"
    /\ \/ /\ worker' = [worker EXCEPT ![n][j] = "run"]
          /\ beating' = [beating EXCEPT ![n][j] = TRUE]
       \/ /\ "fault" \in regime
          /\ worker' = [worker EXCEPT ![n][j] = "none"]
          /\ UNCHANGED beating
    /\ UNCHANGED <<state, claimedBy, live, up, todo, running, regime>>

(* HeartbeatJob: extends the claim of its owner; the loop of any other node *)
(* ends, and the runner goes on. A failed call is logged.                   *)
Heartbeat(n, j) ==
    /\ beating[n][j]
    /\ \/ /\ claimedBy[j] = n
          /\ live' = [live EXCEPT ![j] = TRUE]
          /\ UNCHANGED beating
       \/ /\ claimedBy[j] # n
          /\ beating' = [beating EXCEPT ![n][j] = FALSE]
          /\ UNCHANGED live
    /\ UNCHANGED <<state, claimedBy, up, todo, running, worker, regime>>

(* The runner returns, well or with an error, and stops the heartbeat.      *)
RunnerReturn(n, j) ==
    /\ worker[n][j] = "run"
    /\ worker' = [worker EXCEPT ![n][j] = "release"]
    /\ beating' = [beating EXCEPT ![n][j] = FALSE]
    /\ UNCHANGED <<state, claimedBy, live, up, todo, running, regime>>

(* Mutant: ReleaseJob is not fenced by claimed_by.                          *)
WorkerReleaseUnfenced(n, j) ==
    /\ worker[n][j] = "release"
    /\ worker' = [worker EXCEPT ![n][j] = "none"]
    /\ \E t \in Terminal : ReleaseJob(j, t)
    /\ UNCHANGED <<up, todo, running, beating, regime>>

(* ReleaseJob, fenced by claimed_by; a failed call may have been applied.   *)
WorkerRelease(n, j) ==
    /\ worker[n][j] = "release"
    /\ worker' = [worker EXCEPT ![n][j] = "none"]
    /\ \/ claimedBy[j] = n /\ \E t \in Terminal : ReleaseJob(j, t)
       \/ ("fault" \in regime \/ claimedBy[j] # n) /\ UNCHANGED store
    /\ UNCHANGED <<up, todo, running, beating, regime>>

-----------------------------------------------------------------------------
(* A crash, or a shutdown (ReleaseJob then fails under the cancelled        *)
(* context): the goroutines of the node are gone, its claims remain.        *)
Crash(n) ==
    /\ "crash" \in regime
    /\ n \in up
    /\ up' = up \ {n}
    /\ todo' = [todo EXCEPT ![n] = {}]
    /\ worker' = [worker EXCEPT ![n] = [j \in Jobs |-> "none"]]
    /\ beating' = [beating EXCEPT ![n] = [j \in Jobs |-> FALSE]]
    /\ UNCHANGED <<state, claimedBy, live, running, regime>>

(* The process comes back under the same NodeID.                            *)
Restart(n) ==
    /\ n \notin up
    /\ up' = up \cup {n}
    /\ UNCHANGED <<state, claimedBy, live, todo, running, worker, beating, regime>>

Init ==
    /\ state = [j \in Jobs |-> "absent"]
    /\ claimedBy = [j \in Jobs |-> NoNode]
    /\ live = [j \in Jobs |-> FALSE]
    /\ up = Nodes
    /\ todo = [n \in Nodes |-> {}]
    /\ running = [n \in Nodes |-> [c \in Cells |-> 0]]
    /\ worker = [n \in Nodes |-> [j \in Jobs |-> "none"]]
    /\ beating = [n \in Nodes |-> [j \in Jobs |-> FALSE]]
    /\ regime \in Regimes

RunOnce(n) == RunOnceList(n) \/ RunOnceTry(n)

Run(n, j) == WorkerGet(n, j) \/ RunnerReturn(n, j) \/ WorkerRelease(n, j)

Next ==
    \/ \E j \in Jobs : PutJob(j) \/ Lapse(j)
    \/ \E n \in Nodes : RunOnce(n) \/ Crash(n) \/ Restart(n)
    \/ \E n \in Nodes, j \in Jobs : Run(n, j) \/ Heartbeat(n, j)

Spec == Init /\ [][Next]_vars

(* A fleet at its best: RunOnce is called on a ticker, as its comment asks  *)
(* (the gateway builds the orchestrator and leaves the ticker to later), a  *)
(* goroutine is scheduled and its runner returns, a node that stops is      *)
(* started again, and the clock advances.                                   *)
FairSpec ==
    /\ Spec
    /\ \A n \in Nodes : WF_vars(RunOnceList(n)) /\ WF_vars(RunOnceTry(n)) /\ WF_vars(Restart(n))
    /\ \A n \in Nodes, j \in Jobs : WF_vars(Run(n, j))
    /\ \A j \in Jobs : WF_vars(Lapse(j))
-----------------------------------------------------------------------------
(* Properties.                                                              *)

(* The columns of the job table and the nodes' local state keep their       *)
(* domains: ReleaseJob writes terminal states only.                         *)
TypeOK ==
    /\ state \in [Jobs -> JobState]
    /\ claimedBy \in [Jobs -> Nodes \cup {NoNode}]
    /\ live \in [Jobs -> BOOLEAN]
    /\ up \subseteq Nodes
    /\ todo \in [Nodes -> SUBSET Jobs]
    /\ running \in [Nodes -> [Cells -> Nat]]
    /\ worker \in [Nodes -> [Jobs -> WorkerState]]
    /\ beating \in [Nodes -> [Jobs -> BOOLEAN]]
    /\ regime \in Regimes

(* A finished job is finished for good: neither a node that still has it as *)
(* pending in an old snapshot nor a worker that lost its claim changes the  *)
(* row again.                                                               *)
TerminalIsFinal ==
    [][\A j \in Jobs : state[j] \in Terminal =>
           state'[j] = state[j] /\ claimedBy'[j] = NoNode]_vars

(* While the nodes that are up keep their claims alive, no job is run by    *)
(* two of them, although they work from snapshots of different ages.        *)
OneRunner ==
    "stall" \notin regime =>
        \A j \in Jobs : \A m, n \in Nodes :
            worker[m][j] # "none" /\ worker[n][j] # "none" => m = n

ClaimedIn(n, c) == {j \in Jobs : claimedBy[j] = n /\ CellOf[j] = c}

(* Where a claim that is reported as failed was not made, no node ever      *)
(* holds more claims on a cell than the cell's limit, counting the ones     *)
(* that a crash left behind or that it took over.                           *)
NodeWithinLimit ==
    "fault" \notin regime =>
        \A n \in Nodes, c \in Cells : Cardinality(ClaimedIn(n, c)) <= Limit[c]

(* Unless a node stopped or a store call failed, every job that the table   *)
(* has as running has a goroutine of its claimant behind it, which will     *)
(* release it: also when claims run out and are taken over, and a worker    *)
(* that lost its claim comes back late. So no cell stays full of jobs that  *)
(* nobody runs, although RunOnce passes over everything that is running.    *)
RunningHasWorker ==
    regime \cap {"crash", "fault"} = {} =>
        \A j \in Jobs : state[j] = "running" =>
            claimedBy[j] \in Nodes /\ worker[claimedBy[j]][j] # "none"

(* fleet_orchestrator_test.go: "After the claim's TTL expires another node  *)
(* re-acquires the job and runs it to completion."                          *)
LapsedClaimRecovered ==
    \A j \in Jobs : state[j] = "running" /\ ~live[j] ~> live[j] \/ state[j] \in Terminal
=============================================================================
