----------------------------- MODULE ObjectLock -----------------------------
(***************************************************************************)
(* Object Lock on one object: the bucket's versioning and lock             *)
(* configuration, the retention and legal hold of each version, the        *)
(* console's legal holds, and the clock, under the handlers that read one  *)
(* of them and write another.                                              *)
(*                                                                         *)
(* A handler is cut at its store calls as in DedupStore; what it does to   *)
(* pieces and to the content index is that module's subject. A handler may *)
(* end at any store call (an error, or a client that went away) and none   *)
(* of them undoes an earlier write to the state of this module.            *)
(*                                                                         *)
(* Nothing keeps the handlers apart: two of them may work on one version,  *)
(* or on one bucket's configuration, at the same time.                     *)
(***************************************************************************)
EXTENDS Naturals, Sequences

CONSTANTS
    Requests,   \* the handler calls; each runs at most once
    First,      \* the version that is stored at the start
    Shared,     \* the version ID of a refcount-only COPY: the piece it shares
    NoVersion,  \* a request without ?versionId
    Absent,     \* the manifest store has no such version
    Marker,     \* the version is a delete marker
    MaxTime,    \* bound: the last instant of the clock
    MaxDays     \* bound: the longest retention period of a default rule

Modes == {"GOVERNANCE", "COMPLIANCE"}

Times == 0 .. MaxTime + MaxDays

(* The lock fields of a manifest: RetentionMode, RetainUntil, LegalHold.    *)
Lock == [mode : Modes \cup {""}, until : Times, hold : BOOLEAN]

Unlocked == [mode |-> "", until |-> 0, hold |-> FALSE]

Versions == Requests \cup {First, Shared}

ASSUME ConstantsAssumption ==
    /\ {First, Shared} \cap Requests = {} /\ First # Shared
    /\ NoVersion \notin Versions
    /\ Absent # Marker /\ {Absent, Marker} \cap Lock = {}
    /\ MaxTime \in Nat /\ MaxDays \in Nat

VARIABLES
    versioning,  \* the bucket's versioning state
    config,      \* the bucket's Object Lock configuration
    consoleHold, \* does a legal hold of the console cover the object?
    now,         \* the clock of the gateways
    locks,       \* the manifest store: version -> lock fields
    order,       \* the stored versions, the latest last
    pc,          \* where each request stands
    held,        \* each request's version, what it saw there, what it will write,
                 \* and its bypass header
    setting,     \* what a bucket request saw, and what it will store
    late         \* history: the DELETEs that had passed the hold check when the
                 \* hold of the console was issued

vars == <<versioning, config, consoleHold, now, locks, order, pc, held, setting, late>>

stores == <<versioning, config, consoleHold, now, locks, order>>

States == {"", "Enabled", "Suspended"}

NoLock == [enabled |-> FALSE, mode |-> "", days |-> 0]

(* The configurations that Config.Valid accepts once Enabled is set.        *)
Configs ==
    {c \in [enabled : {TRUE}, mode : Modes \cup {""}, days : 0 .. MaxDays] :
        c.mode = "" <=> c.days = 0}

Goto(r, l) == pc' = [pc EXCEPT ![r] = l]

Hold(r, v, seen, l, b) ==
    held' = [held EXCEPT ![r] = [ver |-> v, seen |-> seen, lock |-> l, bypass |-> b]]

NoHeld == [ver |-> NoVersion, seen |-> Absent, lock |-> Unlocked, bypass |-> FALSE]

NoSetting == [state |-> "", config |-> NoLock, seen |-> <<"", NoLock>>]

(* The handler answers, and what it held is gone.                           *)
Answer(r) ==
    /\ Goto(r, "done")
    /\ held' = [held EXCEPT ![r] = NoHeld]
    /\ setting' = [setting EXCEPT ![r] = NoSetting]

-----------------------------------------------------------------------------
(* The rules of retention.                                                  *)

Active(l, t) == l.mode \in Modes /\ l.until > t

(* Mutant: a retention without a date passes.                               *)
RetentionValidUndated(m, u) == m \in Modes

(* Retention.Valid: a mode and a date.                                      *)
RetentionValid(m, u) == m \in Modes /\ u > 0

(* Mutant: only an earlier date weakens a retention.                        *)
weakensRetentionByDate(cur, m, u) == m \notin Modes \/ u < cur.until

weakensRetention(cur, m, u) ==
    \/ m \notin Modes
    \/ cur.mode = "COMPLIANCE" /\ m = "GOVERNANCE"
    \/ u < cur.until

(* Mutant: the legal hold gives way to the bypass header as well.           *)
blocksUnlessBypass(l, t, bypass) == ~bypass /\ (l.hold \/ Active(l, t))

(* Mutant: GOVERNANCE retention does not block at all.                      *)
blocksComplianceOnly(l, t, bypass) ==
    l.hold \/ (Active(l, t) /\ l.mode = "COMPLIANCE")

objectLockBlocksDelete(l, t, bypass) ==
    \/ l.hold
    \/ Active(l, t) /\ ~(l.mode = "GOVERNANCE" /\ bypass)

HasDefaultRetention(c) == c.enabled /\ c.mode \in Modes /\ c.days > 0

(* The lock fields of a new version, from the bucket's default rule.        *)
defaultRetention(c, t) ==
    IF HasDefaultRetention(c)
    THEN [mode |-> c.mode, until |-> t + c.days, hold |-> FALSE]
    ELSE Unlocked

-----------------------------------------------------------------------------
(* The manifest store.                                                      *)

Stored(v) == locks[v] # Absent

(* The version a request addresses: ?versionId, or the latest.              *)
Addressed(v) ==
    IF v # NoVersion THEN {v} ELSE IF order = <<>> THEN {} ELSE {order[Len(order)]}

(* Put is an upsert, and makes its version the latest.                      *)
PutVersion(v, l) ==
    /\ locks' = [locks EXCEPT ![v] = l]
    /\ order' = Append(SelectSeq(order, LAMBDA x : x # v), v)

DeleteVersion(v) ==
    /\ locks' = [locks EXCEPT ![v] = Absent]
    /\ order' = SelectSeq(order, LAMBDA x : x # v)

-----------------------------------------------------------------------------
(* Bucket configuration. Both handlers check one setting and write another. *)

ConfigLabels == {"setVersioning", "setObjectLock"}

(* The check of a bucket request has passed: what it saw, what it stores.   *)
Request(r, s, c, l) ==
    /\ setting' = [setting EXCEPT ![r] =
                       [state |-> s, config |-> c, seen |-> <<versioning, config>>]]
    /\ Goto(r, l)
    /\ UNCHANGED held

(* Mutant: versioning may be suspended under Object Lock.                   *)
PutBucketVersioningUnchecked(r, s) ==
    /\ pc[r] = "new"
    /\ Request(r, s, NoLock, "setVersioning")
    /\ UNCHANGED <<stores, late>>

PutBucketVersioning(r, s) ==
    /\ pc[r] = "new"
    /\ IF s = "Suspended" /\ config.enabled
       THEN Answer(r)
       ELSE Request(r, s, NoLock, "setVersioning")
    /\ UNCHANGED <<stores, late>>

SetVersioning(r) ==
    /\ pc[r] = "setVersioning"
    /\ versioning' = setting[r].state
    /\ Answer(r)
    /\ UNCHANGED <<config, consoleHold, now, locks, order, late>>

PutObjectLockConfiguration(r, c) ==
    /\ pc[r] = "new"
    /\ IF versioning = "Enabled" THEN Request(r, "", c, "setObjectLock") ELSE Answer(r)
    /\ UNCHANGED <<stores, late>>

SetObjectLock(r) ==
    /\ pc[r] = "setObjectLock"
    /\ config' = setting[r].config
    /\ Answer(r)
    /\ UNCHANGED <<versioning, consoleHold, now, locks, order, late>>

-----------------------------------------------------------------------------
(* PUT and COPY: allowObjectLockOverwrite, the default rule, the manifest.  *)

(* A PUT, and a COPY that moves bytes, store a version of their own; a      *)
(* refcount-only COPY stores under the ID of the piece it shares. Next,     *)
(* GetObjectLock: the check is over when Object Lock is off.                *)
PutBegin(r, v, bypass) ==
    /\ pc[r] = "new"
    /\ Hold(r, v, locks[v], Unlocked, bypass)
    /\ Goto(r, IF config.enabled THEN "putVersioning" ELSE "putDefault")
    /\ UNCHANGED <<stores, setting, late>>

(* GetVersioning: an Enabled bucket is taken never to replace a version.    *)
PutVersioning(r) ==
    /\ pc[r] = "putVersioning"
    /\ Goto(r, IF versioning = "Enabled" THEN "putDefault" ELSE "putCurrent")
    /\ UNCHANGED <<stores, held, setting, late>>

(* Get of the current version, refused when it is locked.                   *)
PutCurrent(r) ==
    /\ pc[r] = "putCurrent"
    /\ IF \E v \in Addressed(NoVersion) :
             locks[v] # Marker /\ objectLockBlocksDelete(locks[v], now, held[r].bypass)
       THEN Answer(r)
       ELSE Goto(r, "putDefault") /\ UNCHANGED <<held, setting>>
    /\ UNCHANGED <<stores, late>>

(* applyDefaultObjectLockRetention, after the body has been stored.         *)
PutDefault(r) ==
    /\ pc[r] = "putDefault"
    /\ Hold(r, held[r].ver, held[r].seen, defaultRetention(config, now), held[r].bypass)
    /\ Goto(r, "putManifest")
    /\ UNCHANGED <<stores, setting, late>>

PutManifest(r) ==
    /\ pc[r] = "putManifest"
    /\ PutVersion(held[r].ver, held[r].lock)
    /\ Answer(r)
    /\ UNCHANGED <<versioning, config, consoleHold, now, late>>

-----------------------------------------------------------------------------
(* Amendments of a stored version: load, change a field, UpdateManifest.    *)

AmendLabels == {"retain", "hold", "tag"}

(* loadObjectVersion: the lock fields of the version, if it has any. That   *)
(* the bucket has Object Lock enabled was read before; it cannot be undone. *)
Loaded(v) == {x \in Addressed(v) : locks[x] \notin {Absent, Marker}}

(* PutObjectRetention: an active retention must not become weaker, except   *)
(* GOVERNANCE under the bypass header.                                      *)
PutObjectRetention(r, v, m, u, bypass) ==
    /\ pc[r] = "new" /\ config.enabled
    /\ RetentionValid(m, u)
    /\ \E x \in Loaded(v) :
          IF /\ Active(locks[x], now)
             /\ weakensRetention(locks[x], m, u)
             /\ locks[x].mode = "COMPLIANCE" \/ ~bypass
          THEN Answer(r)
          ELSE /\ Hold(r, x, locks[x], [mode |-> m, until |-> u, hold |-> locks[x].hold], bypass)
               /\ Goto(r, "retain")
               /\ UNCHANGED setting
    /\ UNCHANGED <<stores, late>>

PutObjectLegalHold(r, v, on) ==
    /\ pc[r] = "new" /\ config.enabled
    /\ \E x \in Loaded(v) :
          Hold(r, x, locks[x], [locks[x] EXCEPT !.hold = on], FALSE)
    /\ Goto(r, "hold")
    /\ UNCHANGED <<stores, setting, late>>

(* PutObjectTagging and DeleteObjectTagging write back the lock fields they *)
(* read; tags on a delete marker change nothing here.                       *)
PutObjectTagging(r, v) ==
    /\ pc[r] = "new"
    /\ \E x \in Loaded(v) : Hold(r, x, locks[x], locks[x], FALSE)
    /\ Goto(r, "tag")
    /\ UNCHANGED <<stores, setting, late>>

(* UpdateManifest: a version that has gone is ErrNotFound.                  *)
UpdateManifest(r) ==
    /\ pc[r] \in AmendLabels
    /\ locks' = [locks EXCEPT ![held[r].ver] =
                     IF Stored(held[r].ver) THEN held[r].lock ELSE Absent]
    /\ Answer(r)
    /\ UNCHANGED <<versioning, config, consoleHold, now, order, late>>

-----------------------------------------------------------------------------
(* DELETE.                                                                  *)

(* The versioning state decides between a delete marker and a removal.      *)
DeleteBegin(r, v, bypass) ==
    /\ pc[r] = "new"
    /\ Hold(r, v, Absent, Unlocked, bypass)
    /\ Goto(r, IF versioning = "Enabled" /\ v = NoVersion THEN "putMarker" ELSE "delHolds")
    /\ UNCHANGED <<stores, setting, late>>

PutMarker(r) ==
    /\ pc[r] = "putMarker"
    /\ PutVersion(r, Marker)
    /\ Answer(r)
    /\ UNCHANGED <<versioning, config, consoleHold, now, late>>

(* Mutant: the answer of the legal-hold store is not looked at.             *)
DeleteHoldsUnchecked(r) ==
    /\ pc[r] = "delHolds"
    /\ Goto(r, "delGet")
    /\ UNCHANGED <<stores, held, setting, late>>

(* LegalHoldStore.Active.                                                   *)
DeleteHolds(r) ==
    /\ pc[r] = "delHolds"
    /\ IF consoleHold THEN Answer(r) ELSE Goto(r, "delGet") /\ UNCHANGED <<held, setting>>
    /\ UNCHANGED <<stores, late>>

(* Manifests.Get and objectLockBlocksDelete; a missing version is a success. *)
DeleteGet(r) ==
    /\ pc[r] = "delGet"
    /\ \/ \E v \in Addressed(held[r].ver) :
             /\ Stored(v)
             /\ locks[v] # Marker => ~objectLockBlocksDelete(locks[v], now, held[r].bypass)
             /\ Hold(r, v, locks[v], Unlocked, held[r].bypass)
             /\ Goto(r, "delManifest")
             /\ UNCHANGED setting
       \/ /\ \A v \in Addressed(held[r].ver) :
                /\ locks[v] # Marker
                /\ Stored(v) => objectLockBlocksDelete(locks[v], now, held[r].bypass)
          /\ Answer(r)
    /\ UNCHANGED <<stores, late>>

DeleteManifest(r) ==
    /\ pc[r] = "delManifest"
    /\ DeleteVersion(held[r].ver)
    /\ Answer(r)
    /\ UNCHANGED <<versioning, config, consoleHold, now, late>>

-----------------------------------------------------------------------------
(* The console's legal holds, the clock, and requests that end early.       *)

(* LegalHoldHandler.issue, at any point of a DELETE.                        *)
IssueHold ==
    /\ ~consoleHold
    /\ consoleHold' = TRUE
    /\ late' = {r \in Requests : pc[r] \in {"delGet", "delManifest"}}
    /\ UNCHANGED <<versioning, config, now, locks, order, pc, held, setting>>

(* LegalHoldHandler.release, or the expiry of the hold.                     *)
ReleaseHold ==
    /\ consoleHold
    /\ consoleHold' = FALSE
    /\ late' = {}
    /\ UNCHANGED <<versioning, config, now, locks, order, pc, held, setting>>

Tick ==
    /\ now < MaxTime
    /\ now' = now + 1
    /\ UNCHANGED <<versioning, config, consoleHold, locks, order, pc, held, setting, late>>

Fail(r) ==
    /\ pc[r] \notin {"new", "done"}
    /\ Answer(r)
    /\ UNCHANGED <<stores, late>>

-----------------------------------------------------------------------------
Init ==
    /\ \/ versioning \in States /\ config = NoLock
       \/ versioning = "Enabled" /\ config \in Configs
    /\ consoleHold = FALSE
    /\ now = 0
    /\ locks = [v \in Versions |-> IF v = First THEN Unlocked ELSE Absent]
    /\ order = <<First>>
    /\ pc = [r \in Requests |-> "new"]
    /\ held = [r \in Requests |-> NoHeld]
    /\ setting = [r \in Requests |-> NoSetting]
    /\ late = {}

BucketStep(r) ==
    \/ \E s \in {"Enabled", "Suspended"} : PutBucketVersioning(r, s)
    \/ SetVersioning(r)
    \/ \E c \in Configs : PutObjectLockConfiguration(r, c)
    \/ SetObjectLock(r)

PutStep(r) ==
    \/ \E v \in {r, Shared}, b \in BOOLEAN : PutBegin(r, v, b)
    \/ PutVersioning(r) \/ PutCurrent(r) \/ PutDefault(r) \/ PutManifest(r)

AmendStep(r) ==
    \/ \E v \in Versions \cup {NoVersion} :
          \/ \E m \in Modes, u \in Times, b \in BOOLEAN : PutObjectRetention(r, v, m, u, b)
          \/ \E on \in BOOLEAN : PutObjectLegalHold(r, v, on)
          \/ PutObjectTagging(r, v)
    \/ UpdateManifest(r)

DeleteStep(r) ==
    \/ \E v \in Versions \cup {NoVersion}, b \in BOOLEAN : DeleteBegin(r, v, b)
    \/ PutMarker(r) \/ DeleteHolds(r) \/ DeleteGet(r) \/ DeleteManifest(r)

Next ==
    \/ \E r \in Requests :
          BucketStep(r) \/ PutStep(r) \/ AmendStep(r) \/ DeleteStep(r) \/ Fail(r)
    \/ IssueHold \/ ReleaseHold \/ Tick

Spec == Init /\ [][Next]_vars

-----------------------------------------------------------------------------
(* The stored versions are exactly those of the latest-order, each has      *)
(* valid lock fields, and a version has a retain-until date when it has a   *)
(* mode (Retention.Valid, Config.Valid).                                    *)
TypeOK ==
    /\ versioning \in States
    /\ config \in Configs \cup {NoLock}
    /\ consoleHold \in BOOLEAN
    /\ now \in 0 .. MaxTime
    /\ locks \in [Versions -> Lock \cup {Absent, Marker}]
    /\ \A v \in Versions : locks[v] \in Lock => (locks[v].mode = "" <=> locks[v].until = 0)
    /\ order \in Seq(Versions)
    /\ {order[i] : i \in 1 .. Len(order)} = {v \in Versions : Stored(v)}
    /\ \A i, j \in 1 .. Len(order) : order[i] = order[j] => i = j
    /\ pc \in [Requests -> {"new", "putVersioning", "putCurrent", "putDefault",
                            "putManifest", "putMarker", "delHolds", "delGet",
                            "delManifest", "done"} \cup ConfigLabels \cup AmendLabels]
    /\ held \in [Requests -> [ver : Versions \cup {NoVersion},
                              seen : Lock \cup {Absent, Marker},
                              lock : Lock, bypass : BOOLEAN]]
    /\ setting \in [Requests -> [state : States, config : Configs \cup {NoLock},
                                 seen : States \X (Configs \cup {NoLock})]]
    /\ late \subseteq Requests

InForce(v, m) == locks[v] \in Lock /\ Active(locks[v], now) /\ locks[v].mode = m

(* The lock fields b protect a version at least as well as a does.          *)
Keeps(a, b) ==
    /\ b \in Lock
    /\ b.mode \in Modes /\ (a.mode = "COMPLIANCE" => b.mode = "COMPLIANCE")
    /\ b.until >= a.until

(* r takes a step, and v is the version it works on.                        *)
StepsOn(r, v) == pc'[r] # pc[r] /\ held[r].ver = v

(* What r saw of its version is no longer what is stored.                   *)
Outdated(r) == held[r].ver \in Versions /\ held[r].seen # locks[held[r].ver]

(* The step replaces v: an amendment or a DELETE that read v before another *)
(* request changed it, or a COPY onto the ID v of a piece that is shared.   *)
Overwritten(v) ==
    \E r \in Requests : StepsOn(r, v) /\ (Outdated(r) \/ pc[r] = "putManifest")

(* A version under COMPLIANCE retention is neither removed nor given an     *)
(* earlier date or a weaker mode before its date has passed.                *)
ComplianceKept ==
    [][\A v \in Versions : InForce(v, "COMPLIANCE") => Keeps(locks[v], locks'[v])]_vars

(* Only two things take COMPLIANCE retention from a version before its      *)
(* date: an amendment or a DELETE that another request overtook between     *)
(* its Get and its write, and a COPY onto the version. A handler that is    *)
(* not overtaken keeps it whatever its headers, with the clock moving       *)
(* between the check and the write and the default rule changing.           *)
CurrentWritersKeepCompliance ==
    [][\A v \in Versions :
          InForce(v, "COMPLIANCE") => Keeps(locks[v], locks'[v]) \/ Overwritten(v)]_vars

(* Beside those two, only a request with the bypass header takes GOVERNANCE *)
(* retention from a version: a PutObjectRetention or a DELETE.              *)
CurrentWritersKeepGovernance ==
    [][\A v \in Versions :
          InForce(v, "GOVERNANCE") =>
             \/ Keeps(locks[v], locks'[v]) \/ Overwritten(v)
             \/ \E r \in Requests : StepsOn(r, v) /\ held[r].bypass]_vars

(* Beside those two, a version under a legal hold is not removed and loses  *)
(* the hold to nothing but a PutObjectLegalHold.                            *)
CurrentWritersKeepHolds ==
    [][\A v \in Versions :
          locks[v] \in Lock /\ locks[v].hold =>
             \/ locks'[v] \in Lock /\ locks'[v].hold
             \/ Overwritten(v)
             \/ locks'[v] \in Lock /\ \E r \in Requests : StepsOn(r, v) /\ pc[r] = "hold"]_vars

(* A COPY that nothing overtakes does not take COMPLIANCE retention from    *)
(* its destination.                                                         *)
CopyKeepsCompliance ==
    [][\A r \in Requests, v \in Versions :
          pc[r] = "putManifest" /\ StepsOn(r, v) /\ ~Outdated(r) /\ InForce(v, "COMPLIANCE") =>
             Keeps(locks[v], locks'[v])]_vars

(* A version is removed under a legal hold of the console only by a DELETE  *)
(* that was already past its check of the hold store when the hold was      *)
(* issued; every DELETE that checks later leaves the object as it is.       *)
ConsoleHoldKept ==
    [][\A v \in Versions :
          consoleHold /\ locks[v] \in Lock =>
             locks'[v] \in Lock \/ \E r \in late : StepsOn(r, v)]_vars

Paired == config.enabled => versioning = "Enabled"

(* A bucket gets Object Lock without versioning only from two configuration *)
(* requests that cross: one of PutBucketVersioning and                      *)
(* PutObjectLockConfiguration stores its setting after the configuration it *)
(* checked has changed.                                                     *)
LockNeedsVersioning ==
    [][Paired => \/ Paired'
                 \/ \E r \in Requests :
                       /\ pc[r] \in ConfigLabels /\ pc'[r] # pc[r]
                       /\ setting[r].seen # <<versioning, config>>]_vars
=============================================================================
