--------------------------- MODULE ManifestWriters ---------------------------
(***************************************************************************)
(* Everything that rewrites the stored manifest of one object key.         *)
(*                                                                         *)
(* The manifest store has no compare-and-swap: a writer reads a manifest,  *)
(* works on its private copy and stores the whole copy back, with Put      *)
(* (which inserts or overwrites and makes the version the latest one) or   *)
(* with UpdateManifest (which replaces an existing version in place).      *)
(* The writers are the client requests (PUT, DELETE, the tagging,          *)
(* retention and legal-hold amendments, and a GET that triggers a lazy     *)
(* read repair), the background rebalancer that moves pieces from the      *)
(* source to the primary backend, and the AAD migrator that re-seals old   *)
(* objects under a new piece.                                              *)
(*                                                                         *)
(* The store modelled is the Postgres one: the latest version is the row   *)
(* with the newest updated_at, so `order' is the stored versions in        *)
(* updated_at order.  A client PUT is one step here: until its manifest is *)
(* written no other actor can name its version or its pieces.              *)
(***************************************************************************)
EXTENDS Integers, Sequences, FiniteSets, SequencesExt

CONSTANTS
    Requests,    \* client requests; a PUT's version is named by its request
    Legacy,      \* the versions written by an earlier release, oldest first
    Layouts,     \* the backends of their pieces: version -> sequence of backends
    Mixes,       \* the sets of operations a gateway may serve
    MaxReseals,  \* bound: pieces the AAD migrator may write
    Faults,      \* may a store or a backend call fail?
    NoManifest,  \* the body of a version that is not stored
    Marker       \* the body of a delete marker

Versions == Range(Legacy) \cup Requests

AllOps == {"put", "mark", "delete", "amend", "get", "cutover", "rebalance", "aad"}

\* The rebalancer's SourceBackend and PrimaryBackend, and any other one: a
\* shard of an erasure-coded object may be on a backend of its own.
Backends == {"source", "primary", "other"}

ASSUME WritersAssumption ==
    /\ Mixes \subseteq SUBSET AllOps
    /\ Layouts \subseteq [Range(Legacy) -> Seq(Backends) \ {<<>>}]
    /\ MaxReseals \in Nat
    /\ Faults \in BOOLEAN
    /\ Legacy \in Seq(Range(Legacy))
    /\ Range(Legacy) \cap Requests = {}

\* A piece id: the version and the part it was written for, and the number
\* of the re-seal that wrote it (0: the upload).
MaxParts == Max({1} \cup {Len(l[v]) : l \in Layouts, v \in Range(Legacy)})

PieceIds == Versions \X (1..MaxParts) \X (0..MaxReseals)

Manifest == [pieces : Seq([id : PieceIds, at : Backends]),
             gen : 1..5, aad : {"", "v1"}, tag : BOOLEAN]

\* A private copy of a manifest: its version, the manifest that was stored
\* when the copy was last read or written, and the copy as changed since.
Copy == [ver : Versions, seen : Manifest, body : Manifest]

ReadCopy(v, m) == [ver |-> v, seen |-> m, body |-> m]

VARIABLES
    body,     \* the manifest table: version -> manifest, Marker or NoManifest
    order,    \* the stored versions, oldest updated_at first
    pieces,   \* the <<piece id, backend>> pairs stored
    pc, held, \* per request: where its handler is, the manifest it holds
    rebPc, reb, rebDirty,   \* the rebalancer and the manifest it works on
    migPc, mig, migTodo, reseals,  \* the AAD migrator, its page, its pieces
    ops,      \* the operations this gateway serves, fixed at the start
    overwritten  \* history: the versions written from an outdated copy

store   == <<body, order, overwritten>>
client  == <<pc, held>>
rebVars == <<rebPc, reb, rebDirty>>
migVars == <<migPc, mig, migTodo, reseals>>
vars == <<store, pieces, client, rebVars, migVars, ops>>

-----------------------------------------------------------------------------
(* The manifest store.                                                     *)

Stored(v) == body[v] \notin {NoManifest, Marker}

\* Mutant: an insert that keeps the version's old row.
StoreInsert(v, m) ==
    /\ body' = [body EXCEPT ![v] = m]
    /\ order' = Append(order, v)

\* Put: insert or overwrite, and become the latest version.
StorePut(v, m) ==
    /\ body' = [body EXCEPT ![v] = m]
    /\ order' = Append(Remove(order, v), v)

\* UpdateManifest: in place, and only if the version is still there.
UpdateManifest(v, m) ==
    /\ body' = IF body[v] = NoManifest THEN body ELSE [body EXCEPT ![v] = m]
    /\ UNCHANGED order

StoreDelete(v) ==
    /\ body' = [body EXCEPT ![v] = NoManifest]
    /\ order' = Remove(order, v)
    /\ UNCHANGED overwritten

\* A write from the copy c, noted unless the row is the one c was read from.
NoteOverwrite(c) ==
    overwritten' = IF body[c.ver] = c.seen THEN overwritten
                                           ELSE overwritten \cup {c.ver}

PutBack(c, m) == StorePut(c.ver, m) /\ NoteOverwrite(c)

UpdateBack(c, m) ==
    /\ UpdateManifest(c.ver, m)
    /\ IF body[c.ver] = NoManifest THEN UNCHANGED overwritten ELSE NoteOverwrite(c)

\* The version List and a request without a versionId resolve to.
IsLatest(v) == order # <<>> /\ v = Last(order)

Upload(v, layout, aad) ==
    [pieces |-> [i \in DOMAIN layout |-> [id |-> <<v, i, 0>>, at |-> layout[i]]],
     gen |-> 1, aad |-> aad, tag |-> FALSE]

PiecesOf(m) == {<<p.id, p.at>> : p \in Range(m.pieces)}

MovePiece(m, i) == [m EXCEPT !.pieces[i].at = "primary"]

Init ==
    /\ \E l \in Layouts :
          /\ body = [v \in Versions |->
                        IF v \in Requests THEN NoManifest ELSE Upload(v, l[v], "")]
          /\ pieces = UNION {PiecesOf(Upload(v, l[v], "")) : v \in Range(Legacy)}
    /\ order = Legacy
    /\ pc = [r \in Requests |-> "idle"]
    /\ held = [r \in Requests |-> NoManifest]
    /\ rebPc = "idle" /\ reb = NoManifest /\ rebDirty = FALSE
    /\ migPc = "idle" /\ mig = NoManifest /\ migTodo = {} /\ reseals = 0
    /\ ops \in Mixes
    /\ overwritten = {}

-----------------------------------------------------------------------------
(* Client requests.                                                        *)

Goto(r, label) == pc' = [pc EXCEPT ![r] = label]

\* The handler answers, and its copy is gone.
Answer(r) == Goto(r, "done") /\ held' = [held EXCEPT ![r] = NoManifest]

\* The handler loads the manifest of the version it addresses.
Load(r, v, label) ==
    /\ pc[r] = "idle"
    /\ Stored(v)
    /\ held' = [held EXCEPT ![r] = ReadCopy(v, body[v])]
    /\ Goto(r, label)
    /\ UNCHANGED <<store, pieces, rebVars, migVars, ops>>

\* PUT: the pieces, then the manifest of a new latest version.
PutObject(r) ==
    /\ "put" \in ops
    /\ pc[r] = "idle"
    /\ LET m == Upload(r, <<"source">>, "v1")
       IN  StorePut(r, m) /\ pieces' = pieces \cup PiecesOf(m)
    /\ Goto(r, "done")
    /\ UNCHANGED <<held, overwritten, rebVars, migVars, ops>>

\* DELETE without a versionId in a versioned bucket: a delete marker.
PutMarker(r) ==
    /\ "mark" \in ops
    /\ pc[r] = "idle"
    /\ StorePut(r, Marker)
    /\ Goto(r, "done")
    /\ UNCHANGED <<held, overwritten, pieces, rebVars, migVars, ops>>

\* The cut-over that starts a version's migration: DualWrite, generation 2
\* and the new backend as PrimaryBackend, the state the rebalancer and the
\* read repair work from.
BeginMigration(v) ==
    /\ "cutover" \in ops
    /\ Stored(v) /\ body[v].gen = 1
    /\ UpdateManifest(v, [body[v] EXCEPT !.gen = 2])
    /\ UNCHANGED <<overwritten, pieces, client, rebVars, migVars, ops>>

\* PUT ?tagging, ?retention, ?legal-hold: load, amend, UpdateManifest.
AmendLoad(r, v) == "amend" \in ops /\ Load(r, v, "amend")

AmendWrite(r) ==
    /\ pc[r] = "amend"
    /\ \/ UpdateBack(held[r], [held[r].body EXCEPT !.tag = TRUE])
       \/ Faults /\ UNCHANGED store
    /\ Answer(r)
    /\ UNCHANGED <<pieces, rebVars, migVars, ops>>

\* DELETE of one version: the manifest first, then the pieces it named.
DeleteLoad(r, v) == "delete" \in ops /\ Load(r, v, "delManifest")

DeleteManifest(r) ==
    /\ pc[r] = "delManifest"
    /\ \/ StoreDelete(held[r].ver) /\ Goto(r, "delPieces") /\ UNCHANGED held
       \/ Faults /\ Answer(r) /\ UNCHANGED store
    /\ UNCHANGED <<pieces, rebVars, migVars, ops>>

DeletePieces(r) ==
    /\ pc[r] = "delPieces"
    /\ \E gone \in SUBSET PiecesOf(held[r].body) :
          /\ gone = PiecesOf(held[r].body) \/ Faults
          /\ pieces' = pieces \ gone
    /\ Answer(r)
    /\ UNCHANGED <<store, rebVars, migVars, ops>>

\* GET: a failed piece read of a migrating object tries Repair on piece 1,
\* which has something to do only when that piece is not on the primary.
GetLoad(r, v) ==
    /\ "get" \in ops
    /\ Stored(v) /\ body[v].gen > 1
    /\ body[v].pieces[1].at # "primary"
    /\ \/ Faults
       \/ <<body[v].pieces[1].id, body[v].pieces[1].at>> \notin pieces
    /\ Load(r, v, "repairCopy")

RepairCopy(r) ==
    /\ pc[r] = "repairCopy"
    /\ LET p == held[r].body.pieces[1]
       IN \/ /\ <<p.id, p.at>> \in pieces
             /\ pieces' = pieces \cup {<<p.id, "primary">>}
             /\ held' = [held EXCEPT ![r].body = MovePiece(@, 1)]
             /\ Goto(r, "repairWrite")
          \/ /\ <<p.id, p.at>> \notin pieces \/ Faults
             /\ Answer(r)
             /\ UNCHANGED pieces
    /\ UNCHANGED <<store, rebVars, migVars, ops>>

RepairWrite(r) ==
    /\ pc[r] = "repairWrite"
    /\ \/ PutBack(held[r], held[r].body)
       \/ Faults /\ UNCHANGED store
    /\ Answer(r)
    /\ UNCHANGED <<pieces, rebVars, migVars, ops>>

-----------------------------------------------------------------------------
(* The background rebalancer: runTarget over the one object listed.        *)

\* Mutant: the drain phase is not eligible.
eligibleNotDraining(m) == m.gen \in 2..3

eligible(m) == m.gen \in 2..4

Remote(m) == {i \in DOMAIN m.pieces : m.pieces[i].at = "source"}

\* runTarget goes on to its next manifest.
RebalanceNext == rebPc' = "idle" /\ reb' = NoManifest /\ rebDirty' = FALSE

RebalanceList(v) ==
    /\ "rebalance" \in ops
    /\ rebPc = "idle"
    /\ IsLatest(v) /\ Stored(v) /\ eligible(body[v])
    /\ reb' = ReadCopy(v, body[v])
    /\ rebDirty' = FALSE
    /\ rebPc' = "copy"
    /\ UNCHANGED <<store, pieces, client, migVars, ops>>

\* Mutant: the error of a copy is dropped and the locator changed.
RebalanceCopyUnchecked ==
    /\ rebPc = "copy" /\ Remote(reb.body) # {}
    /\ \E i \in Remote(reb.body) :
          /\ reb' = [reb EXCEPT !.body = MovePiece(@, i)]
          /\ \/ pieces' = pieces \cup {<<reb.body.pieces[i].id, "primary">>}
             \/ Faults /\ UNCHANGED pieces
    /\ rebDirty' = TRUE
    /\ UNCHANGED <<store, client, rebPc, migVars, ops>>

\* One iteration of rebalanceManifest's loop.  A failed read or write
\* abandons the manifest for this pass, and nothing is persisted.
RebalanceCopy ==
    /\ rebPc = "copy" /\ Remote(reb.body) # {}
    /\ LET i == Min(Remote(reb.body))
           id == reb.body.pieces[i].id
       IN \/ /\ <<id, "source">> \in pieces
             /\ pieces' = pieces \cup {<<id, "primary">>}
             /\ reb' = [reb EXCEPT !.body = MovePiece(@, i)]
             /\ rebDirty' = TRUE
             /\ UNCHANGED rebPc
          \/ /\ <<id, "source">> \notin pieces \/ Faults
             /\ RebalanceNext
             /\ UNCHANGED pieces
    /\ UNCHANGED <<store, client, migVars, ops>>

\* The end of the loop: a manifest with moved pieces is stored.
RebalancePersist ==
    /\ rebPc = "copy" /\ Remote(reb.body) = {}
    /\ \/ /\ IF rebDirty THEN PutBack(reb, reb.body) ELSE UNCHANGED store
          /\ reb' = IF rebDirty THEN ReadCopy(reb.ver, reb.body) ELSE reb
          /\ rebPc' = "advance"
          /\ UNCHANGED rebDirty
       \/ /\ Faults /\ rebDirty
          /\ RebalanceNext
          /\ UNCHANGED store
    /\ UNCHANGED <<pieces, client, migVars, ops>>

\* The phases are the generations 1 to 5, and every forward edge is one of
\* allowedTransitions.
nextPhase == [g \in 1..4 |-> g + 1]

\* Mutant: the check of advancePhase is gone.
AllOnPrimaryUnchecked(m) == TRUE

AllOnPrimary(m) == \A i \in DOMAIN m.pieces : m.pieces[i].at = "primary"

\* advancePhase: one phase forward, stored by a Put of its own, once every
\* piece is on the primary. A piece on a third backend holds it back.
RebalanceAdvance ==
    /\ rebPc = "advance"
    /\ \/ /\ AllOnPrimary(reb.body)
          /\ PutBack(reb, [reb.body EXCEPT !.gen = nextPhase[@]])
       \/ /\ Faults \/ ~AllOnPrimary(reb.body)
          /\ UNCHANGED store
    /\ RebalanceNext
    /\ UNCHANGED <<pieces, client, migVars, ops>>

-----------------------------------------------------------------------------
(* The AAD migrator: Sweep over one page of all stored versions.           *)

eligibility(m) == m.aad = "" /\ Len(m.pieces) = 1

MigrateScan ==
    /\ "aad" \in ops
    /\ migPc = "idle"
    /\ migTodo' = {ReadCopy(v, body[v]) :
                      v \in {u \in Versions : Stored(u) /\ eligibility(body[u])}}
    /\ migTodo' # {}
    /\ migPc' = "object"
    /\ UNCHANGED <<store, pieces, client, rebVars, mig, reseals, ops>>

MigrateEnd ==
    /\ migPc = "object" /\ migTodo = {}
    /\ migPc' = "idle"
    /\ UNCHANGED <<store, pieces, client, rebVars, mig, migTodo, reseals, ops>>

\* migrateOne returns, and Sweep goes on to the next object of the page.
MigrateNext == migPc' = "object" /\ mig' = NoManifest

OldPiece(c) == <<c.body.pieces[1].id, c.body.pieces[1].at>>

NewPiece(c) == <<<<c.ver, 1, reseals>>, c.body.pieces[1].at>>

\* The source piece is read, decrypted and re-encrypted.
MigrateRead(c) ==
    /\ migPc = "object" /\ c \in migTodo
    /\ migTodo' = migTodo \ {c}
    /\ \/ OldPiece(c) \in pieces /\ mig' = c /\ migPc' = "put"
       \/ /\ OldPiece(c) \notin pieces \/ Faults
          /\ UNCHANGED <<mig, migPc>>
    /\ UNCHANGED <<store, pieces, client, rebVars, reseals, ops>>

\* The new ciphertext is stored under a fresh piece id.
MigratePut ==
    /\ migPc = "put"
    /\ \/ /\ reseals < MaxReseals
          /\ reseals' = reseals + 1
          /\ pieces' = pieces \cup
                {<<<<mig.ver, 1, reseals'>>, mig.body.pieces[1].at>>}
          /\ migPc' = "switch"
          /\ UNCHANGED mig
       \/ /\ Faults
          /\ MigrateNext
          /\ UNCHANGED <<pieces, reseals>>
    /\ UNCHANGED <<store, client, rebVars, migTodo, ops>>

\* Mutant: the new AADVersion is not recorded.
ResealedUnrecorded(c) == [c.body EXCEPT !.pieces[1].id = NewPiece(c)[1]]

Resealed(c) == [c.body EXCEPT !.pieces[1].id = NewPiece(c)[1], !.aad = "v1"]

MigrateSwitch ==
    /\ migPc = "switch"
    /\ \/ PutBack(mig, Resealed(mig)) /\ migPc' = "reclaim"
       \/ Faults /\ migPc' = "undo" /\ UNCHANGED store
    /\ UNCHANGED <<pieces, client, rebVars, mig, migTodo, reseals, ops>>

\* A failed switch deletes the new piece, best effort.
MigrateUndo ==
    /\ migPc = "undo"
    /\ \/ pieces' = pieces \ {NewPiece(mig)}
       \/ Faults /\ UNCHANGED pieces
    /\ MigrateNext
    /\ UNCHANGED <<store, client, rebVars, migTodo, reseals, ops>>

\* A successful one deletes the old piece, best effort.
MigrateReclaim ==
    /\ migPc = "reclaim"
    /\ \/ pieces' = pieces \ {OldPiece(mig)}
       \/ Faults /\ UNCHANGED pieces
    /\ MigrateNext
    /\ UNCHANGED <<store, client, rebVars, migTodo, reseals, ops>>

-----------------------------------------------------------------------------

Step(r) ==
    \/ AmendWrite(r)
    \/ DeleteManifest(r) \/ DeletePieces(r)
    \/ RepairCopy(r) \/ RepairWrite(r)

Rebalance ==
    \/ \E v \in Versions : RebalanceList(v)
    \/ RebalanceCopy \/ RebalancePersist \/ RebalanceAdvance

Migrate ==
    \/ MigrateScan \/ MigrateEnd
    \/ \E c \in migTodo : MigrateRead(c)
    \/ MigratePut \/ MigrateSwitch \/ MigrateUndo \/ MigrateReclaim

Next ==
    \/ \E r \in Requests : PutObject(r) \/ PutMarker(r) \/ Step(r)
    \/ \E r \in Requests, v \in Versions :
          AmendLoad(r, v) \/ DeleteLoad(r, v) \/ GetLoad(r, v)
    \/ \E v \in Versions : BeginMigration(v)
    \/ Rebalance
    \/ Migrate

Spec == Init /\ [][Next]_vars

\* A handler that has started runs to its end; both workers are ticker
\* loops that go on while the gateway is up.
FairSpec ==
    /\ Spec
    /\ \A r \in Requests : WF_vars(Step(r))
    /\ WF_vars(Rebalance)
    /\ WF_vars(Migrate)

-----------------------------------------------------------------------------
(* Properties.                                                             *)

\* The order that defines the latest version holds each stored version once
\* and no other, whoever stores or removes it; the rest keep their domains.
TypeOK ==
    /\ body \in [Versions -> Manifest \cup {NoManifest, Marker}]
    /\ {order[k] : k \in DOMAIN order} = {v \in Versions : body[v] # NoManifest}
    /\ IsInjective(order)
    /\ pieces \subseteq PieceIds \X Backends
    /\ pc \in [Requests -> {"idle", "amend", "delManifest", "delPieces",
                            "repairCopy", "repairWrite", "done"}]
    /\ held \in [Requests -> Copy \cup {NoManifest}]
    /\ rebPc \in {"idle", "copy", "advance"}
    /\ reb \in Copy \cup {NoManifest}
    /\ rebDirty \in BOOLEAN
    /\ migPc \in {"idle", "object", "put", "switch", "undo", "reclaim"}
    /\ mig \in Copy \cup {NoManifest}
    /\ migTodo \subseteq Copy
    /\ reseals \in 0..MaxReseals
    /\ overwritten \subseteq Versions

Readable(v) == Stored(v) => PiecesOf(body[v]) \subseteq pieces

\* Every stored manifest names pieces that are stored where it says.
ManifestReadable == \A v \in Versions : Readable(v)

\* A version can become unreadable in one way only: a writer stores it from
\* a copy that another writer has changed or deleted in the meantime.  Short
\* of that every stored manifest names stored pieces, with all the writers
\* at work and every call failing at will: each of them stores a piece
\* before any manifest names it, DELETE and the AAD migrator remove a piece
\* only after the manifest that named it, and a failed copy moves nothing.
ReadableUnlessOverwritten ==
    \A v \in Versions \ overwritten : Readable(v)

\* A manifest past DualWrite has all its pieces on the primary backend:
\* advancePhase moves a copy forward only when its pieces are all there, and
\* every other writer carries phase and piece locations together, also when
\* it overwrites a newer manifest.
AdvancedMeansLocal ==
    \A v \in Versions : Stored(v) /\ body[v].gen > 2 =>
        \A p \in Range(body[v].pieces) : p.at = "primary"

\* A piece on a third backend is never moved, and keeps its manifest in
\* DualWrite.
Movable(m) == \A i \in DOMAIN m.pieces : m.pieces[i].at # "other"

\* A migrating version whose pieces are on the source and the primary and
\* that stays the latest reaches LocalOnly: each pass of the rebalancer
\* moves the manifest one phase forward, whatever is put and amended.  (An
\* amendment made from a copy older than the cut-over takes it back to
\* generation 1.)
MigrationCompletes ==
    \A v \in Versions :
        (Stored(v) /\ body[v].gen > 1 /\ Movable(body[v]) /\ IsLatest(v))
            ~> (~IsLatest(v) \/ (Stored(v) /\ body[v].gen \in {1, 5}))

\* Where the migrator runs, its sweeps upgrade every eligible legacy version
\* that is not deleted, whatever is put and deleted beside them.
FleetConvergesOnV1 ==
    \A v \in Range(Legacy) :
        ("aad" \in ops /\ Stored(v) /\ eligibility(body[v]))
            ~> (~Stored(v) \/ body[v].aad = "v1")

=============================================================================
