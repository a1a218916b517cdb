----------------------------- MODULE DedupStore -----------------------------
(***************************************************************************)
(* One tenant's objects: the PUT, COPY and DELETE handlers of the S3       *)
(* gateway over the three stores they keep consistent without a common     *)
(* transaction, the backend pieces, the manifests and the content index.   *)
(*                                                                         *)
(* A request is one call of a handler. A handler is cut where it calls a   *)
(* store, and each action is one such call together with the local code up *)
(* to the next one, so the requests interleave exactly between the calls.  *)
(* The content index is keyed by (tenant, hash) and a request never leaves *)
(* its tenant, so one tenant is the whole story.                           *)
(***************************************************************************)
EXTENDS Naturals, FiniteSets

CONSTANTS
    Requests,          \* the handler calls; each runs at most once
    Keys,              \* object keys
    Hashes,            \* content hashes of the dedup-eligible bodies
    NoHash,            \* an empty ContentHash: the object is not deduplicated
    NoRow,             \* the content index holds no row for the hash
    Regimes            \* the sets of conditions a gateway may run under

(* Store calls fail and requests are abandoned; clients retry a DELETE      *)
(* while it runs; the backend answers an error when a piece to delete is    *)
(* not there (local_fs_dev does, the S3 backends do not), which the         *)
(* handlers ignore and the sweep of OrphanGC does not.                      *)
Conditions == {"faults", "retries", "strict"}

ASSUME ConstantsAssumption ==
    /\ IsFiniteSet(Requests)
    /\ Keys # {}
    /\ NoHash \notin Hashes
    /\ NoRow \notin [piece : Requests, refs : Nat]
    /\ Regimes \subseteq SUBSET Conditions

VARIABLES
    pieces,     \* the pieces on the backend, each named by the request that mints it
    index,      \* the content index: hash -> row
    manifests,  \* the manifest store
    pc,         \* where each request stands
    man,        \* each request's local manifest: built by PUT and COPY, read by DELETE
    regime      \* the conditions of this gateway, fixed at the start

vars == <<pieces, index, manifests, pc, man, regime>>

Faults == "faults" \in regime

DuplicateDeletes == "retries" \in regime

Row == [piece : Requests, refs : Nat]

(* Version IDs. A dedup-eligible PUT mints one from the clock. Any other    *)
(* PUT and COPY use the ID of the object's piece, which a refcount-only     *)
(* copy shares with its source.                                             *)
Versions == {"minted", "piece"} \X Requests

Manifest == [key : Keys, ver : Versions, hash : Hashes \cup {NoHash}, piece : Requests]

Labels == {"new", "increment", "putPiece", "register", "raceIncrement",
           "dropDuplicate", "canonical", "manifest", "rollback", "undoPiece",
           "delManifest", "decrement", "delRow", "delPieces",
           "copyIncrement", "copyPiece", "done"}

Goto(r, l) == pc' = [pc EXCEPT ![r] = l]

(* The request's local manifest becomes the one given field by field.       *)
Hold(r, k, v, h, p) ==
    man' = [man EXCEPT ![r] = [key |-> k, ver |-> v, hash |-> h, piece |-> p]]

-----------------------------------------------------------------------------
(* The content index store: each operation is atomic in the store.          *)

HasRow(h) == index[h] # NoRow

RefsOf(h) == IF HasRow(h) THEN index[h].refs ELSE 0

SetRow(h, p, n) == index' = [index EXCEPT ![h] = [piece |-> p, refs |-> n]]

IncrementRef(h) == SetRow(h, index[h].piece, index[h].refs + 1)

DecrementRef(h) == SetRow(h, index[h].piece, index[h].refs - 1)

Register(h, p) == SetRow(h, p, 1)

DeleteRow(h) == index' = [index EXCEPT ![h] = NoRow]

(* The manifest store replaces a manifest with the same key and version.    *)
PutManifest(m) ==
    manifests' = {x \in manifests : <<x.key, x.ver>> # <<m.key, m.ver>>} \cup {m}

-----------------------------------------------------------------------------
(* PUT.                                                                     *)

(* A dedup-eligible PUT: body hashed and encrypted, then Lookup.            *)
PutLookup(r, k, h) ==
    /\ pc[r] = "new"
    /\ \/ /\ HasRow(h)
          /\ Hold(r, k, <<"minted", r>>, h, index[h].piece)
          /\ Goto(r, "increment")
       \/ /\ ~HasRow(h)
          /\ Hold(r, k, <<"minted", r>>, h, r)
          /\ Goto(r, "putPiece")
    /\ UNCHANGED <<pieces, index, manifests, regime>>

(* A PUT outside the dedup policy.                                          *)
PutPlain(r, k) ==
    /\ pc[r] = "new"
    /\ Hold(r, k, <<"piece", r>>, NoHash, r)
    /\ Goto(r, "putPiece")
    /\ UNCHANGED <<pieces, index, manifests, regime>>

(* The hit: IncrementRef on the row that Lookup saw, or on its successor.   *)
(* A row that has gone is ErrNotFound, answered 500.                        *)
PutIncrement(r) ==
    /\ pc[r] = "increment"
    /\ \/ /\ HasRow(man[r].hash)
          /\ IncrementRef(man[r].hash)
          /\ Goto(r, "manifest")
       \/ /\ Faults \/ ~HasRow(man[r].hash)
          /\ Goto(r, "done")
          /\ UNCHANGED index
    /\ UNCHANGED <<pieces, manifests, man, regime>>

(* PutPiece. A plain body that ends short is rolled back.                   *)
PutPiece(r) ==
    /\ pc[r] = "putPiece"
    /\ \/ /\ pieces' = pieces \cup {r}
          /\ \/ Goto(r, IF man[r].hash = NoHash THEN "manifest" ELSE "register")
             \/ Faults /\ man[r].hash = NoHash /\ Goto(r, "undoPiece")
       \/ Faults /\ Goto(r, "done") /\ UNCHANGED pieces
    /\ UNCHANGED <<index, manifests, man, regime>>

(* registerDedupedPiece, first call: the first uploader publishes its piece. *)
PutRegister(r) ==
    /\ pc[r] = "register"
    /\ \/ /\ ~HasRow(man[r].hash)
          /\ Register(man[r].hash, man[r].piece)
          /\ Goto(r, "manifest")
       \/ /\ HasRow(man[r].hash)
          /\ Goto(r, "raceIncrement")
          /\ UNCHANGED index
       \/ Faults /\ Goto(r, "undoPiece") /\ UNCHANGED index
    /\ UNCHANGED <<pieces, manifests, man, regime>>

(* Mutant: the loser of the Register race takes no reference.               *)
PutRaceUncounted(r) ==
    /\ pc[r] = "raceIncrement"
    /\ Goto(r, "dropDuplicate")
    /\ UNCHANGED <<pieces, index, manifests, man, regime>>

(* registerDedupedPiece, the race lost: take a reference on the winner.     *)
PutRaceIncrement(r) ==
    /\ pc[r] = "raceIncrement"
    /\ \/ /\ HasRow(man[r].hash)
          /\ IncrementRef(man[r].hash)
          /\ Goto(r, "dropDuplicate")
       \/ /\ Faults \/ ~HasRow(man[r].hash)
          /\ Goto(r, "undoPiece")
          /\ UNCHANGED index
    /\ UNCHANGED <<pieces, manifests, man, regime>>

(* The loser drops its own copy; the error of DeletePiece is ignored.       *)
PutDropDuplicate(r) ==
    /\ pc[r] = "dropDuplicate"
    /\ \/ pieces' = pieces \ {r}
       \/ Faults /\ UNCHANGED pieces
    /\ Goto(r, "canonical")
    /\ UNCHANGED <<index, manifests, man, regime>>

(* The loser's second Lookup, under the reference it now holds.             *)
PutCanonical(r) ==
    /\ pc[r] = "canonical"
    /\ \/ /\ HasRow(man[r].hash)
          /\ Hold(r, man[r].key, man[r].ver, man[r].hash, index[man[r].hash].piece)
          /\ Goto(r, "manifest")
       \/ /\ Faults \/ ~HasRow(man[r].hash)
          /\ Goto(r, "rollback")
          /\ UNCHANGED man
    /\ UNCHANGED <<pieces, index, manifests, regime>>

(* The default-retention read and Manifests.Put; a failure of either gives  *)
(* back the reference, or the piece of an object that is not deduplicated.  *)
WriteManifest(r) ==
    /\ pc[r] = "manifest"
    /\ \/ PutManifest(man[r]) /\ Goto(r, "done")
       \/ /\ Faults
          /\ Goto(r, IF man[r].hash = NoHash THEN "undoPiece" ELSE "rollback")
          /\ UNCHANGED manifests
    /\ UNCHANGED <<pieces, index, man, regime>>

(* The rollback's DecrementRef; its result is ignored, so the row stays     *)
(* when the count reaches zero.                                             *)
Rollback(r) ==
    /\ pc[r] = "rollback"
    /\ \/ RefsOf(man[r].hash) > 0 /\ DecrementRef(man[r].hash)
       \/ /\ Faults \/ RefsOf(man[r].hash) = 0
          /\ UNCHANGED index
    /\ Goto(r, "done")
    /\ UNCHANGED <<pieces, manifests, man, regime>>

(* The best-effort DeletePiece of a piece that no row and no manifest names. *)
UndoPiece(r) ==
    /\ pc[r] = "undoPiece"
    /\ \/ pieces' = pieces \ {r}
       \/ Faults /\ UNCHANGED pieces
    /\ Goto(r, "done")
    /\ UNCHANGED <<index, manifests, man, regime>>

-----------------------------------------------------------------------------
(* COPY.                                                                    *)

(* Manifests.Get of the source; r keeps it under the destination's key.     *)
CopyGet(r, m, k) ==
    /\ pc[r] = "new"
    /\ Hold(r, k, m.ver, m.hash, m.piece)
    /\ Goto(r, IF m.hash = NoHash THEN "copyPiece" ELSE "copyIncrement")
    /\ UNCHANGED <<pieces, index, manifests, regime>>

(* The refcount-only copy: the destination's version is the shared piece's ID. *)
CopyIncrement(r) ==
    /\ pc[r] = "copyIncrement"
    /\ \/ /\ HasRow(man[r].hash)
          /\ IncrementRef(man[r].hash)
          /\ Hold(r, man[r].key, <<"piece", man[r].piece>>, man[r].hash, man[r].piece)
          /\ Goto(r, "manifest")
       \/ /\ ~HasRow(man[r].hash)
          /\ Goto(r, "copyPiece")
          /\ UNCHANGED <<index, man>>
       \/ Faults /\ Goto(r, "done") /\ UNCHANGED <<index, man>>
    /\ UNCHANGED <<pieces, manifests, regime>>

(* The copy of the bytes (CopyPiece, or GetPiece and PutPiece): a missing   *)
(* source is answered 502, and the new piece is outside the content index.  *)
CopyPiece(r) ==
    /\ pc[r] = "copyPiece"
    /\ \/ /\ man[r].piece \in pieces
          /\ pieces' = pieces \cup {r}
          /\ Hold(r, man[r].key, <<"piece", r>>, NoHash, r)
          /\ Goto(r, "manifest")
       \/ /\ Faults \/ man[r].piece \notin pieces
          /\ Goto(r, "done")
          /\ UNCHANGED <<pieces, man>>
    /\ UNCHANGED <<index, manifests, regime>>

-----------------------------------------------------------------------------
(* DELETE of a stored version.                                              *)

BeingDeleted(m) == \E r \in Requests : pc[r] = "delManifest" /\ man[r] = m

(* Manifests.Get. Nothing in the handler stops a second DELETE of the same  *)
(* version here; the regime says whether the clients send one.              *)
DeleteGet(r, m) ==
    /\ pc[r] = "new"
    /\ DuplicateDeletes \/ ~BeingDeleted(m)
    /\ man' = [man EXCEPT ![r] = m]
    /\ Goto(r, "delManifest")
    /\ UNCHANGED <<pieces, index, manifests, regime>>

(* Mutant: the error of Manifests.Delete does not end the request.          *)
DeleteManifestUnchecked(r) ==
    /\ pc[r] = "delManifest"
    /\ \/ manifests' = {x \in manifests : <<x.key, x.ver>> # <<man[r].key, man[r].ver>>}
       \/ Faults /\ UNCHANGED manifests
    /\ Goto(r, IF man[r].hash = NoHash THEN "delPieces" ELSE "decrement")
    /\ UNCHANGED <<pieces, index, man, regime>>

(* Manifests.Delete, before any piece goes. ErrNotFound is tolerated.       *)
DeleteManifest(r) ==
    /\ pc[r] = "delManifest"
    /\ \/ /\ manifests' = {x \in manifests : <<x.key, x.ver>> # <<man[r].key, man[r].ver>>}
          /\ Goto(r, IF man[r].hash = NoHash THEN "delPieces" ELSE "decrement")
       \/ Faults /\ Goto(r, "done") /\ UNCHANGED manifests
    /\ UNCHANGED <<pieces, index, man, regime>>

(* Mutant: a DecrementRef without its refcount > 0 condition.               *)
DeleteDecrementUnguarded(r) ==
    /\ pc[r] = "decrement"
    /\ IF HasRow(man[r].hash) THEN DecrementRef(man[r].hash) ELSE UNCHANGED index
    /\ Goto(r, IF RefsOf(man[r].hash) = 1 THEN "delRow" ELSE "done")
    /\ UNCHANGED <<pieces, manifests, man, regime>>

(* Mutant: the last DELETE removes the piece and leaves the row.            *)
DeleteDecrementPieceFirst(r) ==
    /\ pc[r] = "decrement"
    /\ IF RefsOf(man[r].hash) > 0 THEN DecrementRef(man[r].hash) ELSE UNCHANGED index
    /\ Goto(r, IF RefsOf(man[r].hash) <= 1 THEN "delPieces" ELSE "done")
    /\ UNCHANGED <<pieces, manifests, man, regime>>

(* Mutant: the count compared with zero before it is decremented.           *)
DeleteDecrementOffByOne(r) ==
    /\ pc[r] = "decrement"
    /\ IF RefsOf(man[r].hash) > 0 THEN DecrementRef(man[r].hash) ELSE UNCHANGED index
    /\ Goto(r, IF RefsOf(man[r].hash) = 0 THEN "delRow" ELSE "done")
    /\ UNCHANGED <<pieces, manifests, man, regime>>

(* DecrementRef: only the call that brings the count to zero goes on to the *)
(* row; a missing row sends the pieces to best-effort cleanup.              *)
DeleteDecrement(r) ==
    /\ pc[r] = "decrement"
    /\ \/ /\ RefsOf(man[r].hash) > 0
          /\ DecrementRef(man[r].hash)
          /\ Goto(r, IF RefsOf(man[r].hash) = 1 THEN "delRow" ELSE "done")
       \/ ~HasRow(man[r].hash) /\ Goto(r, "delPieces") /\ UNCHANGED index
       \/ /\ HasRow(man[r].hash)
          /\ Faults \/ RefsOf(man[r].hash) = 0
          /\ Goto(r, "done")
          /\ UNCHANGED index
    /\ UNCHANGED <<pieces, manifests, man, regime>>

(* The conditional Delete of the row, which an upload may have revived.     *)
DeleteIndexRow(r) ==
    /\ pc[r] = "delRow"
    /\ \/ /\ HasRow(man[r].hash) /\ RefsOf(man[r].hash) = 0
          /\ DeleteRow(man[r].hash)
          /\ Goto(r, "delPieces")
       \/ /\ Faults \/ ~HasRow(man[r].hash) \/ RefsOf(man[r].hash) > 0
          /\ Goto(r, "done")
          /\ UNCHANGED index
    /\ UNCHANGED <<pieces, manifests, man, regime>>

(* deletePiecesBestEffort: a failed DeletePiece leaves an orphan.           *)
DeletePieces(r) ==
    /\ pc[r] = "delPieces"
    /\ \/ pieces' = pieces \ {man[r].piece}
       \/ Faults /\ UNCHANGED pieces
    /\ Goto(r, "done")
    /\ UNCHANGED <<index, manifests, man, regime>>

-----------------------------------------------------------------------------
(* A crash of the gateway, or a client that goes away (every call runs      *)
(* under the request's context), ends a request between two of its calls.   *)
Abandon(r) ==
    /\ Faults
    /\ pc[r] \notin {"new", "done"}
    /\ Goto(r, "done")
    /\ UNCHANGED <<pieces, index, manifests, man, regime>>

Init ==
    /\ pieces = {}
    /\ index = [h \in Hashes |-> NoRow]
    /\ manifests = {}
    /\ pc = [r \in Requests |-> "new"]
    /\ man = [r \in Requests |-> [key |-> CHOOSE k \in Keys : TRUE,
                                 ver |-> <<"minted", r>>, hash |-> NoHash, piece |-> r]]
    /\ regime \in Regimes

Start(r) ==
    \/ \E k \in Keys, h \in Hashes : PutLookup(r, k, h)
    \/ \E k \in Keys : PutPlain(r, k)
    \/ \E m \in manifests, k \in Keys : CopyGet(r, m, k)
    \/ \E m \in manifests : DeleteGet(r, m)

Step(r) ==
    \/ PutIncrement(r)
    \/ PutPiece(r)
    \/ PutRegister(r)
    \/ PutRaceIncrement(r)
    \/ PutDropDuplicate(r)
    \/ PutCanonical(r)
    \/ WriteManifest(r)
    \/ Rollback(r)
    \/ UndoPiece(r)
    \/ CopyIncrement(r)
    \/ CopyPiece(r)
    \/ DeleteManifest(r)
    \/ DeleteDecrement(r)
    \/ DeleteIndexRow(r)
    \/ DeletePieces(r)

Next == \E r \in Requests : Start(r) \/ Step(r) \/ Abandon(r)

Spec == Init /\ [][Next]_vars

-----------------------------------------------------------------------------
(* Properties.                                                              *)

(* The stores keep their shape; in particular no count drops below zero.    *)
TypeOK ==
    /\ pieces \subseteq Requests
    /\ index \in [Hashes -> Row \cup {NoRow}]
    /\ manifests \subseteq Manifest
    /\ pc \in [Requests -> Labels]
    /\ man \in [Requests -> Manifest]
    /\ regime \in Regimes

(* The content index never names a piece that has been removed: DELETE      *)
(* drops the row before the piece, the loser of a Register race drops only  *)
(* its own unpublished copy, and a rollback never deletes a registered      *)
(* piece. Otherwise every later upload of the content would be lost.        *)
RowPieceStored == \A h \in Hashes : HasRow(h) => index[h].piece \in pieces

(* An object outside the dedup index owns its piece: no handler, on any     *)
(* error path, removes the piece while the manifest is stored.              *)
PlainManifestStored ==
    \A m \in manifests : m.hash = NoHash => m.piece \in pieces

(* The requests that own one unit of the count of h: an upload between its  *)
(* increment (or Register) and its manifest or rollback, and a DELETE       *)
(* between the manifest's removal and its DecrementRef.                     *)
Holders(h) ==
    {r \in Requests : /\ man[r].hash = h
                      /\ pc[r] \in {"dropDuplicate", "canonical", "manifest",
                                    "rollback", "decrement"}}

Referrers(h) == {m \in manifests : m.hash = h}

(* The count is never below the manifests that share the piece and the      *)
(* requests in between, whatever fails or is abandoned, as long as no two   *)
(* DELETEs of one version overlap. So a count of zero really means the last *)
(* reference, DELETE may drop the row, and a DELETE or a rollback that owns *)
(* a unit finds it.                                                         *)
RefsCoverReferences ==
    ~DuplicateDeletes =>
        \A h \in Hashes : RefsOf(h) >= Cardinality(Referrers(h)) + Cardinality(Holders(h))

(* When nothing fails and no two DELETEs of one version overlap, a row      *)
(* whose count is zero has a DELETE on its way to remove it: no row, and no *)
(* piece under it, is left behind by the races between DecrementRef,        *)
(* IncrementRef and the conditional Delete.                                 *)
NoStrandedRow ==
    ~Faults /\ ~DuplicateDeletes =>
        \A h \in Hashes : HasRow(h) /\ RefsOf(h) = 0 =>
            \E r \in Requests : pc[r] = "delRow" /\ man[r].hash = h

(* handler.go: the manifest is deleted first "rather than a zombie manifest *)
(* pointing at pieces that no longer exist".                                *)
NoZombieManifest == \A m \in manifests : m.piece \in pieces
-----------------------------------------------------------------------------
(* The strengthening that makes the storage invariants inductive.           *)

(* Somebody other than its own request can reach the piece p.               *)
Named(p) ==
    \/ \E h \in Hashes : HasRow(h) /\ index[h].piece = p
    \/ \E m \in manifests : m.piece = p
    \/ \E r \in Requests : r # p /\ man[r].piece = p

(* A request's own piece, and the hash it works under, by label.            *)
OwnPiece ==
    \A r \in Requests :
        /\ pc[r] \in {"new", "putPiece", "register", "raceIncrement",
                      "dropDuplicate", "undoPiece"} => man[r].piece = r
        /\ pc[r] \in {"increment", "register", "raceIncrement", "dropDuplicate",
                      "canonical", "rollback", "decrement", "delRow", "copyIncrement"}
              => man[r].hash \in Hashes
        /\ pc[r] = "manifest" /\ man[r].hash = NoHash => man[r].piece = r
        /\ pc[r] = "register" \/ (pc[r] = "manifest" /\ man[r].hash = NoHash)
              => r \in pieces

(* A piece is private until its request has registered it or written it     *)
(* into a manifest, and after that the request only finishes.               *)
PrivateUntilPublished ==
    \A p \in Requests : Named(p) =>
        \/ pc[p] \in {"rollback", "done"}
        \/ pc[p] = "manifest" /\ man[p].hash # NoHash

(* Whoever names a piece works under the hash it was uploaded with.         *)
HashOfPiece ==
    /\ \A h \in Hashes : HasRow(h) => man[index[h].piece].hash = h
    /\ \A m \in manifests : man[m.piece].hash = m.hash
    /\ \A r \in Requests : man[man[r].piece].hash = man[r].hash

(* A plain piece belongs to one manifest only.                              *)
PlainPieceUnshared ==
    /\ \A m \in manifests : m.hash = NoHash => m = man[m.piece]
    /\ \A r \in Requests : pc[r] \in {"delManifest", "delPieces"} /\ man[r].hash = NoHash
          => man[r] = man[man[r].piece]

(* By the time DELETE removes a piece, no row names it, and no manifest     *)
(* does when the piece is a plain one.                                      *)
DoomedPieces ==
    \A r \in Requests : pc[r] = "delPieces" =>
        /\ \A h \in Hashes : HasRow(h) => index[h].piece # man[r].piece
        /\ man[r].hash = NoHash => \A m \in manifests : m.piece # man[r].piece

StorageInv ==
    /\ TypeOK
    /\ RowPieceStored
    /\ PlainManifestStored
    /\ OwnPiece
    /\ PrivateUntilPublished
    /\ HashOfPiece
    /\ PlainPieceUnshared
    /\ DoomedPieces
=============================================================================
