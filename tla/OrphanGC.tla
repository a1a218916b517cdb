------------------------------ MODULE OrphanGC ------------------------------
(***************************************************************************)
(* The background sweep over the content index, beside the requests of     *)
(* DedupStore. It walks a snapshot of the rows; a row whose piece no       *)
(* manifest names loses its piece first and then one unit of its count.    *)
(* Every store call of the sweep is an action, so requests run in between. *)
(***************************************************************************)
EXTENDS DedupStore

VARIABLES
    gcPc,       \* the next call of the sweep: idle, probe, piece, decrement or row
    gcTodo,     \* the entries of ScanAll still to look at
    gcEntry     \* the entry it is working on, NoRow between two

gcVars == <<gcPc, gcTodo, gcEntry>>
allVars == <<vars, gcVars>>

Entry == [hash : Hashes, piece : Requests]

HasManifestWithPieceID(p) == \E m \in manifests : m.piece = p

(* On to call p for the same entry, or to the next entry.                   *)
GoOn(p) == gcPc' = p /\ UNCHANGED gcEntry
NextEntry == gcPc' = "probe" /\ gcEntry' = NoRow

(* Sweep, sweepTenant: ScanAll returns a copy of the rows.                  *)
SweepScan ==
    /\ gcPc = "idle"
    /\ gcTodo' = {e \in Entry : HasRow(e.hash) /\ index[e.hash].piece = e.piece}
    /\ gcPc' = "probe"
    /\ UNCHANGED <<vars, gcEntry>>

SweepEnd ==
    /\ gcPc = "probe" /\ gcTodo = {}
    /\ gcPc' = "idle"
    /\ UNCHANGED <<vars, gcTodo, gcEntry>>

(* HasManifestWithPieceID: a live row, or a failed probe, is passed over.   *)
SweepProbe ==
    /\ gcPc = "probe"
    /\ \E e \in gcTodo :
          /\ gcTodo' = gcTodo \ {e}
          /\ \/ /\ ~HasManifestWithPieceID(e.piece)
                /\ gcEntry' = e
                /\ gcPc' = "piece"
             \/ /\ Faults \/ HasManifestWithPieceID(e.piece)
                /\ UNCHANGED <<gcEntry, gcPc>>
    /\ UNCHANGED vars

(* Mutant: a sweep that deletes every piece without a manifest.             *)
SweepAllPieces ==
    /\ gcPc = "piece"
    /\ pieces' = {p \in pieces : HasManifestWithPieceID(p)}
    /\ GoOn("decrement")
    /\ UNCHANGED <<index, manifests, pc, man, regime, gcTodo>>

(* DeletePiece; after an error the row is left for the next sweep, and on a *)
(* strict backend a piece that has gone is an error. Of a backend that is   *)
(* no longer registered only the row goes.                                  *)
SweepPiece ==
    /\ gcPc = "piece"
    /\ \/ /\ "strict" \notin regime \/ gcEntry.piece \in pieces
          /\ pieces' = pieces \ {gcEntry.piece}
          /\ GoOn("decrement")
       \/ /\ Faults \/ ("strict" \in regime /\ gcEntry.piece \notin pieces)
          /\ NextEntry
          /\ UNCHANGED pieces
       \/ Faults /\ GoOn("decrement") /\ UNCHANGED pieces
    /\ UNCHANGED <<index, manifests, pc, man, regime, gcTodo>>

(* Mutant: a DecrementRef without its refcount > 0 condition.               *)
SweepDecrementUnguarded ==
    /\ gcPc = "decrement"
    /\ IF HasRow(gcEntry.hash) THEN DecrementRef(gcEntry.hash) ELSE UNCHANGED index
    /\ GoOn("row")
    /\ UNCHANGED <<pieces, manifests, pc, man, regime, gcTodo>>

(* Mutant: a row with a count left is passed over before the decrement.     *)
SweepDecrementSkipsCounted ==
    /\ gcPc = "decrement"
    /\ IF HasRow(gcEntry.hash) /\ RefsOf(gcEntry.hash) = 0 THEN GoOn("row") ELSE NextEntry
    /\ UNCHANGED <<vars, gcTodo>>

(* DecrementRef, once: only a count that is now, or was already, zero goes  *)
(* on to the row; ErrNotFound, a remainder and an error end the entry.      *)
SweepDecrement ==
    /\ gcPc = "decrement"
    /\ LET h == gcEntry.hash
       IN \/ /\ RefsOf(h) > 0
             /\ DecrementRef(h)
             /\ IF RefsOf(h) = 1 THEN GoOn("row") ELSE NextEntry
          \/ /\ HasRow(h) /\ RefsOf(h) = 0
             /\ GoOn("row")
             /\ UNCHANGED index
          \/ /\ Faults \/ ~HasRow(h)
             /\ NextEntry
             /\ UNCHANGED index
    /\ UNCHANGED <<pieces, manifests, pc, man, regime, gcTodo>>

(* The conditional Delete of the row: a concurrent PUT may have revived it. *)
SweepRow ==
    /\ gcPc = "row"
    /\ LET h == gcEntry.hash
       IN \/ HasRow(h) /\ RefsOf(h) = 0 /\ DeleteRow(h)
          \/ /\ Faults \/ ~HasRow(h) \/ RefsOf(h) > 0
             /\ UNCHANGED index
    /\ NextEntry
    /\ UNCHANGED <<pieces, manifests, pc, man, regime, gcTodo>>

Sweep == SweepScan \/ SweepEnd \/ SweepProbe \/ SweepPiece \/ SweepDecrement \/ SweepRow

GCInit ==
    /\ Init
    /\ gcPc = "idle"
    /\ gcTodo = {}
    /\ gcEntry = NoRow

GCNext == (Next /\ UNCHANGED gcVars) \/ Sweep

GCSpec == GCInit /\ [][GCNext]_allVars

(* A sweep that goes on to its call p for the row of h, or changes the row. *)
SweepReaches(h, p) == Sweep /\ gcPc' = p /\ gcEntry'.hash = h
SweepChanges(h) == Sweep /\ index[h]' # index[h]

(* The sweep's ticker keeps firing, and a handler that has started runs on. *)
(* Of the stores it is assumed that their failures pass: a call that can    *)
(* succeed and is repeated sweep after sweep succeeds in the end.           *)
FairGCSpec ==
    /\ GCSpec
    /\ WF_allVars(Sweep)
    /\ \A h \in Hashes :
          /\ \A p \in {"piece", "decrement", "row"} : SF_allVars(SweepReaches(h, p))
          /\ SF_allVars(SweepChanges(h))
    /\ \A r \in Requests : WF_allVars(Step(r) /\ UNCHANGED gcVars)
-----------------------------------------------------------------------------
(* Properties.                                                              *)

(* The stores keep their shape beside the sweep, whose DecrementRef never   *)
(* takes a count below zero, and the sweep works on rows it has scanned.    *)
GCTypeOK ==
    /\ TypeOK
    /\ gcPc \in {"idle", "probe", "piece", "decrement", "row"}
    /\ gcTodo \subseteq Entry
    /\ gcEntry \in IF gcPc \in {"idle", "probe"} THEN {NoRow} ELSE Entry

(* The sweep never reaches an object outside the content index: the piece   *)
(* of every stored manifest without a content hash is on the backend        *)
(* whatever the sweep deletes, because no row it can have scanned names it. *)
SweepSparesPlainObjects == PlainManifestStored

(* On a backend that takes the deletion of a missing piece for a success, a *)
(* count that crashed or failed requests left too high does not keep its    *)
(* row for ever: once the requests are over, sweep after sweep takes one    *)
(* unit, until every row left has a manifest that names its piece. (On a    *)
(* strict backend the second sweep fails to delete the piece that the first *)
(* one deleted, and the row stays.)                                         *)
LeakedRowsDrain ==
    "strict" \notin regime =>
        <>[](\A h \in Hashes : HasRow(h) => HasManifestWithPieceID(index[h].piece))

(* orphan_gc.go, before DeletePiece: "No live manifest references this      *)
(* piece."                                                                  *)
DeletedPieceIsUnreferenced ==
    gcPc = "piece" => ~HasManifestWithPieceID(gcEntry.piece)
=============================================================================
