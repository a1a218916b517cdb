-------------------------- MODULE DedupStoreProofs --------------------------
(* Machine-checked proofs about DedupStore, for every set of requests, keys *)
(* and hashes, in every regime of faults and overlapping DELETEs.           *)
EXTENDS DedupStore, TLAPS

(* The rows of the index, as the actions read them: a row that exists has   *)
(* its type, and a positive count means that the row exists.                *)
LEMMA RowTyped ==
    ASSUME TypeOK, NEW h \in Hashes
    PROVE  /\ HasRow(h) => index[h] \in Row
           /\ RefsOf(h) \in Nat
           /\ RefsOf(h) > 0 => HasRow(h) /\ RefsOf(h) = index[h].refs
BY DEF TypeOK, HasRow, RefsOf, Row

(* The gateway starts with empty stores, which are well typed.              *)
LEMMA TypeInit == Init => TypeOK
<1> SUFFICES ASSUME Init PROVE TypeOK
    OBVIOUS
<1>1. (CHOOSE k \in Keys : TRUE) \in Keys
    BY ConstantsAssumption
<1> QED
    BY <1>1 DEF Init, TypeOK, Manifest, Versions, Labels

(* Every call of a handler keeps the types, given that the requests that    *)
(* work on the index hold a content hash.                                   *)
LEMMA TypeStep ==
    ASSUME TypeOK, NEW r \in Requests,
           pc[r] \in {"increment", "register", "raceIncrement", "dropDuplicate",
                      "canonical", "rollback", "decrement", "delRow", "copyIncrement"}
              => man[r].hash \in Hashes,
           Start(r) \/ Step(r) \/ Abandon(r)
    PROVE  TypeOK'
<1> USE DEF Goto, Hold, SetRow
<1>1. ASSUME NEW k \in Keys, NEW h \in Hashes, PutLookup(r, k, h) PROVE TypeOK'
    BY <1>1, RowTyped DEF PutLookup, TypeOK, Manifest, Versions, Labels, Row
<1>2. ASSUME NEW k \in Keys, PutPlain(r, k) PROVE TypeOK'
    BY <1>2 DEF PutPlain, TypeOK, Manifest, Versions, Labels
<1>3. ASSUME NEW m \in manifests, NEW k \in Keys, CopyGet(r, m, k) PROVE TypeOK'
    BY <1>3 DEF CopyGet, TypeOK, Manifest, Labels
<1>4. ASSUME NEW m \in manifests, DeleteGet(r, m) PROVE TypeOK'
    BY <1>4 DEF DeleteGet, TypeOK, Manifest, Labels
<1>5. CASE PutIncrement(r)
    BY <1>5, RowTyped DEF PutIncrement, IncrementRef, TypeOK, Labels, Row
<1>6. CASE PutPiece(r)
    BY <1>6 DEF PutPiece, TypeOK, Labels
<1>7. CASE PutRegister(r)
    BY <1>7, RowTyped DEF PutRegister, Register, TypeOK, Labels, Row, Manifest
<1>8. CASE PutRaceIncrement(r)
    BY <1>8, RowTyped DEF PutRaceIncrement, IncrementRef, TypeOK, Labels, Row
<1>9. CASE PutDropDuplicate(r)
    BY <1>9 DEF PutDropDuplicate, TypeOK, Labels
<1>10. CASE PutCanonical(r)
    BY <1>10, RowTyped DEF PutCanonical, TypeOK, Labels, Row, Manifest
<1>11. CASE WriteManifest(r)
    BY <1>11 DEF WriteManifest, PutManifest, TypeOK, Labels
<1>12. CASE Rollback(r)
    BY <1>12, RowTyped DEF Rollback, DecrementRef, TypeOK, Labels, Row
<1>13. CASE UndoPiece(r)
    BY <1>13 DEF UndoPiece, TypeOK, Labels
<1>14. CASE CopyIncrement(r)
  <2> DEFINE m == [key |-> man[r].key, ver |-> <<"piece", man[r].piece>>,
                   hash |-> man[r].hash, piece |-> man[r].piece]
  <2>1. CASE /\ HasRow(man[r].hash)
             /\ IncrementRef(man[r].hash)
             /\ man' = [man EXCEPT ![r] = m]
    <3>1. man[r].hash \in Hashes /\ index[man[r].hash] \in Row
        BY <1>14, <2>1, RowTyped DEF CopyIncrement
    <3>2. index' \in [Hashes -> Row \cup {NoRow}]
        BY <2>1, <3>1 DEF IncrementRef, TypeOK, Row
    <3>3. man[r] \in Manifest
        BY DEF TypeOK
    <3>4. m \in Manifest
        BY <3>3 DEF Manifest, Versions
    <3> HIDE DEF m
    <3>5. man' \in [Requests -> Manifest]
        BY <2>1, <3>4 DEF TypeOK
    <3>6. pc' \in [Requests -> Labels]
        BY <1>14 DEF CopyIncrement, TypeOK, Labels
    <3> QED
        BY <1>14, <3>2, <3>5, <3>6 DEF CopyIncrement, TypeOK
  <2>2. CASE UNCHANGED <<index, man>>
    BY <1>14, <2>2 DEF CopyIncrement, TypeOK, Labels
  <2> QED
    BY <1>14, <2>1, <2>2 DEF CopyIncrement
<1>15. CASE CopyPiece(r)
    BY <1>15 DEF CopyPiece, TypeOK, Labels, Manifest, Versions
<1>16. CASE DeleteManifest(r)
    BY <1>16 DEF DeleteManifest, TypeOK, Labels
<1>17. CASE DeleteDecrement(r)
    BY <1>17, RowTyped DEF DeleteDecrement, DecrementRef, TypeOK, Labels, Row
<1>18. CASE DeleteIndexRow(r)
    BY <1>18 DEF DeleteIndexRow, DeleteRow, TypeOK, Labels
<1>19. CASE DeletePieces(r)
    BY <1>19 DEF DeletePieces, TypeOK, Labels
<1>20. CASE Abandon(r)
    BY <1>20 DEF Abandon, TypeOK, Labels
<1> QED
    BY <1>1, <1>2, <1>3, <1>4, <1>5, <1>6, <1>7, <1>8, <1>9, <1>10, <1>11, <1>12, <1>13,
       <1>14, <1>15, <1>16, <1>17, <1>18, <1>19, <1>20 DEF Start, Step

(* One call of one handler preserves the storage invariant: one case per    *)
(* action, one step per conjunct.                                           *)
LEMMA StorageStep ==
    ASSUME StorageInv, NEW r \in Requests, Start(r) \/ Step(r) \/ Abandon(r)
    PROVE  StorageInv'
<1> USE DEF Goto, Hold, SetRow, HasRow, StorageInv
<1>t. TypeOK'
    BY TypeStep DEF OwnPiece
<1>1. ASSUME NEW k \in Keys, NEW h \in Hashes, PutLookup(r, k, h) PROVE StorageInv'
  <2>b. \A p \in Requests : Named(p)' => Named(p)
    BY <1>1 DEF Named, TypeOK, Row, PutLookup
  <2>c. ~Named(r)
    BY <1>1 DEF PrivateUntilPublished, PutLookup
  <2>d. \A q \in Requests \ {r} : man[q].piece # r /\ man'[q] = man[q] /\ pc'[q] = pc[q]
    BY <1>1, <2>c DEF Named, TypeOK, PutLookup
  <2>e. /\ \A g \in Hashes : HasRow(g) => index[g].piece # r
        /\ \A x \in manifests : x.piece # r
    BY <2>c DEF Named
  <2>1. RowPieceStored'
    BY <1>1 DEF RowPieceStored, PutLookup
  <2>2. PlainManifestStored'
    BY <1>1 DEF PlainManifestStored, PutLookup
  <2>3. OwnPiece'
    BY <1>1 DEF OwnPiece, TypeOK, PutLookup
  <2>4. PrivateUntilPublished'
    BY <1>1, <2>b, <2>d DEF PrivateUntilPublished, PutLookup
  <2>5. HashOfPiece'
    <3>1. man'[r].hash = h /\ man'[r].piece \in Requests
      BY <1>1 DEF PutLookup, TypeOK, Row, Manifest
    <3>2. man'[r].piece = r \/ (man'[r].piece # r /\ man[man'[r].piece].hash = h)
      BY <1>1 DEF PutLookup, TypeOK, HashOfPiece
    <3>3. \A p \in Requests : p # r => man'[p] = man[p]
      BY <2>d
    <3>4. UNCHANGED <<index, manifests>>
      BY <1>1 DEF PutLookup
    <3>5. man'[man'[r].piece].hash = man'[r].hash
      BY <3>1, <3>2, <3>3
    <3>6. \A q \in Requests \ {r} : man[q].piece \in Requests \ {r}
      BY <2>d DEF TypeOK, Manifest
    <3>7. \A x \in manifests : x.piece \in Requests \ {r}
      BY <2>e DEF TypeOK, Manifest
    <3>8. \A g \in Hashes : HasRow(g) => index[g].piece \in Requests \ {r}
      BY <2>e, RowTyped DEF TypeOK, Row
    <3>9. \A q \in Requests : man'[man'[q].piece].hash = man'[q].hash
      BY <3>3, <3>5, <3>6 DEF HashOfPiece
    <3> QED
      BY <3>3, <3>4, <3>7, <3>8, <3>9 DEF HashOfPiece
  <2>6. PlainPieceUnshared'
    BY <1>1, <2>d, <2>e DEF PlainPieceUnshared, TypeOK, Manifest, PutLookup
  <2>7. DoomedPieces'
    <3> SUFFICES ASSUME NEW q \in Requests, pc'[q] = "delPieces"
                 PROVE  /\ \A g \in Hashes : HasRow(g)' => index'[g].piece # man'[q].piece
                        /\ man'[q].hash = NoHash
                              => \A x \in manifests' : x.piece # man'[q].piece
      BY DEF DoomedPieces
    <3>1. q # r /\ pc[q] = "delPieces" /\ man'[q] = man[q]
      BY <1>1 DEF TypeOK, PutLookup
    <3>2. UNCHANGED <<manifests, index>>
      BY <1>1 DEF PutLookup
    <3> QED
      BY <3>1, <3>2 DEF DoomedPieces
  <2> QED
    BY <1>t, <2>1, <2>2, <2>3, <2>4, <2>5, <2>6, <2>7
<1>2. ASSUME NEW k \in Keys, PutPlain(r, k) PROVE StorageInv'
  <2>1. RowPieceStored'
    BY <1>2 DEF RowPieceStored, PutPlain
  <2>2. PlainManifestStored'
    BY <1>2 DEF PlainManifestStored, PutPlain
  <2>3. OwnPiece'
    BY <1>2 DEF OwnPiece, PutPlain
  <2>4. PrivateUntilPublished'
    BY <1>2 DEF PrivateUntilPublished, PutPlain, Named
  <2>5. HashOfPiece'
    BY <1>2 DEF HashOfPiece, PrivateUntilPublished, PutPlain, Named
  <2>6. PlainPieceUnshared'
    BY <1>2 DEF PlainPieceUnshared, PrivateUntilPublished, PutPlain, Named
  <2>7. DoomedPieces'
    BY <1>2 DEF DoomedPieces, PutPlain
  <2> QED
    BY <1>t, <2>1, <2>2, <2>3, <2>4, <2>5, <2>6, <2>7
<1>3. ASSUME NEW m \in manifests, NEW k \in Keys, CopyGet(r, m, k) PROVE StorageInv'
  <2>b. \A p \in Requests : Named(p)' => Named(p)
    BY <1>3 DEF Named, CopyGet
  <2>c. ~Named(r)
    BY <1>3 DEF PrivateUntilPublished, CopyGet
  <2>d. \A q \in Requests \ {r} : man[q].piece # r /\ man'[q] = man[q] /\ pc'[q] = pc[q]
    BY <1>3, <2>c DEF Named, TypeOK, CopyGet
  <2>e. /\ \A g \in Hashes : HasRow(g) => index[g].piece # r
        /\ \A x \in manifests : x.piece # r
    BY <2>c DEF Named
  <2>1. RowPieceStored'
    BY <1>3 DEF RowPieceStored, CopyGet
  <2>2. PlainManifestStored'
    BY <1>3 DEF PlainManifestStored, CopyGet
  <2>3. OwnPiece'
    BY <1>3 DEF OwnPiece, TypeOK, Manifest, CopyGet
  <2>4. PrivateUntilPublished'
    BY <1>3, <2>b DEF PrivateUntilPublished, CopyGet
  <2>5. HashOfPiece'
    BY <1>3, <2>d, <2>e DEF HashOfPiece, CopyGet
  <2>6. PlainPieceUnshared'
    BY <1>3, <2>d, <2>e DEF PlainPieceUnshared, CopyGet
  <2>7. DoomedPieces'
    BY <1>3 DEF DoomedPieces, CopyGet
  <2> QED
    BY <1>t, <2>1, <2>2, <2>3, <2>4, <2>5, <2>6, <2>7
<1>4. ASSUME NEW m \in manifests, DeleteGet(r, m) PROVE StorageInv'
  <2>b. \A p \in Requests : Named(p)' => Named(p)
    BY <1>4 DEF Named, DeleteGet
  <2>c. ~Named(r)
    BY <1>4 DEF PrivateUntilPublished, DeleteGet
  <2>d. \A q \in Requests \ {r} : man[q].piece # r /\ man'[q] = man[q] /\ pc'[q] = pc[q]
    BY <1>4, <2>c DEF Named, TypeOK, DeleteGet
  <2>e. /\ \A g \in Hashes : HasRow(g) => index[g].piece # r
        /\ \A x \in manifests : x.piece # r
    BY <2>c DEF Named
  <2>1. RowPieceStored'
    BY <1>4 DEF RowPieceStored, DeleteGet
  <2>2. PlainManifestStored'
    BY <1>4 DEF PlainManifestStored, DeleteGet
  <2>3. OwnPiece'
    BY <1>4 DEF OwnPiece, TypeOK, DeleteGet
  <2>4. PrivateUntilPublished'
    BY <1>4, <2>b DEF PrivateUntilPublished, DeleteGet
  <2>5. HashOfPiece'
    BY <1>4, <2>d, <2>e DEF HashOfPiece, DeleteGet
  <2>6. PlainPieceUnshared'
    BY <1>4, <2>d, <2>e DEF PlainPieceUnshared, TypeOK, DeleteGet
  <2>7. DoomedPieces'
    BY <1>4 DEF DoomedPieces, DeleteGet
  <2> QED
    BY <1>t, <2>1, <2>2, <2>3, <2>4, <2>5, <2>6, <2>7
<1>5. CASE PutIncrement(r)
  <2>a. \A g \in Hashes : /\ HasRow(g)' <=> HasRow(g)
                          /\ HasRow(g) => (index[g].piece)' = index[g].piece
    BY <1>5, ConstantsAssumption DEF TypeOK, Row, PutIncrement, IncrementRef
  <2>b. \A p \in Requests : Named(p)' => Named(p)
    BY <1>5, <2>a DEF Named, PutIncrement
  <2>1. RowPieceStored'
    BY <1>5, <2>a DEF RowPieceStored, PutIncrement
  <2>2. PlainManifestStored'
    BY <1>5 DEF PlainManifestStored, PutIncrement
  <2>3. OwnPiece'
    BY <1>5, ConstantsAssumption DEF OwnPiece, TypeOK, PutIncrement
  <2>4. PrivateUntilPublished'
    BY <1>5, <2>b DEF PrivateUntilPublished, TypeOK, PutIncrement
  <2>5. HashOfPiece'
    BY <1>5, <2>a DEF HashOfPiece, PutIncrement
  <2>6. PlainPieceUnshared'
    BY <1>5 DEF PlainPieceUnshared, TypeOK, PutIncrement
  <2>7. DoomedPieces'
    <3> SUFFICES ASSUME NEW q \in Requests, pc'[q] = "delPieces"
                 PROVE  /\ \A g \in Hashes : HasRow(g)' => index'[g].piece # man'[q].piece
                        /\ man'[q].hash = NoHash
                              => \A x \in manifests' : x.piece # man'[q].piece
      BY DEF DoomedPieces
    <3>1. q # r /\ pc[q] = "delPieces" /\ man'[q] = man[q]
      BY <1>5 DEF TypeOK, PutIncrement, IncrementRef
    <3>2. UNCHANGED manifests
      BY <1>5 DEF PutIncrement, IncrementRef
    <3> QED
      BY <2>a, <3>1, <3>2 DEF DoomedPieces
  <2> QED
    BY <1>t, <2>1, <2>2, <2>3, <2>4, <2>5, <2>6, <2>7
<1>6. CASE PutPiece(r)
  <2>1. RowPieceStored'
    BY <1>6 DEF RowPieceStored, PutPiece
  <2>2. PlainManifestStored'
    BY <1>6 DEF PlainManifestStored, PutPiece
  <2>3. OwnPiece'
    BY <1>6 DEF OwnPiece, TypeOK, Manifest, PutPiece
  <2>4. PrivateUntilPublished'
    BY <1>6 DEF PrivateUntilPublished, TypeOK, PutPiece, Named
  <2>5. HashOfPiece'
    BY <1>6 DEF HashOfPiece, PutPiece
  <2>6. PlainPieceUnshared'
    BY <1>6 DEF PlainPieceUnshared, TypeOK, PutPiece
  <2>7. DoomedPieces'
    BY <1>6 DEF DoomedPieces, TypeOK, PutPiece
  <2> QED
    BY <1>t, <2>1, <2>2, <2>3, <2>4, <2>5, <2>6, <2>7
<1>7. CASE PutRegister(r)
  <2>b. \A p \in Requests : Named(p)' => Named(p) \/ (p = r /\ pc'[r] = "manifest")
    BY <1>7 DEF Named, TypeOK, PutRegister, Register
  <2>1. RowPieceStored'
    BY <1>7 DEF RowPieceStored, OwnPiece, TypeOK, PutRegister, Register
  <2>2. PlainManifestStored'
    BY <1>7 DEF PlainManifestStored, PutRegister
  <2>3. OwnPiece'
    BY <1>7 DEF OwnPiece, TypeOK, PutRegister
  <2>4. PrivateUntilPublished'
    BY <1>7, <2>b, ConstantsAssumption DEF PrivateUntilPublished, OwnPiece, TypeOK,
       PutRegister
  <2>5. HashOfPiece'
    BY <1>7 DEF HashOfPiece, TypeOK, PutRegister, Register
  <2>6. PlainPieceUnshared'
    BY <1>7 DEF PlainPieceUnshared, TypeOK, PutRegister
  <2>7. DoomedPieces'
    <3> SUFFICES ASSUME NEW q \in Requests, pc'[q] = "delPieces"
                 PROVE  /\ \A g \in Hashes : HasRow(g)' => index'[g].piece # man'[q].piece
                        /\ man'[q].hash = NoHash
                              => \A x \in manifests' : x.piece # man'[q].piece
      BY DEF DoomedPieces
    <3>1. q # r /\ pc[q] = "delPieces" /\ man'[q] = man[q]
      BY <1>7 DEF TypeOK, PutRegister, Register
    <3>2. man[r].piece = r
      BY <1>7 DEF OwnPiece, PutRegister
    <3>3. man[q].piece # r
      BY <1>7, <3>1 DEF PrivateUntilPublished, Named, PutRegister
    <3> QED
      BY <1>7, <3>2, <3>3 DEF DoomedPieces, TypeOK, PutRegister, Register
  <2> QED
    BY <1>t, <2>1, <2>2, <2>3, <2>4, <2>5, <2>6, <2>7
<1>8. CASE PutRaceIncrement(r)
  <2>a. \A g \in Hashes : /\ HasRow(g)' <=> HasRow(g)
                          /\ HasRow(g) => (index[g].piece)' = index[g].piece
    BY <1>8, ConstantsAssumption DEF TypeOK, Row, PutRaceIncrement, IncrementRef
  <2>b. \A p \in Requests : Named(p)' => Named(p)
    BY <1>8, <2>a DEF Named, PutRaceIncrement
  <2>1. RowPieceStored'
    BY <1>8, <2>a DEF RowPieceStored, PutRaceIncrement
  <2>2. PlainManifestStored'
    BY <1>8 DEF PlainManifestStored, PutRaceIncrement
  <2>3. OwnPiece'
    BY <1>8 DEF OwnPiece, TypeOK, PutRaceIncrement
  <2>4. PrivateUntilPublished'
    BY <1>8, <2>b DEF PrivateUntilPublished, TypeOK, PutRaceIncrement
  <2>5. HashOfPiece'
    BY <1>8, <2>a DEF HashOfPiece, PutRaceIncrement
  <2>6. PlainPieceUnshared'
    BY <1>8 DEF PlainPieceUnshared, TypeOK, PutRaceIncrement
  <2>7. DoomedPieces'
    <3> SUFFICES ASSUME NEW q \in Requests, pc'[q] = "delPieces"
                 PROVE  /\ \A g \in Hashes : HasRow(g)' => index'[g].piece # man'[q].piece
                        /\ man'[q].hash = NoHash
                              => \A x \in manifests' : x.piece # man'[q].piece
      BY DEF DoomedPieces
    <3>1. q # r /\ pc[q] = "delPieces" /\ man'[q] = man[q]
      BY <1>8 DEF TypeOK, PutRaceIncrement, IncrementRef
    <3>2. UNCHANGED manifests
      BY <1>8 DEF PutRaceIncrement, IncrementRef
    <3> QED
      BY <2>a, <3>1, <3>2 DEF DoomedPieces
  <2> QED
    BY <1>t, <2>1, <2>2, <2>3, <2>4, <2>5, <2>6, <2>7
<1>9. CASE PutDropDuplicate(r)
  <2>1. RowPieceStored'
    BY <1>9 DEF RowPieceStored, PrivateUntilPublished, PutDropDuplicate, Named
  <2>2. PlainManifestStored'
    BY <1>9, ConstantsAssumption DEF PlainManifestStored, OwnPiece, HashOfPiece,
       PutDropDuplicate
  <2>3. OwnPiece'
    BY <1>9 DEF OwnPiece, PutDropDuplicate
  <2>4. PrivateUntilPublished'
    BY <1>9 DEF PrivateUntilPublished, PutDropDuplicate, Named
  <2>5. HashOfPiece'
    BY <1>9 DEF HashOfPiece, PutDropDuplicate
  <2>6. PlainPieceUnshared'
    BY <1>9 DEF PlainPieceUnshared, PutDropDuplicate
  <2>7. DoomedPieces'
    BY <1>9 DEF DoomedPieces, PutDropDuplicate
  <2> QED
    BY <1>t, <2>1, <2>2, <2>3, <2>4, <2>5, <2>6, <2>7
<1>10. CASE PutCanonical(r)
  <2>b. \A p \in Requests : Named(p)' => Named(p)
    BY <1>10 DEF Named, OwnPiece, TypeOK, PutCanonical
  <2>c. ~Named(r)
    BY <1>10 DEF PrivateUntilPublished, PutCanonical
  <2>d. \A q \in Requests \ {r} : man[q].piece # r /\ man'[q] = man[q] /\ pc'[q] = pc[q]
    BY <1>10, <2>c DEF Named, TypeOK, PutCanonical
  <2>e. /\ \A g \in Hashes : HasRow(g) => index[g].piece # r
        /\ \A x \in manifests : x.piece # r
    BY <2>c DEF Named
  <2>1. RowPieceStored'
    BY <1>10 DEF RowPieceStored, PutCanonical
  <2>2. PlainManifestStored'
    BY <1>10 DEF PlainManifestStored, PutCanonical
  <2>3. OwnPiece'
    BY <1>10, ConstantsAssumption DEF OwnPiece, TypeOK, PutCanonical
  <2>4. PrivateUntilPublished'
    BY <1>10, <2>b, <2>d DEF PrivateUntilPublished, PutCanonical
  <2>5. HashOfPiece'
    <3>1. man'[r].hash = man[r].hash /\ man'[r].piece \in Requests
      BY <1>10 DEF PutCanonical, TypeOK, OwnPiece, Row, Manifest
    <3>2. man'[r].piece = r \/ (man'[r].piece # r /\ man[man'[r].piece].hash = man[r].hash)
      BY <1>10 DEF PutCanonical, TypeOK, HashOfPiece, OwnPiece
    <3>3. \A p \in Requests : p # r => man'[p] = man[p]
      BY <2>d
    <3>4. UNCHANGED <<index, manifests>>
      BY <1>10 DEF PutCanonical
    <3>5. man'[man'[r].piece].hash = man'[r].hash
      BY <3>1, <3>2, <3>3
    <3>6. \A q \in Requests \ {r} : man[q].piece \in Requests \ {r}
      BY <2>d DEF TypeOK, Manifest
    <3>7. \A x \in manifests : x.piece \in Requests \ {r}
      BY <2>e DEF TypeOK, Manifest
    <3>8. \A g \in Hashes : HasRow(g) => index[g].piece \in Requests \ {r}
      BY <2>e, RowTyped DEF TypeOK, Row
    <3>9. \A q \in Requests : man'[man'[q].piece].hash = man'[q].hash
      BY <3>3, <3>5, <3>6 DEF HashOfPiece
    <3> QED
      BY <3>3, <3>4, <3>7, <3>8, <3>9 DEF HashOfPiece
  <2>6. PlainPieceUnshared'
    <3>1. \A p \in Requests : p # r => man'[p] = man[p]
      BY <2>d
    <3>2. UNCHANGED manifests
      BY <1>10 DEF PutCanonical
    <3>3. \A x \in manifests : x.piece \in Requests \ {r}
      BY <2>e DEF TypeOK, Manifest
    <3>4. \A q \in Requests : pc'[q] \in {"delManifest", "delPieces"}
              => /\ q # r /\ pc'[q] = pc[q] /\ man'[q] = man[q]
                 /\ man[q].piece \in Requests \ {r}
      BY <1>10, <2>d DEF PutCanonical, TypeOK, Manifest
    <3> QED
      BY <3>1, <3>2, <3>3, <3>4 DEF PlainPieceUnshared
  <2>7. DoomedPieces'
    <3> SUFFICES ASSUME NEW q \in Requests, pc'[q] = "delPieces"
                 PROVE  /\ \A g \in Hashes : HasRow(g)' => index'[g].piece # man'[q].piece
                        /\ man'[q].hash = NoHash
                              => \A x \in manifests' : x.piece # man'[q].piece
      BY DEF DoomedPieces
    <3>1. q # r /\ pc[q] = "delPieces" /\ man'[q] = man[q]
      BY <1>10 DEF TypeOK, PutCanonical
    <3>2. UNCHANGED <<manifests, index>>
      BY <1>10 DEF PutCanonical
    <3> QED
      BY <3>1, <3>2 DEF DoomedPieces
  <2> QED
    BY <1>t, <2>1, <2>2, <2>3, <2>4, <2>5, <2>6, <2>7
<1>11. CASE WriteManifest(r)
  <2>1. RowPieceStored'
    BY <1>11 DEF RowPieceStored, WriteManifest
  <2>2. PlainManifestStored'
    BY <1>11 DEF PlainManifestStored, OwnPiece, WriteManifest, PutManifest
  <2>3. OwnPiece'
    BY <1>11 DEF OwnPiece, TypeOK, Manifest, WriteManifest
  <2>4. PrivateUntilPublished'
    BY <1>11 DEF PrivateUntilPublished, TypeOK, WriteManifest, PutManifest, Named
  <2>5. HashOfPiece'
    BY <1>11 DEF HashOfPiece, WriteManifest, PutManifest
  <2>6. PlainPieceUnshared'
    BY <1>11 DEF PlainPieceUnshared, OwnPiece, TypeOK, WriteManifest, PutManifest
  <2>7. DoomedPieces'
    BY <1>11 DEF TypeOK, Row, OwnPiece, PrivateUntilPublished, HashOfPiece, DoomedPieces,
       WriteManifest, PutManifest, Named
  <2> QED
    BY <1>t, <2>1, <2>2, <2>3, <2>4, <2>5, <2>6, <2>7
<1>12. CASE Rollback(r)
  <2>a. \A g \in Hashes : /\ HasRow(g)' <=> HasRow(g)
                          /\ HasRow(g) => (index[g].piece)' = index[g].piece
    BY <1>12, RowTyped, ConstantsAssumption DEF TypeOK, Row, Rollback, DecrementRef
  <2>b. \A p \in Requests : Named(p)' => Named(p)
    BY <1>12, <2>a DEF Named, Rollback
  <2>1. RowPieceStored'
    BY <1>12, <2>a DEF RowPieceStored, Rollback
  <2>2. PlainManifestStored'
    BY <1>12 DEF PlainManifestStored, Rollback
  <2>3. OwnPiece'
    BY <1>12 DEF OwnPiece, Rollback
  <2>4. PrivateUntilPublished'
    BY <1>12, <2>b DEF PrivateUntilPublished, Rollback
  <2>5. HashOfPiece'
    BY <1>12, <2>a DEF HashOfPiece, Rollback
  <2>6. PlainPieceUnshared'
    BY <1>12 DEF PlainPieceUnshared, Rollback
  <2>7. DoomedPieces'
    <3> SUFFICES ASSUME NEW q \in Requests, pc'[q] = "delPieces"
                 PROVE  /\ \A g \in Hashes : HasRow(g)' => index'[g].piece # man'[q].piece
                        /\ man'[q].hash = NoHash
                              => \A x \in manifests' : x.piece # man'[q].piece
      BY DEF DoomedPieces
    <3>1. q # r /\ pc[q] = "delPieces" /\ man'[q] = man[q]
      BY <1>12 DEF TypeOK, Rollback, DecrementRef
    <3>2. UNCHANGED manifests
      BY <1>12 DEF Rollback, DecrementRef
    <3> QED
      BY <2>a, <3>1, <3>2 DEF DoomedPieces
  <2> QED
    BY <1>t, <2>1, <2>2, <2>3, <2>4, <2>5, <2>6, <2>7
<1>13. CASE UndoPiece(r)
  <2>1. RowPieceStored'
    BY <1>13 DEF RowPieceStored, PrivateUntilPublished, UndoPiece, Named
  <2>2. PlainManifestStored'
    BY <1>13 DEF PlainManifestStored, PrivateUntilPublished, UndoPiece, Named
  <2>3. OwnPiece'
    BY <1>13 DEF OwnPiece, UndoPiece
  <2>4. PrivateUntilPublished'
    BY <1>13 DEF PrivateUntilPublished, UndoPiece, Named
  <2>5. HashOfPiece'
    BY <1>13 DEF HashOfPiece, UndoPiece
  <2>6. PlainPieceUnshared'
    BY <1>13 DEF PlainPieceUnshared, UndoPiece
  <2>7. DoomedPieces'
    BY <1>13 DEF DoomedPieces, UndoPiece
  <2> QED
    BY <1>t, <2>1, <2>2, <2>3, <2>4, <2>5, <2>6, <2>7
<1>14. CASE CopyIncrement(r)
  <2>a. \A g \in Hashes : /\ HasRow(g)' <=> HasRow(g)
                          /\ HasRow(g) => (index[g].piece)' = index[g].piece
    BY <1>14, ConstantsAssumption DEF TypeOK, Row, CopyIncrement, IncrementRef
  <2>m. \A q \in Requests : /\ man'[q].piece = man[q].piece
                            /\ man'[q].hash = man[q].hash
                            /\ q # r => man'[q] = man[q] /\ pc'[q] = pc[q]
    BY <1>14 DEF CopyIncrement, TypeOK, Manifest
  <2>p. /\ pc[r] = "copyIncrement" /\ pc'[r] \in {"manifest", "copyPiece", "done"}
        /\ UNCHANGED <<pieces, manifests>>
    BY <1>14 DEF CopyIncrement, TypeOK
  <2>b. \A p \in Requests : Named(p)' => Named(p)
    BY <2>a, <2>m, <2>p DEF Named, TypeOK, Manifest, Row
  <2>1. RowPieceStored'
    BY <1>14, <2>a DEF RowPieceStored, CopyIncrement
  <2>2. PlainManifestStored'
    BY <1>14 DEF PlainManifestStored, CopyIncrement
  <2>3. OwnPiece'
    <3>1. pc'[r] = "manifest" => man[r].hash \in Hashes
      BY <1>14 DEF CopyIncrement, OwnPiece
    <3> QED
      BY <2>m, <2>p, <3>1, ConstantsAssumption DEF OwnPiece
  <2>4. PrivateUntilPublished'
    BY <1>14, <2>b DEF PrivateUntilPublished, TypeOK, CopyIncrement
  <2>5. HashOfPiece'
    BY <2>a, <2>m, <2>p DEF HashOfPiece, TypeOK, Manifest, Row
  <2>6. PlainPieceUnshared'
    <3>1. man[r].hash # NoHash
      BY <1>14, ConstantsAssumption DEF CopyIncrement, OwnPiece
    <3>2. \A p \in Requests : man[p].hash = NoHash => man'[p] = man[p]
      BY <2>m, <3>1
    <3>3. \A x \in manifests : x.hash = NoHash => man'[x.piece] = man[x.piece]
      BY <3>2 DEF HashOfPiece, TypeOK, Manifest
    <3>4. ASSUME NEW q \in Requests, pc'[q] \in {"delManifest", "delPieces"},
                 man'[q].hash = NoHash
          PROVE  man'[q] = man'[man'[q].piece]
      <4>1. q # r /\ man'[q] = man[q] /\ pc'[q] = pc[q]
        BY <2>m, <2>p, <3>4
      <4>2. man[q].piece \in Requests /\ man[man[q].piece].hash = NoHash
        BY <3>4, <4>1 DEF HashOfPiece, TypeOK, Manifest
      <4> QED
        BY <3>2, <3>4, <4>1, <4>2 DEF PlainPieceUnshared
    <3> QED
      BY <2>p, <3>3, <3>4 DEF PlainPieceUnshared
  <2>7. DoomedPieces'
    <3> SUFFICES ASSUME NEW q \in Requests, pc'[q] = "delPieces"
                 PROVE  /\ \A g \in Hashes : HasRow(g)' => index'[g].piece # man'[q].piece
                        /\ man'[q].hash = NoHash
                              => \A x \in manifests' : x.piece # man'[q].piece
      BY DEF DoomedPieces
    <3>1. q # r /\ pc[q] = "delPieces" /\ man'[q] = man[q]
      BY <1>14 DEF TypeOK, CopyIncrement, IncrementRef
    <3>2. UNCHANGED manifests
      BY <1>14 DEF CopyIncrement, IncrementRef
    <3> QED
      BY <2>a, <3>1, <3>2 DEF DoomedPieces
  <2> QED
    BY <1>t, <2>1, <2>2, <2>3, <2>4, <2>5, <2>6, <2>7
<1>15. CASE CopyPiece(r)
  <2>b. \A p \in Requests : Named(p)' => Named(p)
    BY <1>15 DEF Named, OwnPiece, TypeOK, CopyPiece
  <2>c. ~Named(r)
    BY <1>15 DEF PrivateUntilPublished, CopyPiece
  <2>d. \A q \in Requests \ {r} : man[q].piece # r /\ man'[q] = man[q] /\ pc'[q] = pc[q]
    BY <1>15, <2>c DEF Named, TypeOK, CopyPiece
  <2>e. /\ \A g \in Hashes : HasRow(g) => index[g].piece # r
        /\ \A x \in manifests : x.piece # r
    BY <2>c DEF Named
  <2>1. RowPieceStored'
    BY <1>15 DEF RowPieceStored, CopyPiece
  <2>2. PlainManifestStored'
    BY <1>15 DEF PlainManifestStored, CopyPiece
  <2>3. OwnPiece'
    BY <1>15 DEF OwnPiece, TypeOK, CopyPiece
  <2>4. PrivateUntilPublished'
    BY <1>15, <2>b, <2>d DEF PrivateUntilPublished, CopyPiece
  <2>5. HashOfPiece'
    BY <1>15, <2>d, <2>e DEF HashOfPiece, TypeOK, Manifest, Row, CopyPiece
  <2>6. PlainPieceUnshared'
    <3>1. \A p \in Requests : p # r => man'[p] = man[p]
      BY <2>d
    <3>2. UNCHANGED manifests
      BY <1>15 DEF CopyPiece
    <3>3. \A x \in manifests : x.piece \in Requests \ {r}
      BY <2>e DEF TypeOK, Manifest
    <3>4. \A q \in Requests : pc'[q] \in {"delManifest", "delPieces"}
              => /\ q # r /\ pc'[q] = pc[q] /\ man'[q] = man[q]
                 /\ man[q].piece \in Requests \ {r}
      BY <1>15, <2>d DEF CopyPiece, TypeOK, Manifest
    <3> QED
      BY <3>1, <3>2, <3>3, <3>4 DEF PlainPieceUnshared
  <2>7. DoomedPieces'
    <3> SUFFICES ASSUME NEW q \in Requests, pc'[q] = "delPieces"
                 PROVE  /\ \A g \in Hashes : HasRow(g)' => index'[g].piece # man'[q].piece
                        /\ man'[q].hash = NoHash
                              => \A x \in manifests' : x.piece # man'[q].piece
      BY DEF DoomedPieces
    <3>1. q # r /\ pc[q] = "delPieces" /\ man'[q] = man[q]
      BY <1>15 DEF TypeOK, CopyPiece
    <3>2. UNCHANGED <<manifests, index>>
      BY <1>15 DEF CopyPiece
    <3> QED
      BY <3>1, <3>2 DEF DoomedPieces
  <2> QED
    BY <1>t, <2>1, <2>2, <2>3, <2>4, <2>5, <2>6, <2>7
<1>16. CASE DeleteManifest(r)
  <2>1. RowPieceStored'
    BY <1>16 DEF RowPieceStored, DeleteManifest
  <2>2. PlainManifestStored'
    BY <1>16 DEF PlainManifestStored, DeleteManifest
  <2>3. OwnPiece'
    BY <1>16 DEF OwnPiece, TypeOK, Manifest, DeleteManifest
  <2>4. PrivateUntilPublished'
    BY <1>16 DEF PrivateUntilPublished, TypeOK, DeleteManifest, Named
  <2>5. HashOfPiece'
    BY <1>16 DEF HashOfPiece, DeleteManifest
  <2>6. PlainPieceUnshared'
    BY <1>16 DEF PlainPieceUnshared, TypeOK, DeleteManifest
  <2>7. DoomedPieces'
    BY <1>16, ConstantsAssumption DEF TypeOK, HashOfPiece, PlainPieceUnshared,
       DoomedPieces, DeleteManifest
  <2> QED
    BY <1>t, <2>1, <2>2, <2>3, <2>4, <2>5, <2>6, <2>7
<1>17. CASE DeleteDecrement(r)
  <2>a. \A g \in Hashes : /\ HasRow(g)' <=> HasRow(g)
                          /\ HasRow(g) => (index[g].piece)' = index[g].piece
    BY <1>17, RowTyped, ConstantsAssumption DEF TypeOK, Row, DeleteDecrement, DecrementRef
  <2>b. \A p \in Requests : Named(p)' => Named(p)
    BY <1>17, <2>a DEF Named, DeleteDecrement
  <2>1. RowPieceStored'
    BY <1>17, <2>a DEF RowPieceStored, DeleteDecrement
  <2>2. PlainManifestStored'
    BY <1>17 DEF PlainManifestStored, DeleteDecrement
  <2>3. OwnPiece'
    BY <1>17 DEF OwnPiece, TypeOK, DeleteDecrement
  <2>4. PrivateUntilPublished'
    BY <1>17, <2>b DEF PrivateUntilPublished, TypeOK, DeleteDecrement
  <2>5. HashOfPiece'
    BY <1>17, <2>a DEF HashOfPiece, DeleteDecrement
  <2>6. PlainPieceUnshared'
    BY <1>17, ConstantsAssumption DEF PlainPieceUnshared, OwnPiece, TypeOK,
       DeleteDecrement
  <2>7. DoomedPieces'
    <3> SUFFICES ASSUME NEW q \in Requests, pc'[q] = "delPieces"
                 PROVE  /\ \A g \in Hashes : HasRow(g)' => index'[g].piece # man'[q].piece
                        /\ man'[q].hash = NoHash
                              => \A x \in manifests' : x.piece # man'[q].piece
      BY DEF DoomedPieces
    <3>1. UNCHANGED <<manifests, man>>
      BY <1>17 DEF DeleteDecrement
    <3>2. CASE q # r
      <4>1. pc[q] = "delPieces"
        BY <1>17, <3>2 DEF DeleteDecrement, TypeOK
      <4> QED
        BY <2>a, <3>1, <4>1 DEF DoomedPieces
    <3>3. CASE q = r
      <4>1. man[r].hash \in Hashes /\ ~HasRow(man[r].hash)
        BY <1>17, <3>3 DEF DeleteDecrement, TypeOK, OwnPiece
      <4>2. \A g \in Hashes : HasRow(g) => index[g].piece # man[r].piece
        BY <4>1 DEF HashOfPiece
      <4> QED
        BY <2>a, <3>1, <3>3, <4>1, <4>2, ConstantsAssumption
    <3> QED
      BY <3>2, <3>3
  <2> QED
    BY <1>t, <2>1, <2>2, <2>3, <2>4, <2>5, <2>6, <2>7
<1>18. CASE DeleteIndexRow(r)
  <2>b. \A p \in Requests : Named(p)' => Named(p)
    BY <1>18 DEF Named, TypeOK, Row, DeleteIndexRow, DeleteRow
  <2>1. RowPieceStored'
    BY <1>18 DEF RowPieceStored, TypeOK, DeleteIndexRow, DeleteRow
  <2>2. PlainManifestStored'
    BY <1>18 DEF PlainManifestStored, DeleteIndexRow
  <2>3. OwnPiece'
    BY <1>18 DEF OwnPiece, TypeOK, DeleteIndexRow
  <2>4. PrivateUntilPublished'
    BY <1>18, <2>b DEF PrivateUntilPublished, TypeOK, DeleteIndexRow
  <2>5. HashOfPiece'
    BY <1>18 DEF HashOfPiece, TypeOK, DeleteIndexRow, DeleteRow
  <2>6. PlainPieceUnshared'
    BY <1>18, ConstantsAssumption DEF PlainPieceUnshared, OwnPiece, TypeOK, DeleteIndexRow
  <2>7. DoomedPieces'
    <3> SUFFICES ASSUME NEW q \in Requests, pc'[q] = "delPieces"
                 PROVE  /\ \A g \in Hashes : HasRow(g)' => index'[g].piece # man'[q].piece
                        /\ man'[q].hash = NoHash
                              => \A x \in manifests' : x.piece # man'[q].piece
      BY DEF DoomedPieces
    <3>1. UNCHANGED <<manifests, man>>
      BY <1>18 DEF DeleteIndexRow
    <3>2. man[r].hash \in Hashes
      BY <1>18 DEF DeleteIndexRow, OwnPiece
    <3>3. \A g \in Hashes : HasRow(g)' => HasRow(g) /\ index'[g] = index[g]
      BY <1>18, <3>2 DEF DeleteIndexRow, DeleteRow, TypeOK
    <3>4. CASE q # r
      <4>1. pc[q] = "delPieces"
        BY <1>18, <3>4 DEF DeleteIndexRow, TypeOK
      <4> QED
        BY <3>1, <3>3, <4>1 DEF DoomedPieces
    <3>5. CASE q = r
      <4>1. ~HasRow(man[r].hash)'
        BY <1>18, <3>2, <3>5 DEF DeleteIndexRow, DeleteRow, TypeOK
      <4>2. \A g \in Hashes : HasRow(g)' => index[g].piece # man[r].piece
        BY <3>1, <3>3, <4>1 DEF HashOfPiece
      <4> QED
        BY <3>1, <3>2, <3>3, <3>5, <4>2, ConstantsAssumption
    <3> QED
      BY <3>4, <3>5
  <2> QED
    BY <1>t, <2>1, <2>2, <2>3, <2>4, <2>5, <2>6, <2>7
<1>19. CASE DeletePieces(r)
  <2>1. RowPieceStored'
    BY <1>19 DEF RowPieceStored, DoomedPieces, DeletePieces
  <2>2. PlainManifestStored'
    BY <1>19 DEF PlainManifestStored, HashOfPiece, DoomedPieces, DeletePieces
  <2>3. OwnPiece'
    BY <1>19 DEF OwnPiece, PrivateUntilPublished, DeletePieces, Named
  <2>4. PrivateUntilPublished'
    BY <1>19 DEF PrivateUntilPublished, DeletePieces, Named
  <2>5. HashOfPiece'
    BY <1>19 DEF HashOfPiece, DeletePieces
  <2>6. PlainPieceUnshared'
    BY <1>19 DEF PlainPieceUnshared, DeletePieces
  <2>7. DoomedPieces'
    BY <1>19 DEF DoomedPieces, DeletePieces
  <2> QED
    BY <1>t, <2>1, <2>2, <2>3, <2>4, <2>5, <2>6, <2>7
<1>20. CASE Abandon(r)
  <2>1. RowPieceStored'
    BY <1>20 DEF RowPieceStored, Abandon
  <2>2. PlainManifestStored'
    BY <1>20 DEF PlainManifestStored, Abandon
  <2>3. OwnPiece'
    BY <1>20 DEF OwnPiece, Abandon
  <2>4. PrivateUntilPublished'
    BY <1>20 DEF PrivateUntilPublished, Abandon, Named
  <2>5. HashOfPiece'
    BY <1>20 DEF HashOfPiece, Abandon
  <2>6. PlainPieceUnshared'
    BY <1>20 DEF PlainPieceUnshared, Abandon
  <2>7. DoomedPieces'
    BY <1>20 DEF DoomedPieces, Abandon
  <2> QED
    BY <1>t, <2>1, <2>2, <2>3, <2>4, <2>5, <2>6, <2>7
<1> QED
    BY <1>1, <1>2, <1>3, <1>4, <1>5, <1>6, <1>7, <1>8, <1>9, <1>10, <1>11, <1>12, <1>13,
       <1>14, <1>15, <1>16, <1>17, <1>18, <1>19, <1>20 DEF Start, Step

(* Empty stores satisfy the storage invariant.                              *)
LEMMA StorageInit == Init => StorageInv
<1> SUFFICES ASSUME Init PROVE StorageInv
    OBVIOUS
<1>1. TypeOK
    BY TypeInit
<1>2. \A h \in Hashes : ~HasRow(h)
    BY DEF Init, HasRow
<1>3. manifests = {} /\ \A r \in Requests : /\ pc[r] = "new"
                                           /\ man[r].piece = r
                                           /\ man[r].hash = NoHash
    BY DEF Init
<1> QED
    BY <1>1, <1>2, <1>3 DEF StorageInv, RowPieceStored, PlainManifestStored, OwnPiece,
       PrivateUntilPublished, Named, HashOfPiece, PlainPieceUnshared, DoomedPieces

(* The storage invariant is inductive.                                      *)
LEMMA StorageInductive == StorageInv /\ [Next]_vars => StorageInv'
<1> SUFFICES ASSUME StorageInv, [Next]_vars PROVE StorageInv'
    OBVIOUS
<1>1. CASE Next
    BY <1>1, StorageStep DEF Next
<1>2. CASE UNCHANGED vars
    BY <1>2 DEF vars, StorageInv, TypeOK, RowPieceStored, PlainManifestStored, OwnPiece,
       PrivateUntilPublished, Named, HashOfPiece, PlainPieceUnshared, DoomedPieces, HasRow
<1> QED
    BY <1>1, <1>2

(* It therefore holds in every state of every behaviour.                    *)
LEMMA StorageAlways == Spec => []StorageInv
BY StorageInit, StorageInductive, PTL DEF Spec

(* Whatever the handlers of PUT, COPY and DELETE do, and whatever fails in  *)
(* between, the stores keep their shape: in particular no DecrementRef      *)
(* takes a count below zero.                                                *)
THEOREM TypeCorrect == Spec => []TypeOK
<1>1. StorageInv => TypeOK
    BY DEF StorageInv
<1> QED
    BY <1>1, StorageAlways, PTL

(* The content index never names a removed piece: the order in which DELETE *)
(* drops the row and the piece, the answer to a lost Register race and the  *)
(* rollbacks of PUT are right for any number of concurrent requests, with   *)
(* failing store calls, abandoned requests and overlapping DELETEs.         *)
THEOREM IndexNamesStoredPieces == Spec => []RowPieceStored
<1>1. StorageInv => RowPieceStored
    BY DEF StorageInv
<1> QED
    BY <1>1, StorageAlways, PTL

(* A stored object that is not deduplicated has its piece on the backend,   *)
(* on every error path of PUT, COPY and DELETE.                             *)
THEOREM PlainObjectsKeepTheirPieces == Spec => []PlainManifestStored
<1>1. StorageInv => PlainManifestStored
    BY DEF StorageInv
<1> QED
    BY <1>1, StorageAlways, PTL

=============================================================================
