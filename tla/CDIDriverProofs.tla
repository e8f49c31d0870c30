--------------------------- MODULE CDIDriverProofs ---------------------------
(***************************************************************************)
(* Proofs about CDIDriver, for any number of claims, devices, failures and *)
(* crashes: the document is never torn, and ready means published.         *)
(***************************************************************************)
EXTENDS CDIDriver, FiniteSetTheorems, TLAPS

Written == {"syncData", "chmod", "syncMode", "close", "validate", "rename"}
Replaced == {"openDir", "syncDir", "closeDir"}

\* What Write knows of its temporary file before each call.
TempProgress ==
    /\ pc = "write" => temp \in File
    /\ pc \in Written => temp \in File /\ temp.written /\ temp.spec = spec
    /\ pc \in {"close", "validate", "rename"} => flushed = temp
    /\ pc = "rename" => temp.mode = 420

\* After the rename the document is the file that was flushed; after the
\* fsync of the directory nothing else can come back.
DocumentProgress ==
    /\ pc \in Replaced => /\ temp = NoFile
                          /\ doc \in File
                          /\ doc = flushed
                          /\ Complete(doc)
                          /\ doc.spec = spec
    /\ pc = "closeDir" => stable = {doc}

IInv ==
    /\ TypeOK
    /\ TempProgress
    /\ DocumentProgress
    /\ DocumentsAreComplete
    /\ ReadyMeansPublished

\* Every document has finitely many entries.
LEMMA SpecsAreFinite ==
    ASSUME NEW s \in Specs PROVE Cardinality(s) \in Nat
<1>1. IsFiniteSet(Devices \union DemoDevices)
  BY CDIAssumption, FS_Union
<1>2. IsFiniteSet(0..NumClaims)
  BY CDIAssumption, FS_Interval
<1>3. IsFiniteSet((Devices \union DemoDevices) \X (0..NumClaims))
  BY <1>1, <1>2, FS_Product
<1>4. IsFiniteSet(s)
  BY <1>3, FS_Subset DEF Specs
<1>5. QED
  BY <1>4, FS_CardinalityType

\* Both documents a refresh may build are documents.
LEMMA BuiltSpecs ==
    /\ demoCDISpec \in Specs
    /\ \A list, n : buildCDISpec(list, n) \in Specs
<1>1. demoCDISpec \in Specs
  BY CDIAssumption DEF demoCDISpec, Specs
<1>2. \A list, n : buildCDISpec(list, n) \subseteq Devices \X Claims
  BY DEF buildCDISpec
<1>3. Devices \X Claims \subseteq (Devices \union DemoDevices) \X (0..NumClaims)
  BY CDIAssumption DEF Claims
<1>4. QED
  BY <1>1, <1>2, <1>3 DEF Specs

\* A file stays a file when its content is written.
LEMMA FilledFile ==
    ASSUME NEW f \in File, NEW s \in Specs
    PROVE  LET g == [written |-> TRUE, spec |-> s, mode |-> f.mode]
           IN  g \in File /\ g.written /\ g.spec = s
  BY DEF File

\* What MarkReady stores is a status.
LEMMA ReadyStatus ==
    ASSUME NEW n \in Nat
    PROVE  LET s == [ready |-> TRUE, reason |-> "ready", devices |-> n]
           IN  /\ s.devices = n
               /\ s \in [ready : BOOLEAN,
                         reason : {"initializing", "ready",
                            "kubernetes_api_unavailable", "cdi_write_failed"},
                         devices : Nat]
<1>1. \A b \in BOOLEAN :
        LET s == [ready |-> b, reason |-> "ready", devices |-> n]
        IN  /\ s.devices = n
            /\ s \in [ready : BOOLEAN,
                      reason : {"initializing", "ready",
                            "kubernetes_api_unavailable", "cdi_write_failed"},
                      devices : Nat]
  OBVIOUS
<1>2. QED
  BY <1>1, Zenon

\* The first states satisfy the invariant.
LEMMA InitEstablishes == Init => IInv
<1> SUFFICES ASSUME Init PROVE IInv
  OBVIOUS
<1>1. spec \in Specs
  BY DEF Init, Specs
<1>2. stopping \in BOOLEAN
  BY DEF Init
<1>3. status \in [ready : BOOLEAN,
                  reason : {"initializing", "ready",
                            "kubernetes_api_unavailable", "cdi_write_failed"},
                  devices : Nat]
  BY DEF Init, newDriverStatus
<1>4. TypeOK
  BY <1>1, <1>2, <1>3, CDIAssumption DEF Init, TypeOK, WriteCalls
<1>5. TempProgress /\ DocumentProgress
  BY DEF Init, TempProgress, DocumentProgress, Written, Replaced
<1>6. DocumentsAreComplete /\ ReadyMeansPublished
  BY DEF Init, DocumentsAreComplete, ReadyMeansPublished
<1>7. QED
  BY <1>4, <1>5, <1>6 DEF IInv

\* Every call of a refresh, every failure and every crash preserves it.
LEMMA StepPreserves == IInv /\ [Next]_vars => IInv'
<1> SUFFICES ASSUME IInv, [Next]_vars PROVE IInv'
  OBVIOUS
<1> USE CDIAssumption
<1> USE DEF IInv, TypeOK, TempProgress, DocumentProgress,
        DocumentsAreComplete, ReadyMeansPublished, WriteCalls, Written,
        Replaced, envVars
<1>1. ASSUME NEW c \in Claims, NEW a \in Allocations \union {NoAllocation},
             ClaimChanges(c, a)
      PROVE  IInv'
  BY <1>1 DEF ClaimChanges, Complete
<1>2. CASE Signal
  BY <1>2 DEF Signal, Complete
<1>3. CASE Crash
  <2>1. stopping' \in BOOLEAN
    BY <1>3 DEF Crash
  <2>2. TypeOK'
    BY <1>3, <2>1 DEF Crash
  <2>3. TempProgress' /\ DocumentProgress'
    BY <1>3 DEF Crash
  <2>4. DocumentsAreComplete' /\ ReadyMeansPublished'
    BY <1>3 DEF Crash, Complete
  <2>5. QED
    BY <2>2, <2>3, <2>4
<1>4. CASE PowerLoss
  <2>1. stopping' \in BOOLEAN
    BY <1>4 DEF PowerLoss
  <2>2. TypeOK'
    BY <1>4, <2>1 DEF PowerLoss
  <2>3. TempProgress' /\ DocumentProgress'
    BY <1>4 DEF PowerLoss
  <2>4. DocumentsAreComplete' /\ ReadyMeansPublished'
    BY <1>4 DEF PowerLoss, Complete
  <2>5. QED
    BY <2>2, <2>3, <2>4
<1>5. CASE Tick
  BY <1>5 DEF Tick, Complete
<1>6. CASE ShutDown
  <2>1. stopping' \in BOOLEAN
    BY <1>6 DEF ShutDown
  <2>2. TypeOK'
    BY <1>6, <2>1 DEF ShutDown
  <2>3. TempProgress' /\ DocumentProgress'
    BY <1>6 DEF ShutDown
  <2>4. DocumentsAreComplete' /\ ReadyMeansPublished'
    BY <1>6 DEF ShutDown, Complete
  <2>5. QED
    BY <2>2, <2>3, <2>4
<1>7. CASE ListFails
  <2>1. /\ status'.ready = FALSE
        /\ status' \in [ready : BOOLEAN,
                        reason : {"initializing", "ready",
                            "kubernetes_api_unavailable", "cdi_write_failed"},
                        devices : Nat]
    BY <1>7 DEF ListFails, MarkFailure
  <2>2. TypeOK'
    BY <1>7, <2>1 DEF ListFails, MarkFailure
  <2>3. TempProgress' /\ DocumentProgress'
    BY <1>7 DEF ListFails, MarkFailure
  <2>4. DocumentsAreComplete' /\ ReadyMeansPublished'
    BY <1>7, <2>1 DEF ListFails, MarkFailure, Complete
  <2>5. QED
    BY <2>2, <2>3, <2>4
<1>8. CASE WriteFails
  <2>1. /\ status'.ready = FALSE
        /\ status' \in [ready : BOOLEAN,
                        reason : {"initializing", "ready",
                            "kubernetes_api_unavailable", "cdi_write_failed"},
                        devices : Nat]
    BY <1>8 DEF WriteFails, MarkFailure, Returns
  <2>2. TypeOK'
    BY <1>8, <2>1 DEF WriteFails, MarkFailure, Returns
  <2>3. TempProgress' /\ DocumentProgress'
    BY <1>8 DEF WriteFails, MarkFailure, Returns
  <2>4. DocumentsAreComplete' /\ ReadyMeansPublished'
    BY <1>8, <2>1 DEF WriteFails, MarkFailure, Returns, Complete
  <2>5. QED
    BY <2>2, <2>3, <2>4
<1>9. CASE Start
  BY <1>9 DEF Start, newDriverStatus, Complete
<1>10. CASE Refresh
  BY <1>10, BuiltSpecs DEF Refresh, Complete
<1>11. CASE CreateTemp
  BY <1>11 DEF CreateTemp, Returns, Complete, File, Specs
<1>12. CASE WriteData
  <2>1. temp \in File /\ temp' \in File /\ temp'.written /\ temp'.spec = spec
    <3>1. temp \in File /\ spec \in Specs
      BY <1>12 DEF WriteData, Returns
    <3>2. temp' = [written |-> TRUE, spec |-> spec, mode |-> temp.mode]
      BY <1>12 DEF WriteData
    <3>3. LET g == [written |-> TRUE, spec |-> spec, mode |-> temp.mode]
          IN  g \in File /\ g.written /\ g.spec = spec
      BY ONLY <3>1, FilledFile, Zenon
    <3>4. QED
      BY <3>1, <3>2, <3>3, Zenon
  <2>2. QED
    BY <1>12, <2>1 DEF WriteData, Returns, Complete
<1>13. CASE Sync
  BY <1>13 DEF Sync, Returns, Complete
<1>14. CASE Chmod
  BY <1>14 DEF Chmod, Returns, Complete, File
<1>15. CASE CloseTemp
  BY <1>15 DEF CloseTemp, Returns, Complete
<1>16. CASE validateGeneratedFile
  BY <1>16 DEF validateGeneratedFile, Returns, Complete
<1>17. CASE Rename
  BY <1>17 DEF Rename, Returns, Complete
<1>18. CASE OpenDir
  BY <1>18 DEF OpenDir, Returns, Complete
<1>19. CASE SyncDir
  BY <1>19 DEF SyncDir, Returns, Complete
<1>20. CASE CloseDir
  <2>1. Cardinality(spec) \in Nat
    BY SpecsAreFinite
  <2>2. /\ status'.devices = Cardinality(spec)
        /\ status' \in [ready : BOOLEAN,
                        reason : {"initializing", "ready",
                            "kubernetes_api_unavailable", "cdi_write_failed"},
                        devices : Nat]
    <3>1. status' = [ready |-> TRUE, reason |-> "ready",
                     devices |-> Cardinality(spec)]
      BY <1>20 DEF CloseDir, MarkReady
    <3>2. LET s == [ready |-> TRUE, reason |-> "ready",
                    devices |-> Cardinality(spec)]
          IN  /\ s.devices = Cardinality(spec)
              /\ s \in [ready : BOOLEAN,
                        reason : {"initializing", "ready",
                            "kubernetes_api_unavailable", "cdi_write_failed"},
                        devices : Nat]
      BY <2>1, ReadyStatus
    <3>3. QED
      BY <3>1, <3>2, Zenon
  <2>3. TypeOK'
    BY <1>20, <2>2 DEF CloseDir, Returns
  <2>4. TempProgress' /\ DocumentProgress'
    BY <1>20 DEF CloseDir, Returns
  <2>5. DocumentsAreComplete' /\ ReadyMeansPublished'
    BY <1>20, <2>2 DEF CloseDir, Returns, Complete
  <2>6. QED
    BY <2>3, <2>4, <2>5
<1>21. CASE UNCHANGED vars
  BY <1>21 DEF vars, Complete
<1>22. QED
  BY <1>1, <1>2, <1>3, <1>4, <1>5, <1>6, <1>7, <1>8, <1>9, <1>10, <1>11,
     <1>12, <1>13, <1>14, <1>15, <1>16, <1>17, <1>18, <1>19, <1>20, <1>21
     DEF Next, Proceed, Write

\* The progress of Write is an invariant of the specification.
THEOREM InductiveInvariant == Spec => []IInv
<1>1. Init => IInv
  BY InitEstablishes
<1>2. IInv /\ [Next]_vars => IInv'
  BY StepPreserves
<1>3. QED
  BY <1>1, <1>2, PTL DEF Spec

\* The variables keep their types and a temporary file never outlives Write
\* in a process that goes on: its deferred function removes it.
THEOREM DriverTypes == Spec => []TypeOK
  BY InductiveInvariant, PTL DEF IInv

\* No crash, at any call of atomicCDIWriter.Write, leaves a torn document at
\* cdiPath, even after a power loss.
THEOREM DocumentsAreCompleteHolds == Spec => []DocumentsAreComplete
  BY InductiveInvariant, PTL DEF IInv

\* /readyz is ready between refreshes only with the document of the last
\* refresh durably on disk.
THEOREM ReadyMeansPublishedHolds == Spec => []ReadyMeansPublished
  BY InductiveInvariant, PTL DEF IInv

\* Until the rename the document is the one from before the refresh.
BeforeRename == {"createTemp", "write"} \union Written
NotYetReplaced == pc \in BeforeRename => doc = good
Kept == NotYetReplaced /\ FailureKeepsADocument

\* A whole file with this refresh's content is determined by that.
LEMMA WholeFile ==
    ASSUME NEW f \in File, Complete(f)
    PROVE  f = [written |-> TRUE, spec |-> f.spec, mode |-> 420]
  BY DEF File, Complete

\* No step loses the document that was there.
LEMMA StepKeeps == IInv /\ Kept /\ [Next]_vars => Kept'
<1> SUFFICES ASSUME IInv, Kept, [Next]_vars PROVE Kept'
  OBVIOUS
<1> USE DEF Kept, NotYetReplaced, FailureKeepsADocument, BeforeRename, Written
<1>1. ASSUME NEW c \in Claims, NEW a \in Allocations \union {NoAllocation},
             ClaimChanges(c, a)
      PROVE  Kept'
  BY <1>1 DEF ClaimChanges
<1>2. CASE Signal
  BY <1>2 DEF Signal
<1>3. CASE Crash \/ PowerLoss
  BY <1>3 DEF Crash, PowerLoss
<1>4. CASE Tick \/ ShutDown \/ Start
  BY <1>4 DEF Tick, ShutDown, Start
<1>5. CASE ListFails
  <2>1. status'.reason = "kubernetes_api_unavailable"
    BY <1>5 DEF ListFails, MarkFailure, IInv, TypeOK
  <2>2. QED
    BY <1>5, <2>1 DEF ListFails
<1>6. CASE WriteFails
  <2>1. CASE pc \in BeforeRename
    BY <1>6, <2>1 DEF WriteFails, Returns
  <2>2. CASE pc \in Replaced
    <3>1. doc = [written |-> TRUE, spec |-> spec, mode |-> 420]
      BY <2>2, WholeFile DEF IInv, DocumentProgress
    <3>2. pc' = "select" /\ doc' = doc /\ spec' = spec /\ temp' = NoFile
      BY <1>6 DEF WriteFails, Returns
    <3>3. QED
      BY <3>1, <3>2
  <2>3. QED
    BY <1>6, <2>1, <2>2 DEF WriteFails, Returns, WriteCalls, Replaced
<1>7. CASE Refresh
  BY <1>7 DEF Refresh
<1>8. CASE CreateTemp \/ WriteData \/ Sync \/ Chmod \/ CloseTemp
           \/ validateGeneratedFile
  BY <1>8 DEF CreateTemp, WriteData, Sync, Chmod, CloseTemp,
     validateGeneratedFile, Returns
<1>9. CASE Rename \/ OpenDir \/ SyncDir
  BY <1>9 DEF Rename, OpenDir, SyncDir, Returns
<1>10. CASE CloseDir
  <2>1. status'.reason = "ready"
    BY <1>10 DEF CloseDir, MarkReady
  <2>2. QED
    BY <1>10, <2>1 DEF CloseDir, Returns
<1>11. CASE UNCHANGED vars
  BY <1>11 DEF vars
<1>12. QED
  BY <1>1, <1>2, <1>3, <1>4, <1>5, <1>6, <1>7, <1>8, <1>9, <1>10, <1>11
     DEF Next, Proceed, Write

\* A write that reports failure leaves the previous document or the whole new
\* one, and no temporary file, whatever call failed.
THEOREM FailureKeepsADocumentHolds == Spec => []FailureKeepsADocument
<1>1. Init => Kept
  BY DEF Init, Kept, NotYetReplaced, FailureKeepsADocument, BeforeRename, Written
<1>2. IInv /\ Kept /\ [Next]_vars => Kept'
  BY StepKeeps
<1>3. Kept => FailureKeepsADocument
  BY DEF Kept
<1>4. QED
  BY <1>1, <1>2, <1>3, InductiveInvariant, PTL DEF Spec
=============================================================================
