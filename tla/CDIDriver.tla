------------------------------ MODULE CDIDriver ------------------------------
(***************************************************************************)
(* The synthetic node plugin (cmd/draforge-sim-driver): every refresh      *)
(* lists the claims, builds the CDI document of this node and replaces the *)
(* document on disk through a temporary file, and the readiness status     *)
(* says whether the last refresh succeeded.  The file system keeps what a  *)
(* reader sees apart from what survives a power loss: fsync stores the     *)
(* content of a file, the fsync of the directory makes a rename durable.   *)
(***************************************************************************)
EXTENDS Integers, FiniteSets

CONSTANTS
    Modes,          \* the values of -output-mode to consider
    NumClaims,      \* claims 1..NumClaims, in namespace/name order
    Allocations,    \* the allocations a claim may carry
    Devices,        \* allocation results: [driver, pool, device]
    SimDrivers,     \* the drivers isSimulatedDriver accepts
    NodeName,       \* the node of this process
    DemoDevices,    \* the devices of the demo document
    NoAllocation,
    NoFile,
    MaxChanges,     \* bound: allocations written or cleared by others
    MaxFaults,      \* bound: system and API calls that fail
    MaxCrashes      \* bound: signals, process deaths and power losses

VARIABLES
    mode,       \* options.OutputMode
    claims,     \* Status.Allocation of every claim, at the API server
    pc,         \* the next call of the process
    stopping,   \* ctx is done: a signal
    spec,       \* the document Refresh builds: pairs of a device and a claim
    temp,       \* the temporary file, as the process sees it
    flushed,    \* the same file, as far as fsync has stored it
    doc,        \* the file at cdiPath
    stable,     \* the files a power loss may leave at cdiPath
    status,     \* driverStatus
    good,       \* history: the document when the refresh began to write
    changes, faults, crashes

vars == <<mode, claims, pc, stopping, spec, temp, flushed, doc, stable,
          status, good, changes, faults, crashes>>
envVars == <<mode, claims, changes>>

Claims == 1..NumClaims
Specs == SUBSET ((Devices \union DemoDevices) \X (0..NumClaims))
File == [written : BOOLEAN, spec : Specs, mode : {384, 420}]   \* 0600, 0644
WriteCalls == {"createTemp", "write", "syncData", "chmod", "syncMode",
               "close", "validate", "rename", "openDir", "syncDir", "closeDir"}

ASSUME CDIAssumption ==
    /\ NumClaims \in Nat
    /\ Modes \subseteq {"demo", "node"}
    /\ IsFiniteSet(Devices) /\ IsFiniteSet(DemoDevices)
    /\ \A a \in Allocations : a.results \subseteq Devices
    /\ NoAllocation \notin Allocations
    /\ NoFile \notin File
    /\ MaxChanges \in Nat /\ MaxFaults \in Nat /\ MaxCrashes \in Nat

\* The initial driverStatus.
newDriverStatus == [ready |-> FALSE, reason |-> "initializing", devices |-> 0]

\* A temporary file exists only while Write is between CreateTemp and Rename.
TypeOK ==
    /\ mode \in Modes
    /\ claims \in [Claims -> Allocations \union {NoAllocation}]
    /\ pc \in WriteCalls \union {"down", "refresh", "select"}
    /\ stopping \in BOOLEAN
    /\ spec \in Specs
    /\ temp \in File \union {NoFile}
    /\ flushed \in File \union {NoFile}
    /\ doc \in File \union {NoFile}
    /\ stable \in SUBSET (File \union {NoFile})
    /\ status \in [ready : BOOLEAN,
                   reason : {"initializing", "ready",
                             "kubernetes_api_unavailable", "cdi_write_failed"},
                   devices : Nat]
    /\ good \in File \union {NoFile}
    /\ changes \in 0..MaxChanges
    /\ faults \in 0..MaxFaults
    /\ crashes \in 0..MaxCrashes
    /\ pc \notin WriteCalls => temp = NoFile
-----------------------------------------------------------------------------
(* The document.                                                           *)

\* Some selector term names this node; the operator is not looked at.
allocationMatchesNode(allocation, nodeName) == nodeName \in allocation.nodes

isSimulatedDriver(driver) == driver \in SimDrivers

\* Claim c of the list has a result for device d that belongs on the node.
Publishes(list, c, d, nodeName) ==
    /\ list[c] # NoAllocation
    /\ d \in list[c].results
    /\ allocationMatchesNode(list[c], nodeName) \/ d.pool = nodeName
    /\ isSimulatedDriver(d.driver)

\* One entry for every device identity, for its first claim in name order.
buildCDISpec(list, nodeName) ==
    {e \in Devices \X Claims :
        /\ Publishes(list, e[2], e[1], nodeName)
        /\ \A b \in 1..(e[2] - 1) : ~Publishes(list, b, e[1], nodeName)}

demoCDISpec == DemoDevices \X {0}
-----------------------------------------------------------------------------
(* Others: the allocator, the operator, the machine.                       *)

\* A claim is allocated, or its allocation is released.
ClaimChanges(c, allocation) ==
    /\ changes < MaxChanges
    /\ (claims[c] = NoAllocation) # (allocation = NoAllocation)
    /\ claims' = [claims EXCEPT ![c] = allocation]
    /\ changes' = changes + 1
    /\ UNCHANGED <<mode, pc, stopping, spec, temp, flushed, doc, stable,
                   status, good, faults, crashes>>

Signal ==
    /\ pc # "down"
    /\ ~stopping
    /\ crashes < MaxCrashes
    /\ stopping' = TRUE
    /\ crashes' = crashes + 1
    /\ UNCHANGED <<envVars, pc, spec, temp, flushed, doc, stable, status,
                   good, faults>>

\* The process dies between two calls, or returns because its health server
\* failed.  Its temporary file stays under a name nobody uses again.
Crash ==
    /\ pc # "down"
    /\ crashes < MaxCrashes
    /\ crashes' = crashes + 1
    /\ pc' = "down"
    /\ stopping' = FALSE
    /\ temp' = NoFile
    /\ flushed' = NoFile
    /\ UNCHANGED <<envVars, spec, doc, stable, status, good, faults>>

\* The machine loses power and comes back with what was stable.
PowerLoss ==
    /\ crashes < MaxCrashes
    /\ crashes' = crashes + 1
    /\ doc' \in stable
    /\ stable' = {doc'}
    /\ pc' = "down"
    /\ stopping' = FALSE
    /\ temp' = NoFile
    /\ flushed' = NoFile
    /\ UNCHANGED <<envVars, spec, status, good, faults>>
-----------------------------------------------------------------------------
(* runSimDriver.                                                           *)

\* The directory probe passes and the health server and the first refresh
\* start.  A start that fails leaves nothing behind and is tried again.
Start ==
    /\ pc = "down"
    /\ pc' = "refresh"
    /\ status' = newDriverStatus
    /\ UNCHANGED <<envVars, stopping, spec, temp, flushed, doc, stable, good,
                   faults, crashes>>

\* Mutant of Tick: only a successful refresh is repeated.
TickWhenReady ==
    /\ pc = "select"
    /\ status.ready
    /\ pc' = "refresh"
    /\ UNCHANGED <<envVars, stopping, spec, temp, flushed, doc, stable,
                   status, good, faults, crashes>>

Tick ==
    /\ pc = "select"
    /\ pc' = "refresh"
    /\ UNCHANGED <<envVars, stopping, spec, temp, flushed, doc, stable,
                   status, good, faults, crashes>>

\* ctx is done: the health server is shut down and the process returns.
ShutDown ==
    /\ pc = "select"
    /\ stopping
    /\ pc' = "down"
    /\ stopping' = FALSE
    /\ UNCHANGED <<envVars, spec, temp, flushed, doc, stable, status, good,
                   faults, crashes>>
-----------------------------------------------------------------------------
(* Refresh.                                                                *)

MarkReady == status' = [ready |-> TRUE, reason |-> "ready",
                        devices |-> Cardinality(spec)]

MarkFailure(reason) ==
    status' = [status EXCEPT !.ready = FALSE, !.reason = reason]

\* The document is built, in node mode from the claims listed now.
Refresh ==
    /\ pc = "refresh"
    /\ \/ mode = "demo" /\ spec' = demoCDISpec
       \/ mode = "node" /\ ~stopping /\ spec' = buildCDISpec(claims, NodeName)
    /\ good' = doc
    /\ pc' = "createTemp"
    /\ UNCHANGED <<envVars, stopping, temp, flushed, doc, stable, status,
                   faults, crashes>>

\* The list fails: an API error, or ctx is done.
ListFails ==
    /\ pc = "refresh"
    /\ mode = "node"
    /\ \/ stopping /\ UNCHANGED faults
       \/ faults < MaxFaults /\ faults' = faults + 1
    /\ MarkFailure("kubernetes_api_unavailable")
    /\ pc' = "select"
    /\ UNCHANGED <<envVars, stopping, spec, temp, flushed, doc, stable, good,
                   crashes>>
-----------------------------------------------------------------------------
(* atomicCDIWriter.Write: one action for every call.                       *)

Returns(from, to) ==
    /\ pc = from
    /\ pc' = to
    /\ UNCHANGED <<envVars, stopping, spec, good, crashes>>

CreateTemp ==
    /\ Returns("createTemp", "write")
    /\ temp' = [written |-> FALSE, spec |-> {}, mode |-> 384]
    /\ flushed' = temp'
    /\ UNCHANGED <<doc, stable, status, faults>>

WriteData ==
    /\ Returns("write", "syncData")
    /\ temp' = [written |-> TRUE, spec |-> spec, mode |-> temp.mode]
    /\ UNCHANGED <<flushed, doc, stable, status, faults>>

\* Mutant of Sync: nothing is flushed.
SyncSkipped ==
    /\ \/ Returns("syncData", "chmod")
       \/ Returns("syncMode", "close")
    /\ UNCHANGED <<temp, flushed, doc, stable, status, faults>>

Sync ==
    /\ \/ Returns("syncData", "chmod")
       \/ Returns("syncMode", "close")
    /\ flushed' = temp
    /\ UNCHANGED <<temp, doc, stable, status, faults>>

\* A file system may accept a mode and not keep it.
Chmod ==
    /\ Returns("chmod", "syncMode")
    /\ \/ temp' = [temp EXCEPT !.mode = 420] /\ UNCHANGED faults
       \/ faults < MaxFaults /\ faults' = faults + 1 /\ UNCHANGED temp
    /\ UNCHANGED <<flushed, doc, stable, status>>

CloseTemp ==
    /\ Returns("close", "validate")
    /\ UNCHANGED <<temp, flushed, doc, stable, status, faults>>

validateGeneratedFile ==
    /\ Returns("validate", "rename")
    /\ temp.mode = 420
    /\ UNCHANGED <<temp, flushed, doc, stable, status, faults>>

Rename ==
    /\ Returns("rename", "openDir")
    /\ doc' = temp
    /\ stable' = stable \union {temp, flushed}
    /\ temp' = NoFile
    /\ UNCHANGED <<flushed, status, faults>>

OpenDir ==
    /\ Returns("openDir", "syncDir")
    /\ UNCHANGED <<temp, flushed, doc, stable, status, faults>>

\* Mutant of SyncDir: the directory is not flushed.
SyncDirSkipped ==
    /\ Returns("syncDir", "closeDir")
    /\ UNCHANGED <<temp, flushed, doc, stable, status, faults>>

SyncDir ==
    /\ Returns("syncDir", "closeDir")
    /\ stable' = {flushed}
    /\ UNCHANGED <<temp, flushed, doc, status, faults>>

\* The last call succeeds: Write returns nil and Refresh marks it.
CloseDir ==
    /\ Returns("closeDir", "select")
    /\ flushed' = NoFile
    /\ MarkReady
    /\ UNCHANGED <<temp, doc, stable, faults>>

\* Mutant of WriteFails: what is removed is the document.
WriteFailsRemovingDocument ==
    /\ \E call \in WriteCalls : Returns(call, "select")
    /\ \/ pc = "validate" /\ temp.mode # 420 /\ UNCHANGED faults
       \/ faults < MaxFaults /\ faults' = faults + 1
    /\ MarkFailure("cdi_write_failed")
    /\ doc' = NoFile
    /\ temp' = NoFile
    /\ flushed' = NoFile
    /\ UNCHANGED stable

\* A call fails, or the mode is wrong: the deferred function removes the
\* temporary file, Write returns the error and Refresh marks it.
WriteFails ==
    /\ \E call \in WriteCalls : Returns(call, "select")
    /\ \/ pc = "validate" /\ temp.mode # 420 /\ UNCHANGED faults
       \/ faults < MaxFaults /\ faults' = faults + 1
    /\ MarkFailure("cdi_write_failed")
    /\ temp' = NoFile
    /\ flushed' = NoFile
    /\ UNCHANGED <<doc, stable>>
-----------------------------------------------------------------------------
Init ==
    /\ mode \in Modes
    /\ claims = [c \in Claims |-> NoAllocation]
    /\ pc = "down"
    /\ stopping = FALSE
    /\ spec = {}
    /\ temp = NoFile
    /\ flushed = NoFile
    /\ doc = NoFile
    /\ stable = {NoFile}
    /\ status = newDriverStatus
    /\ good = NoFile
    /\ changes = 0
    /\ faults = 0
    /\ crashes = 0

Write ==
    \/ CreateTemp \/ WriteData \/ Sync \/ Chmod \/ CloseTemp
    \/ validateGeneratedFile \/ Rename \/ OpenDir \/ SyncDir \/ CloseDir

\* What the process does next when no call fails.
Proceed == Start \/ Refresh \/ Write

Next ==
    \/ \E c \in Claims, a \in Allocations \union {NoAllocation} :
            ClaimChanges(c, a)
    \/ Signal
    \/ Crash
    \/ PowerLoss
    \/ Tick
    \/ ShutDown
    \/ ListFails
    \/ WriteFails
    \/ Proceed

\* The process runs when it can; the ticker keeps firing; a select in which
\* ctx.Done() is ready again and again takes it in the end (Go picks the
\* ready case at random).  Failures, signals and crashes may never happen.
Spec ==
    /\ Init
    /\ [][Next]_vars
    /\ WF_vars(Proceed)
    /\ WF_vars(Tick)
    /\ WF_vars(pc = "refresh" /\ stopping /\ ListFails)
    /\ WF_vars(pc = "validate" /\ temp.mode # 420 /\ WriteFails)
    /\ SF_vars(ShutDown)
-----------------------------------------------------------------------------
(* Properties.                                                             *)

Complete(f) == f.written /\ f.mode = 420

\* Whatever crashes, at any call, the document a reader finds at cdiPath, now
\* or after a power loss, is a whole document with the mode 0644 (or there
\* has never been one): temp.Sync comes before rename, twice.
DocumentsAreComplete ==
    \A f \in stable \union {doc} : f = NoFile \/ Complete(f)

\* When /readyz reports ready between two refreshes, the document on disk is
\* the one the last refresh built, a power loss cannot take it back, and the
\* reported number of devices is the document's.
ReadyMeansPublished ==
    pc = "select" /\ status.ready =>
        /\ doc # NoFile
        /\ doc.spec = spec
        /\ stable = {doc}
        /\ status.devices = Cardinality(doc.spec)

\* The document this node should have now.
Wanted == IF mode = "demo" THEN demoCDISpec ELSE buildCDISpec(claims, NodeName)

\* Once failures, crashes and allocations stop, the document comes to be the
\* wanted one and the driver to report ready, and both stay so: failed
\* refreshes are retried by the ticker.
Converges == <>[](pc # "down" /\ status.ready /\ doc # NoFile /\ doc.spec = Wanted)

\* A write that fails, at whichever call, leaves the document that was there
\* before it or, when the rename was done, the whole new one, so that a reader
\* never loses a document it had; and it leaves no temporary file, so that
\* failing refreshes do not fill the directory.
FailureKeepsADocument ==
    pc = "select" /\ status.reason = "cdi_write_failed" =>
        /\ temp = NoFile
        /\ good # NoFile => \/ doc = good
                           \/ doc = [written |-> TRUE, spec |-> spec, mode |-> 420]

\* A write that fails preserves the last-known-good document: the file is the
\* one that was there before it (docs/architecture.md:115,
\* docs/operations/install.md:114).
FailurePreservesDocument ==
    pc = "select" /\ status.reason = "cdi_write_failed" /\ good # NoFile => doc = good
=============================================================================
