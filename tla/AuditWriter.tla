---------------------------- MODULE AuditWriter ----------------------------
(***************************************************************************)
(* The audit log (src/infra/audit-writer.ts) and the work that is recorded *)
(* in it.  Records are written one at a time through the chain #tail, each *)
(* made durable before its writer goes on; the file is never truncated.    *)
(* Part of its capacity is reserved for the records that close what was    *)
(* already started, so that a full log refuses new work and nothing else.  *)
(*                                                                         *)
(* Executions, probes, transfers and the daemon itself are counted by the  *)
(* phase they are in; a member of a writing phase has a record in the      *)
(* chain.  The order of the chain is left open: any record may be next.    *)
(***************************************************************************)
EXTENDS Naturals

CONSTANTS
    MaxBytes,               \* maxBytes
    MaxRecord,              \* MAX_AUDIT_RECORD_BYTES
    RecordBytes,            \* the largest record the fixed schema admits
    MaxExecutions,          \* maxConcurrentExecutions
    MaxTransfers,           \* maxConcurrentTransfers
    MaxProbing,             \* bound: probes not yet answered
    MaxFailures             \* bound: file operations that fail

Reserved == (MaxExecutions * 2 + MaxTransfers) * MaxRecord + 2 * MaxRecord

\* Mutant: only the daemon's own last records have room reserved.
LimitForShutdownOnly == MaxBytes - 2 * MaxRecord

NormalWriteLimit == MaxBytes - Reserved

\* The constructor's checks, and what makes the reservation sufficient: a record is
\* much smaller than MAX_AUDIT_RECORD_BYTES, which pays for the second attempt of a
\* failed transfer and for the probes that have left their slot.
ASSUME AuditWriterAssumption ==
    /\ MaxBytes \in Nat /\ MaxRecord \in Nat \ {0} /\ RecordBytes \in 1..MaxRecord
    /\ MaxExecutions \in Nat \ {0} /\ MaxTransfers \in Nat \ {0}
    /\ MaxProbing \in Nat /\ MaxFailures \in Nat
    /\ MaxRecord + Reserved <= MaxBytes
    /\ RecordBytes * (2 * MaxExecutions + 2 * MaxTransfers + MaxProbing + 2) <= Reserved

VARIABLES
    size,                   \* bytes in the file
    handle,                 \* #handlePromise: "none", "open" or "failed"
    closed,                 \* #closed
    count,                  \* count[p]: how many are in phase p
    began,                  \* this daemon's first record is in the log
    failures

vars == <<size, handle, closed, count, began, failures>>

\* Phases with a record in the chain.  Those of FollowUps are the records of
\* isAuditFollowupRecord.
FollowUps == {"cancelling", "completing", "probe_completing", "reporting",
              "transfer_completing", "transfer_failing", "stopping", "ending"}
Normals == {"starting", "probe_starting", "transfer_starting", "beginning", "loading",
            "noticing"}
Writing == FollowUps \cup Normals
Phases == Writing \cup {"running", "probe_running", "probe_waiting", "transferring",
                        "new", "serving", "draining", "closing", "stopped"}

Init ==
    /\ size \in 0..MaxBytes                 \* left by earlier daemons
    /\ handle = "none"
    /\ closed = FALSE
    /\ count = [p \in Phases |-> IF p = "new" THEN 1 ELSE 0]
    /\ began = FALSE
    /\ failures = 0

\* One member goes from phase p to phase q; "none" is outside.
Moved(p, q) ==
    [x \in Phases |-> IF x = p THEN count[x] - 1 ELSE IF x = q THEN count[x] + 1 ELSE count[x]]

\* A member leaves p without writing, or calls write() on its way to q.
Goes(p, q) ==
    /\ count' = Moved(p, q)
    /\ UNCHANGED <<size, handle, closed, began, failures>>

----------------------------------------------------------------------------
(* write(): the link of the chain.                                         *)

\* Where the writer goes once its record is durable.
AfterDurable(p) ==
    CASE p = "starting" -> "running"
      [] p = "cancelling" -> "completing"
      [] p = "probe_starting" -> "probe_running"
      [] p = "probe_completing" -> "probe_waiting"
      [] p = "transfer_starting" -> "transferring"
      [] p = "beginning" -> "loading"
      [] p = "loading" -> "serving"
      [] p = "stopping" -> "draining"
      [] p = "ending" -> "closing"
      [] OTHER -> "none"

\* Where it goes when write() rejects: work is given up, a transfer that could not
\* record its success records a failure, a daemon that cannot start is stopped, and
\* stop() collects its failures and goes on.
AfterFailure(p) ==
    CASE p = "transfer_completing" -> "transfer_failing"
      [] p \in {"beginning", "loading"} -> "stopping"
      [] p = "stopping" -> "draining"
      [] p = "ending" -> "closing"
      [] OTHER -> "none"

WriteLimit(p) == IF p \in FollowUps THEN MaxBytes ELSE NormalWriteLimit

Fits(p, n) == size + n <= WriteLimit(p)

\* appendFile and sync succeed.
Durable(p, n) ==
    /\ count[p] > 0
    /\ handle # "failed"
    /\ Fits(p, n)
    /\ size' = size + n
    /\ handle' = "open"
    /\ count' = Moved(p, AfterDurable(p))
    /\ began' = (began \/ p = "beginning")
    /\ UNCHANGED <<closed, failures>>

\* "Audit log size limit reached", or the file could not be opened: the rejected
\* #handlePromise is kept, so no later record is written either.
Refused(p, n) ==
    /\ count[p] > 0
    /\ \/ handle = "failed" /\ UNCHANGED handle
       \/ handle # "failed" /\ ~Fits(p, n) /\ handle' = "open"
    /\ count' = Moved(p, AfterFailure(p))
    /\ UNCHANGED <<size, closed, began, failures>>

\* #openHandle, stat, appendFile or sync rejects; the first k bytes of the record
\* may have reached the file.
Broken(p, n, k) ==
    /\ count[p] > 0
    /\ handle # "failed"
    /\ failures < MaxFailures /\ failures' = failures + 1
    /\ \/ handle = "none" /\ handle' = "failed" /\ k = 0
       \/ handle' = "open" /\ (k = 0 \/ Fits(p, n))
    /\ size' = size + k
    /\ count' = Moved(p, AfterFailure(p))
    /\ UNCHANGED <<closed, began>>

----------------------------------------------------------------------------
(* The writers.                                                            *)

InSlot == count["starting"] + count["running"] + count["cancelling"] + count["completing"]
          + count["probe_starting"] + count["probe_running"] + count["probe_completing"]
Transferring == count["transfer_starting"] + count["transferring"]
                + count["transfer_completing"] + count["transfer_failing"]
Probing == count["probe_starting"] + count["probe_running"] + count["probe_completing"]
           + count["probe_waiting"] + count["reporting"]

\* Requests are taken until the server is closed, after "stopping" was written.
Listening == count["serving"] + count["stopping"] > 0 /\ began

\* #startExecution, #runFixedExecution and #runAuditedTransfer begin with a write.
StartExecution == Listening /\ InSlot < MaxExecutions /\ Goes("none", "starting")
StartProbe == /\ Listening /\ InSlot < MaxExecutions /\ Probing < MaxProbing
              /\ Goes("none", "probe_starting")
StartTransfer == Listening /\ Transferring < MaxTransfers /\ Goes("none", "transfer_starting")

\* The process ends; a cancelled execution records that first.  An unexpected error
\* leaves without a closing record.
ExecutionEnds == count["running"] > 0 /\ \E q \in {"cancelling", "completing", "none"} : Goes("running", q)
ProbeEnds == count["probe_running"] > 0 /\ \E q \in {"probe_completing", "none"} : Goes("probe_running", q)
TransferEnds ==
    /\ count["transferring"] > 0
    /\ \E q \in {"transfer_completing", "transfer_failing"} : Goes("transferring", q)

\* #writeProbeAudit, outside the table of executions: nothing waits for it, so the
\* writer may be closed by now.
ReportProbe ==
    /\ count["probe_waiting"] > 0
    /\ Goes("probe_waiting", IF closed THEN "none" ELSE "reporting")

\* startGatewayDaemon and its stop().
BeginDaemon == count["new"] > 0 /\ Goes("new", "beginning")
\* "ready", and "registry.loaded" of a reload: at most one of each at a time.
Notice == count["serving"] > 0 /\ count["noticing"] < 2 /\ Goes("none", "noticing")
Stop == count["serving"] > 0 /\ Goes("serving", "stopping")
EndDaemon == /\ count["draining"] > 0 /\ InSlot = 0 /\ Transferring = 0
             /\ Goes("draining", "ending")

\* close(): later writes are refused; the handle is closed behind the last record.
Close ==
    /\ count["closing"] > 0 /\ ~closed
    /\ closed' = TRUE
    /\ UNCHANGED <<size, handle, count, began, failures>>

CloseHandle ==
    /\ count["closing"] > 0 /\ closed
    /\ \A p \in Writing : count[p] = 0
    /\ Goes("closing", "stopped")

----------------------------------------------------------------------------

\* normalizeAuditEvent: a fixed set of fields for each kind of record, every field
\* checked and of bounded length.  Of a record only its size matters here.
RecordSizes == 1..RecordBytes

Link(p) == \E n \in RecordSizes :
             Durable(p, n) \/ Refused(p, n) \/ (\E k \in 0..n : Broken(p, n, k))

Work == ExecutionEnds \/ ProbeEnds \/ TransferEnds \/ ReportProbe

Next ==
    \/ \E p \in Writing : Link(p)
    \/ StartExecution \/ StartProbe \/ StartTransfer \/ Work
    \/ BeginDaemon \/ Notice \/ Stop \/ EndDaemon \/ Close \/ CloseHandle

Spec == Init /\ [][Next]_vars

\* File operations return, one link after the other; work that is drained ends, and
\* the daemon goes on with its stop().
FairSpec ==
    /\ Spec
    /\ WF_vars(\E p \in Writing : Link(p)) /\ WF_vars(Link("stopping"))
    /\ WF_vars(ExecutionEnds \/ ProbeEnds \/ TransferEnds)
    /\ WF_vars(EndDaemon \/ Close \/ CloseHandle)

----------------------------------------------------------------------------
(* Properties.                                                             *)

TypeOK ==
    /\ size \in 0..MaxBytes
    /\ handle \in {"none", "open", "failed"}
    /\ closed \in BOOLEAN
    /\ count \in [Phases -> Nat]
    /\ began \in BOOLEAN
    /\ failures \in 0..MaxFailures

\* A record that closes started work, or a started daemon, is never refused for want
\* of space, however full the log is and whatever else is being recorded: when its
\* turn in the chain comes, even the largest record still fits.
ClosingRecordsFit ==
    /\ TypeOK
    /\ \A p \in FollowUps :
         (count[p] > 0 /\ (p \in {"stopping", "ending"} => began))
             => size + RecordBytes <= MaxBytes

\* stop() of a started daemon comes to its end with the log closed, also when the
\* log is full, as long as the work it waits for ends.
StopCloses == []<>(\E p \in {"new", "beginning", "loading", "serving", "stopped"} : count[p] > 0)
============================================================================
