--------------------------- MODULE ManagedProcess ---------------------------
(***************************************************************************)
(* One run of a supervised process: spawnManagedProcess of                 *)
(* src/infra/process-tree.ts under executeManagedCommand of                *)
(* src/infra/managed-command.ts or SftpExecutor.run of                     *)
(* src/infra/sftp-executor.ts.  The root is the process that was spawned,  *)
(* on Windows the Job Object supervisor; the tree stands for what it       *)
(* started, which may outlive it and keep its output open.                 *)
(*                                                                         *)
(* The caller's signal, the exit of a process, the close of the output and *)
(* the timers of the termination arrive in any order.  A kill may have no  *)
(* effect on a process that hangs in the kernel.                           *)
(***************************************************************************)

VARIABLES mode,     \* terminationMode
          payload,  \* there is a stdinPayload
          watched,  \* the signal is passed on to the preparation: not by SftpExecutor
          phase,    \* the await the run is in
          reason,   \* the error that ended the preparation: "none", "aborted" or "failed"
          root,     \* "none", "alive" or "dead"
          tree,     \* "none", "quiet", "writing" (it holds the output open) or "dead"
          term,     \* terminate(): "none", "asked", "forced", "done" or "failed"
          again,    \* the preparation asks for a termination that failed once more
          aborted,  \* the caller's signal
          asked,    \* abortRequested
          broken,   \* "none", "output" (outputError) or "process" (processError)
          result,   \* "none", "exited", "aborted" or "failed"
          inTime    \* the signal came before the process was seen closed (for the properties)

vars == <<mode, payload, watched, phase, reason, root, tree, term, again, aborted, asked, broken, result, inTime>>

Unsafe == "windows-taskkill-unsafe"
Modes == {"windows-job", Unsafe, "posix-process-group"}
AliveTree == tree \in {"quiet", "writing"}
Closed == root = "dead" /\ tree # "writing"   \* the child's close event

Init == /\ mode \in Modes /\ payload \in BOOLEAN /\ watched \in BOOLEAN
        /\ ~watched => payload   \* SftpExecutor sends its batch
        /\ phase = "new" /\ reason = "none"
        /\ root = "none" /\ tree = "none"
        /\ term = "none" /\ again = FALSE
        /\ aborted = FALSE /\ asked = FALSE /\ broken = "none"
        /\ result = "none" /\ inTime = FALSE

TypeOK == /\ mode \in Modes
          /\ phase \in {"new", "handshake", "payload", "undo", "running", "closed", "done"}
          /\ root \in {"none", "alive", "dead"}
          /\ tree \in {"none", "quiet", "writing", "dead"}
          /\ term \in {"none", "asked", "forced", "done", "failed"}
          /\ result \in {"none", "exited", "aborted", "failed"}

Return(r) == phase' = "done" /\ result' = r

-----------------------------------------------------------------------------
\* terminate() is remembered; on Windows a root that has exited needs none.
Terminating == IF term # "none" THEN term
               ELSE IF mode # "posix-process-group" /\ root = "dead" THEN "done" ELSE "asked"

\* Preparation failed or was aborted: the tree is terminated before the error goes on, by deliverDirectInput and,
\* if that failed, by its caller.
Undo(why) == /\ phase' = "undo" /\ reason' = why
             /\ term' = Terminating
             /\ again' = (phase = "payload" /\ mode # "windows-job")
             /\ UNCHANGED <<asked, result>>

\* Mutant: the signal is not looked at again once the process is prepared.
PreparedUnseen == /\ phase' = IF root = "dead" THEN "closed" ELSE "running"
                  /\ UNCHANGED <<reason, term, again, asked, result>>

\* The managed process is handed over.  The signal is looked at again, and so is whether the child has exited,
\* which counts as its close.
Prepared == IF watched /\ aborted
            THEN /\ phase' = "undo" /\ reason' = "aborted"
                 /\ term' = Terminating
                 /\ UNCHANGED <<again, asked, result>>
            ELSE /\ phase' = IF root = "dead" THEN "closed" ELSE "running"
                 /\ asked' = aborted
                 /\ term' = IF aborted THEN Terminating ELSE term
                 /\ UNCHANGED <<reason, again, result>>

\* executeManagedCommand, run: an aborted signal starts nothing.
Begin == /\ phase = "new"
         /\ \/ /\ aborted
               /\ Return("aborted")
               /\ UNCHANGED <<root, broken>>
            \/ /\ ~aborted
               /\ root' = "alive"
               /\ phase' = IF mode = "windows-job" THEN "handshake" ELSE IF payload THEN "payload" ELSE "running"
               /\ UNCHANGED <<broken, result>>
            \/ /\ ~aborted   \* the executable cannot be started, which an event reports
               /\ root' = "dead"
               /\ phase' = IF mode = "windows-job" THEN "handshake" ELSE IF payload THEN "payload" ELSE "running"
               /\ broken' = "process"
               /\ UNCHANGED result
         /\ UNCHANGED <<mode, payload, watched, reason, tree, term, again, aborted, asked, inTime>>

\* waitForSupervisorHandshake: ready, or an error, an exit, an invalid marker or the timer.
HandshakeDone == /\ phase = "handshake" /\ root = "alive"
                 /\ IF payload THEN phase' = "payload" /\ UNCHANGED <<reason, term, again, asked, result>> ELSE Prepared
                 /\ UNCHANGED <<mode, payload, watched, root, tree, aborted, broken, inTime>>
HandshakeFails == /\ phase = "handshake"
                  /\ Undo("failed")
                  /\ UNCHANGED <<mode, payload, watched, root, tree, aborted, broken, inTime>>

\* The payload is in the pipe, whether or not anybody reads it, or could not be written.
PayloadWritten == /\ phase = "payload" /\ broken = "none"
                  /\ Prepared
                  /\ UNCHANGED <<mode, payload, watched, root, tree, aborted, broken, inTime>>
PayloadFails == /\ phase = "payload"
                /\ Undo("failed")
                /\ UNCHANGED <<mode, payload, watched, root, tree, aborted, broken, inTime>>

Undone == /\ phase = "undo" /\ term \in {"done", "failed"}
          /\ IF term = "failed" /\ again
             THEN term' = "asked" /\ again' = FALSE /\ UNCHANGED <<phase, result>>
             ELSE Return(IF term = "done" THEN reason ELSE "failed") /\ UNCHANGED <<term, again>>
          /\ UNCHANGED <<mode, payload, watched, reason, root, tree, aborted, asked, broken, inTime>>

\* The caller aborts.
Abort == /\ ~aborted /\ phase # "done"
         /\ aborted' = TRUE
         /\ inTime' = (phase \notin {"undo", "closed"})
         /\ IF phase \in {"handshake", "payload"} /\ watched THEN Undo("aborted")
            ELSE IF phase = "running"
            THEN asked' = TRUE /\ term' = Terminating /\ UNCHANGED <<phase, reason, again, result>>
            ELSE UNCHANGED <<phase, reason, term, again, asked, result>>
         /\ UNCHANGED <<mode, payload, watched, root, tree, broken>>

\* The output sink rejects a chunk: the process is terminated and the run will fail.
SinkFails == /\ phase \in {"running", "closed"} /\ broken = "none" /\ root # "none"
             /\ ~(phase = "closed" /\ Closed)
             /\ broken' = "output"
             /\ term' = Terminating
             /\ UNCHANGED <<mode, payload, watched, phase, reason, root, tree, again, aborted, asked, result, inTime>>

CloseEvent == /\ phase = "running" /\ Closed
              /\ phase' = "closed"
              /\ UNCHANGED <<mode, payload, watched, reason, root, tree, term, again, aborted, asked, broken, result,
                             inTime>>

\* Both streams have been read to their end and the termination, if any, is over.
Outcomes == IF broken = "output" \/ (broken = "process" /\ ~asked) \/ term = "failed" THEN {"failed"}
            ELSE IF mode = "windows-job" THEN {IF asked THEN "aborted" ELSE "exited", "failed"}
            ELSE {IF asked THEN "aborted" ELSE "exited"}
Finish == /\ phase = "closed" /\ Closed /\ term \in {"none", "done", "failed"}
          /\ \E r \in Outcomes : Return(r)
          /\ UNCHANGED <<mode, payload, watched, reason, root, tree, term, again, aborted, asked, broken, inTime>>

-----------------------------------------------------------------------------
(* terminate()                                                             *)
Dies(who) == who \in {"alive", "quiet", "writing"}
\* signalSupervisor ends its input: it exits, and the job takes the tree along; or taskkill; or the group's SIGKILL.
TreeKilled == /\ term = "asked"
              /\ root' = (IF Dies(root) THEN "dead" ELSE root)
              /\ tree' = IF Dies(tree) THEN "dead" ELSE tree
              /\ UNCHANGED <<mode, payload, watched, phase, reason, term, again, aborted, asked, broken, result, inTime>>

\* waitForClose, waitForPosixProcessGroupExit: a root that has exited counts if it had when the wait began, and its
\* close otherwise.
Gone == root # "alive" /\ (mode = "posix-process-group" => ~AliveTree)
Overdue == IF mode = "posix-process-group" THEN ~Gone ELSE ~Closed
TerminationSeen == /\ term \in {"asked", "forced"} /\ Gone
                   /\ term' = "done"
                   /\ UNCHANGED <<mode, payload, watched, phase, reason, root, tree, again, aborted, asked, broken,
                                  result, inTime>>

\* Two seconds later: on Windows the root alone is killed, with its job if it has one; a group is given up, the
\* root having been killed if the group could not be signalled.
TerminationTimeout ==
    /\ term = "asked" /\ Overdue
    /\ term' = IF mode = "posix-process-group" THEN "failed" ELSE "forced"
    /\ \/ UNCHANGED <<root, tree>>
       \/ /\ root' = "dead"
          /\ tree' = IF mode = "windows-job" /\ Dies(tree) THEN "dead" ELSE tree
    /\ UNCHANGED <<mode, payload, watched, phase, reason, again, aborted, asked, broken, result, inTime>>
ForceKillFails == /\ term = "forced" /\ Overdue
                  /\ term' = "failed"
                  /\ UNCHANGED <<mode, payload, watched, phase, reason, root, tree, again, aborted, asked, broken,
                                 result, inTime>>

-----------------------------------------------------------------------------
(* The processes.  A job ends with its supervisor.                         *)
RootExits == /\ root = "alive"
             /\ root' = "dead"
             /\ tree' = IF mode = "windows-job" /\ AliveTree THEN "dead" ELSE tree
             /\ UNCHANGED <<mode, payload, watched, phase, reason, term, again, aborted, asked, broken, result, inTime>>
TreeStarts == /\ root = "alive" /\ tree = "none" /\ phase # "handshake"
              /\ tree' \in {"quiet", "writing"}
              /\ UNCHANGED <<mode, payload, watched, phase, reason, root, term, again, aborted, asked, broken, result,
                             inTime>>
TreeEnds == /\ AliveTree
            /\ tree' = "dead"
            /\ UNCHANGED <<mode, payload, watched, phase, reason, root, term, again, aborted, asked, broken, result,
                           inTime>>

Next == \/ Begin \/ HandshakeDone \/ HandshakeFails \/ PayloadWritten \/ PayloadFails \/ Undone
        \/ Abort \/ SinkFails \/ CloseEvent \/ Finish
        \/ TreeKilled \/ TerminationSeen \/ TerminationTimeout \/ ForceKillFails
        \/ RootExits \/ TreeStarts \/ TreeEnds

Spec == Init /\ [][Next]_vars

-----------------------------------------------------------------------------
(***************************************************************************)
(* A run that was aborted or failed has left no process behind, unless it  *)
(* could not be killed, which fails the run, or the operator allowed the   *)
(* unsafe mode.  The abort may come at any await.                          *)
(***************************************************************************)
NoProcessLeft == result \in {"aborted", "failed"} /\ mode # Unsafe /\ term # "failed" => root # "alive" /\ ~AliveTree

(***************************************************************************)
(* A signal that came before the process was seen closed is never lost: no *)
(* such run is reported as having ended by itself, also when the signal    *)
(* fell between two of the places that look at it.                         *)
(***************************************************************************)
AbortHeard == result = "exited" => ~inTime
=============================================================================
