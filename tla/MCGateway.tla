----------------------------- MODULE MCGateway -----------------------------
(***************************************************************************)
(* Three parts of the daemon that share no state, side by side: the audit  *)
(* log, the generations of the daemon and the registry of targets.  A      *)
(* behaviour is one of the part `under` names.                             *)
(***************************************************************************)
EXTENDS AuditWriter, Sequences

CONSTANTS Targets, MaxGenerations, DaemonFailures, MaxUpdates, MaxWork,
          Registries, Names, LocalRoots, Executables, Groups,           \* TargetRegistry's
          CheckLimit, AccessClientLimit, OperationLimit, DockerLimit

\* The daemon has a first generation, and no alias is taken for a resource of another kind.
ASSUME DaemonAssumption ==
    /\ MaxGenerations \in Nat \ {0}
    /\ DaemonFailures \in Nat /\ MaxUpdates \in Nat /\ MaxWork \in Nat
    /\ Targets \cap {"fallback", "wrapper"} = {}

VARIABLES under,
          starting, acquired, stopping, stopped, active, prepared, role, open, routes, retiredRunners, execUses,
          transferUses, reload, work, stuck, dFailures,
          configs, groups

Daemon == INSTANCE GatewayDaemon WITH MaxFailures <- DaemonFailures, failures <- dFailures

daemonVars == <<starting, acquired, stopping, stopped, active, prepared, role, open, routes, retiredRunners, execUses,
                transferUses, reload, work, stuck, dFailures>>
registryVars == <<configs, groups>>
allVars == <<under, vars, daemonVars, registryVars>>

-----------------------------------------------------------------------------
(* The registries that are checked: one target with every combination of   *)
(* rights, or two with every combination of names.                         *)

Registry == INSTANCE TargetRegistry

ASSUME RegistriesAssumption == Registry!RegistryAssumption

Name(letters, spelling) == <<letters, spelling>>
Policies == [mode : {"full-access", "deny"}, commands : {{}}, presets : {{}}, logPaths : {{}}, logServices : {{}},
             maxTimeout : {1, DockerLimit + 1}]
            \cup [mode : {"allow-list"}, commands : {{"listed"}}, presets : {{}}, logPaths : {{}}, logServices : {{}},
                  maxTimeout : {1, DockerLimit + 1}]
            \cup [mode : {"presets"}, commands : {{}},
                  presets : {{}, {"log-inspection"}, {"basic-inspection", "docker-readonly", "docker-protection"}},
                  logPaths : {{}, {"drive", "rooted"}, {"rooted"}}, logServices : {{}, {"service"}},
                  maxTimeout : {DockerLimit + 1}]
Shared(S) == {c \in S : c.connection = "accessclient-share" <=> c.share # {}}
Targets1 == [targetId : {{}}, previous : {{}}, sshAlias : {Name("s", "lower")}, share : {{}, {"u@h:22"}}, group : {"none"},
             enabled : BOOLEAN, platform : {"linux", "windows"},
             connection : {"openssh", "accessclient-share", "tailscale-ssh"}, policy : Policies,
             transfer : [mode : {"deny", "upload", "download", "bidirectional"}, roots : SUBSET LocalRoots,
                         maxTimeout : {1, DockerLimit + 1}]]
Targets2(mode, sshLetters) ==
    [targetId : {{}, {Name("t", "lower")}, {Name("a", "upper")}},
     previous : {{}, {Name("b", "upper")}, {Name("c", "lower")}, {Name("c", "lower"), Name("t", "upper")}},
     sshAlias : {Name(sshLetters, "lower"), Name("s", "upper")}, share : {{}, {"u@h:22"}}, group : {"none"} \cup Groups,
     enabled : {TRUE}, platform : {"linux"}, connection : {"openssh", "accessclient-share"},
     policy : {p \in Policies : p.mode = mode /\ p.maxTimeout > 1},
     transfer : [mode : {"deny"}, roots : {{}}, maxTimeout : {1}]]
CheckedRegistries ==
    [{Name("a", "lower")} -> Shared(Targets1)]
    \cup {[a \in {Name("a", "lower"), Name("b", "lower")} |-> IF a = Name("a", "lower") THEN c ELSE d] :
             c \in Shared(Targets2("full-access", "r")), d \in Shared(Targets2("deny", "s"))}
CheckedNames == {Name("a", "lower"), Name("a", "upper"), Name("b", "lower")}
-----------------------------------------------------------------------------

AllInit == /\ under \in {"audit", "daemon", "registry"}
           /\ Init /\ (under # "audit" => size = 0)
           /\ Daemon!Init
           /\ IF under = "registry" THEN Registry!Init ELSE configs = <<>> /\ groups = {}

AllNext == \/ under = "audit" /\ Next /\ UNCHANGED <<under, daemonVars, registryVars>>
           \/ under = "daemon" /\ Daemon!Next /\ UNCHANGED <<under, vars, registryVars>>
           \/ under = "registry" /\ Registry!Next /\ UNCHANGED <<under, vars, daemonVars>>

\* The fairness of each part, as its module explains it.
AuditFairness ==
    /\ WF_vars(under = "audit" /\ \E p \in Writing : Link(p)) /\ WF_vars(under = "audit" /\ Link("stopping"))
    /\ WF_vars(under = "audit" /\ (ExecutionEnds \/ ProbeEnds \/ TransferEnds))
    /\ WF_vars(under = "audit" /\ (EndDaemon \/ Close \/ CloseHandle))
DaemonFairness ==
    /\ WF_daemonVars(under = "daemon" /\ Daemon!Acquire)
    /\ WF_daemonVars(under = "daemon" /\ Daemon!Reloading) /\ WF_daemonVars(under = "daemon" /\ Daemon!StopStep)
    /\ WF_daemonVars(under = "daemon" /\ \E w \in work : Daemon!WorkEnds(w))

AllSpec == AllInit /\ [][AllNext]_allVars /\ AuditFairness /\ DaemonFairness

-----------------------------------------------------------------------------
(* The properties of the daemon.                                           *)

\* GatewayDaemon!GenerationInUse: work keeps its runner and both services follow every
\* reload, removal and metadata update together.
GenerationInUse == Daemon!GenerationInUse

\* GatewayDaemon!StopIsComplete: stop() leaves nothing behind and gives up the lease last.
StopIsComplete == Daemon!StopIsComplete

\* Whatever stop() meets, it ends: the reload, the removal, the work and the tasks it
\* waits for, and the audit log it writes to and closes last, full or broken.
EveryStopEnds == Daemon!StopEnds /\ StopCloses

\* TargetRegistry!RightsAsListed: what list() shows of a target is what its requests are
\* granted, under each of its names and after any removals and metadata updates.
RightsAsListed == Registry!RightsAsListed
=============================================================================
