--------------------------- MODULE TargetRegistry ---------------------------
(***************************************************************************)
(* Who may do what on which machine: the cross-field rules of              *)
(* src/config/load-config.ts, the registry built from a configuration      *)
(* (src/core/target-registry.ts) and the catalogue of preset operations    *)
(* (src/shared/operation-presets.ts).                                      *)
(*                                                                         *)
(* A registry is immutable; removing targets and updating metadata make a  *)
(* new one from the old one's configurations.  What list() tells clients   *)
(* is computed once from a configuration, what a request is granted is     *)
(* computed anew at each request.  A name is a pair of its letters and     *)
(* the way they are written; an optional value that is no string is a set  *)
(* of at most one element.  The size limits and the remote roots of a      *)
(* transfer policy are left to the transfers.                              *)
(***************************************************************************)
EXTENDS Naturals

CONSTANTS Registries,   \* configurations of all targets an operator may write: alias -> configuration
          Names,        \* names of targets: <<letters, spelling>>
          LocalRoots,   \* config.transfer.localRoots
          Executables,  \* which of config.putty and config.tailscale are given
          Groups,       \* names of groups
          CheckLimit, AccessClientLimit, OperationLimit, DockerLimit   \* the fixed limits of the run times

VARIABLES configs,      \* #configs: alias -> configuration
          groups        \* #groups: the catalogue of groups

registryVars == <<configs, groups>>

None == "none"
Fold(name) == name[1]
Lower(m, n) == IF m < n THEN m ELSE n

-----------------------------------------------------------------------------
(* The configuration that loadConfig accepts.                              *)

\* What the schemas say of one target: its fields, at most one identifier, known modes, and time limits.
\* "listed" stands for the commands of an allow-list, which no other policy has.
Fields == {"targetId", "previous", "sshAlias", "share", "group", "enabled", "platform", "connection", "policy", "transfer"}
WellFormed(c) ==
    /\ c = [field \in Fields |-> c[field]]
    /\ c.enabled \in BOOLEAN
    /\ \A m, n \in c.targetId : m = n
    /\ c.policy.mode \in {"full-access", "allow-list", "presets", "deny"}
    /\ c.policy.commands \cap {"listed", "other"} = IF c.policy.mode = "allow-list" THEN {"listed"} ELSE {}
    /\ c.policy.maxTimeout \in Nat \ {0}
    /\ c.transfer.mode \in {"deny", "upload", "download", "bidirectional"}
    /\ c.transfer.maxTimeout \in Nat \ {0}
RegistryAssumption ==
    /\ {CheckLimit, AccessClientLimit, OperationLimit, DockerLimit} \subseteq Nat \ {0}
    /\ \A cs \in Registries : \A a \in DOMAIN cs : WellFormed(cs[a])

\* Every identifier of every target, with what it is an identifier of.
Identifiers(cs) == {<<a, "alias", a>> : a \in DOMAIN cs}
                   \cup (UNION {{<<a, "targetId", n>> : n \in cs[a].targetId} : a \in DOMAIN cs})
                   \cup (UNION {{<<a, "previous", n>> : n \in cs[a].previous} : a \in DOMAIN cs})
TargetsAccepted(cs) ==
    /\ \A a \in DOMAIN cs : cs[a].policy.mode = "presets" => cs[a].transfer.mode = "deny"
    /\ \A a, b \in DOMAIN cs : a # b =>
          /\ Fold(cs[a].sshAlias) # Fold(cs[b].sshAlias)
          /\ cs[a].share \cap cs[b].share = {}
    /\ \A i, j \in Identifiers(cs) : Fold(i[3]) = Fold(j[3]) => i = j
TransferAccepted(c) ==
    /\ c.connection = "tailscale-ssh" =>
          "tailscale" \in Executables /\ c.platform # "windows" /\ c.transfer.mode = "deny"
    /\ c.connection = "accessclient-share" => "putty" \in Executables /\ c.transfer.mode = "deny"
    /\ c.transfer.roots \subseteq LocalRoots
    /\ c.transfer.mode # "deny" => c.transfer.roots # {}
Accepted(cs) == TargetsAccepted(cs) /\ \A a \in DOMAIN cs : TransferAccepted(cs[a])

-----------------------------------------------------------------------------
(* The registry.                                                           *)

\* What a name is looked up by.
Key(name) == <<"name", Fold(name)>>
\* A digest of alias and sshAlias identifies a target that was given no identifier.
LegacyTargetId(a, sshAlias) == <<"digest", a, sshAlias>>
TargetId(a, c) == IF c.targetId = {} THEN LegacyTargetId(a, c.sshAlias) ELSE Key(CHOOSE n \in c.targetId : TRUE)

UnrestrictedTransfer(c) == c.policy.mode = "full-access" /\ c.connection # "tailscale-ssh"

\* Mutant: a Tailscale target is listed like any other.
TransferModeOfPolicy(c) == IF c.policy.mode = "presets" THEN "deny"
                           ELSE IF c.policy.mode = "full-access" THEN "bidirectional" ELSE c.transfer.mode

TransferMode(c) == IF c.policy.mode = "presets" \/ c.connection = "tailscale-ssh" THEN "deny"
                   ELSE IF UnrestrictedTransfer(c) THEN "bidirectional" ELSE c.transfer.mode

\* createEntry and toSummary: what list() shows of a target.
CreateEntry(a, c) ==
    [targetId      |-> TargetId(a, c),
     enabled       |-> c.enabled,
     policyMode    |-> c.policy.mode,
     transferMode  |-> TransferMode(c),
     transferScope |-> IF UnrestrictedTransfer(c) THEN "all" ELSE "restricted",
     transferRoots |-> IF UnrestrictedTransfer(c) \/ c.policy.mode = "presets" THEN {} ELSE c.transfer.roots,
     maxTimeout         |-> c.policy.maxTimeout,
     maxTransferTimeout |-> c.transfer.maxTimeout]

\* #references
References(cs, a) == {Key(n) : n \in {a} \cup cs[a].previous} \cup {TargetId(a, cs[a])}
Resolve(cs, reference) == {a \in DOMAIN cs : reference \in References(cs, a)}

GroupsOf(cs, gs) == gs \cup ({cs[a].group : a \in DOMAIN cs} \ {None})

-----------------------------------------------------------------------------
(* Preset operations.                                                      *)

\* PERMISSION_PRESETS, one operation for each way of being checked.
PresetOperations(preset) == CASE preset = "basic-inspection" -> {"system.cpu"}
                              [] preset = "log-inspection" -> {"logs.file", "logs.service"}
                              [] preset = "docker-readonly" -> {"docker.health"}
                              [] OTHER -> {}   \* docker-protection grants nothing
ValidPath(path, platform) == path = IF platform = "windows" THEN "drive" ELSE "rooted"

\* listPresetOperations: the operations with the resources offered for each.
ListPresetOperations(p, platform) ==
    LET allowed == UNION {PresetOperations(preset) : preset \in p.presets}
        paths   == {path \in p.logPaths : ValidPath(path, platform)}
    IN {<<op, None>> : op \in allowed \ {"logs.file", "logs.service"}}
       \cup (IF "logs.file" \in allowed THEN {<<"logs.file", path>> : path \in paths} ELSE {})
       \cup (IF "logs.service" \in allowed THEN {<<"logs.service", s>> : s \in p.logServices} ELSE {})

\* buildPresetOperation: the operation must be listed, then its resource is looked up again.
BuildPresetOperation(p, platform, op, resource) ==
    /\ \E offer \in ListPresetOperations(p, platform) : offer[1] = op
    /\ op = "logs.file" => resource \in p.logPaths /\ ValidPath(resource, platform)
    /\ op = "logs.service" => resource \in p.logServices

-----------------------------------------------------------------------------
(* Requests.  A grant is the longest time a run may take, 0 is a refusal.  *)

WithinTimeout(timeout, maximum) == timeout \subseteq 1..maximum
Granted(timeout, maximum) == IF timeout = {} THEN maximum ELSE CHOOSE t \in timeout : TRUE

\* authorize, authorizeStructured, authorizeOperation, authorizeCheck, authorizeDockerPreflight.
MayRun(c, r) ==
    \/ r.kind = "command" /\ (c.policy.mode = "full-access" \/ r.what \in c.policy.commands)
    \/ r.kind = "script" /\ c.policy.mode = "full-access"
    \/ /\ r.kind = "operation" /\ c.policy.mode = "presets"
       /\ BuildPresetOperation(c.policy, c.platform, r.what, r.on)
    \/ r.kind = "check"
    \/ r.kind = "docker" /\ c.policy.mode = "full-access"
RunLimit(c, r) ==
    CASE r.kind = "operation" -> Lower(c.policy.maxTimeout, OperationLimit)
      [] r.kind = "check" -> Lower(c.policy.maxTimeout,
                                   IF c.connection = "accessclient-share" THEN AccessClientLimit ELSE CheckLimit)
      [] r.kind = "docker" -> Lower(c.policy.maxTimeout, DockerLimit)
      [] OTHER -> c.policy.maxTimeout

\* authorizeTransfer.
DirectionAllowed(c, direction) ==
    \/ UnrestrictedTransfer(c)
    \/ c.transfer.mode = "bidirectional"
    \/ direction \in {"upload", "sync"} /\ c.transfer.mode = "upload"
    \/ direction = "download" /\ c.transfer.mode = "download"
MayTransfer(c, r) ==
    /\ r.kind = "transfer"
    /\ c.policy.mode # "presets" /\ c.connection # "tailscale-ssh"
    /\ DirectionAllowed(c, r.what)
    /\ ~UnrestrictedTransfer(c) => r.on \in c.transfer.roots
    /\ r.on # None => r.on \in LocalRoots

\* require, then the policy of the target.
Grant(cs, reference, r) ==
    LET found == Resolve(cs, reference) IN
    IF found = {} THEN 0
    ELSE LET c == cs[CHOOSE a \in found : TRUE]
             limit == IF r.kind = "transfer" THEN c.transfer.maxTimeout ELSE RunLimit(c, r)
         IN IF c.enabled /\ (MayRun(c, r) \/ MayTransfer(c, r)) /\ WithinTimeout(r.timeout, limit)
            THEN Granted(r.timeout, limit) ELSE 0

-----------------------------------------------------------------------------
\* fromConfig
Init == /\ configs \in {cs \in Registries : Accepted(cs)}
        /\ \E gs \in SUBSET Groups : groups = GroupsOf(configs, gs)

\* #assertRemovableAliases: canonical aliases only.
Removable(as) == as \subseteq DOMAIN configs
WithoutTargets(as) ==
    /\ Removable(as)
    /\ configs' = [a \in DOMAIN configs \ as |-> configs[a]]
    /\ groups' = GroupsOf(configs', groups)

\* Metadata names every target, and groups of the new catalogue only.
WithMetadata(catalogue, group) ==
    /\ DOMAIN group = DOMAIN configs
    /\ \A a \in DOMAIN group : group[a] # None => group[a] \in catalogue
    /\ configs' = [a \in DOMAIN configs |-> [configs[a] EXCEPT !.group = group[a]]]
    /\ groups' = GroupsOf(configs', catalogue)

Next == \/ \E as \in SUBSET Names : as # {} /\ WithoutTargets(as)
        \/ \E catalogue \in {groups} \cup SUBSET Groups, as \in SUBSET Names :
              \E group \in [as -> Groups \cup {None}] : WithMetadata(catalogue, group)

Spec == Init /\ [][Next]_registryVars

-----------------------------------------------------------------------------
Timeouts == {{}, {0}, {1}, {DockerLimit + 1}}
Requests == [kind : {"command"}, what : {"listed", "other"}, on : {None}, timeout : Timeouts]
            \cup [kind : {"script"}, what : {None}, on : {None}, timeout : Timeouts]
            \cup [kind : {"check", "docker"}, what : {None}, on : {None}, timeout : {{}}]
            \cup [kind : {"operation"}, what : {"system.cpu", "docker.health"}, on : {None}, timeout : Timeouts]
            \cup [kind : {"operation"}, what : {"logs.file"}, on : {"drive", "rooted"}, timeout : {{}}]
            \cup [kind : {"operation"}, what : {"logs.service"}, on : {"service", "stranger"}, timeout : {{}}]
            \cup [kind : {"transfer"}, what : {"upload", "download", "sync"}, on : LocalRoots \cup {None, "unknown"},
                  timeout : Timeouts]

\* What a client may expect who has seen the listed entry e of a target, and its operations.
Promised(e, offers, r) ==
    /\ e.enabled
    /\ \/ r.kind = "check"
       \/ r.kind \in {"script", "docker", "command"} /\ e.policyMode = "full-access"
       \/ r.kind = "command" /\ e.policyMode = "allow-list" /\ r.what = "listed"
       \/ r.kind = "operation" /\ <<r.what, r.on>> \in offers
       \/ /\ r.kind = "transfer"
          /\ e.transferMode \in {"bidirectional", IF r.what = "sync" THEN "upload" ELSE r.what}
          /\ IF e.transferScope = "all" THEN r.on \in LocalRoots \cup {None} ELSE r.on \in e.transferRoots

\* The lists of the registry in force tell what the registry `now` grants: a request within its time limit
\* is granted to each name, identifier and earlier alias of a target exactly when the listed entry promises
\* it, for no longer than the entry says; nothing is granted to the names of a target that was removed.
ListedIsGranted(now) ==
    \A a \in DOMAIN configs :
        LET c == configs[a]
            e == CreateEntry(a, c)
            offers == IF e.policyMode = "presets" THEN ListPresetOperations(c.policy, c.platform) ELSE {}
            maximum(r) == IF r.kind = "transfer" THEN e.maxTransferTimeout ELSE e.maxTimeout
        IN \A n \in References(configs, a), r \in Requests :
              LET g == Grant(now, n, r) IN
              IF a \notin DOMAIN now THEN g = 0
              ELSE /\ g > 0 => Promised(e, offers, r) /\ g <= maximum(r)
                   /\ Promised(e, offers, r) /\ r.timeout \in {{}, {1}} => g > 0

\* A client that was shown the targets gets what it was shown (createEntry and listPresetOperations against
\* authorize and its siblings), before and after each removal and metadata update (withoutTargets,
\* withMetadata), which change nobody's rights but the removed targets'; groups in use stay catalogued.
RightsAsListed ==
    [][/\ ListedIsGranted(configs) /\ ListedIsGranted(configs')
       /\ {configs'[a].group : a \in DOMAIN configs'} \subseteq groups' \cup {None}]_registryVars
=============================================================================
