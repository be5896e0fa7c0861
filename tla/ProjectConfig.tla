----------------------------- MODULE ProjectConfig -----------------------------
(* The project's configuration file: the store that reads, validates and       *)
(* writes it (packages/config/src/config-store.ts, validate.ts,                *)
(* migrations.ts), the MCP tools that edit it (packages/mcp/src/tools.ts), and *)
(* the start of the daemon that routes every role by it                        *)
(* (apps/cli/src/daemon.ts, packages/harness/src/role-router.ts).              *)
(*                                                                             *)
(* Requests run side by side and every wait for the disk is a step. The file   *)
(* is an inode the path names: opening the shared temporary path truncates the *)
(* inode another writer may still hold.                                        *)
EXTENDS Integers, FiniteSets

CONSTANTS
  Profiles,      \* harness profiles
  Roles,         \* roles
  DefaultRole,   \* "verifier", the role a verification profile names by default
  Edits,         \* what each request asks for, from its name: see Edit
  EditRequests,  \* the names
  InitialFile,   \* the configuration on disk at the start
  Unset,
  File,          \* the inode of the file at the start; a writer makes one of its own
  Empty,         \* of a file that was just opened
  Mixed          \* the bytes of two writers

\* of a profile: who manages it, whether it is for dsh, and whether it asks for what
\* no runtime of the daemon supports (reasoning, skills, plugins)
Managed == {"managed", "demanding", "managed dsh"}
UserManaged == {"user", "dsh"}
RoleEntries == [profile: Profiles, overrides: {"none", "supported", "unsupported"},
                fallbacks: SUBSET Profiles]
Configs ==
  [version: {0, 1},
   profiles: [Profiles -> Managed \cup UserManaged \cup {Unset}],
   roles: [Roles -> RoleEntries \cup {Unset}],
   workflow: SUBSET Roles,                          \* roles the workflow names
   verification: [verifier: Roles \cup {Unset}, injects: {"none", "mcp", "skills"}] \cup {Unset}]
Inodes == {File} \cup EditRequests

VARIABLES
  request,   \* where each request is
  draft,     \* the section a tool has read and edited
  validated, \* the configuration a request is about to write
  path,      \* the inode of config.yaml
  tmp,       \* the inode of config.yaml.tmp, if there is one
  fd,        \* the inode each writer has open
  content,   \* of each inode
  daemon     \* how the last start of the daemon went

configVars == <<request, draft, validated, path, tmp, fd, content, daemon>>

TypeOK ==
  /\ request \in [EditRequests -> {"new", "edited", "valid", "open", "written", "done", "failed", "lost"}]
  /\ \A r \in EditRequests : validated[r] = Unset \/ validated[r] \in Configs
  /\ path \in Inodes /\ tmp \in Inodes \cup {Unset}
  /\ fd \in [EditRequests -> Inodes \cup {Unset}]
  /\ \A i \in Inodes : content[i] \in {Empty, Mixed} \/ content[i] \in Configs
  /\ daemon \in {"down", "configured", "without config", "misrouted"}

Init ==
  /\ request = [r \in EditRequests |-> "new"]
  /\ draft = [r \in EditRequests |-> Unset]
  /\ validated = [r \in EditRequests |-> Unset]
  /\ path = File /\ tmp = Unset
  /\ fd = [r \in EditRequests |-> Unset]
  /\ content = [i \in Inodes |-> IF i = File THEN InitialFile ELSE Empty]
  /\ daemon = "down"
-----------------------------------------------------------------------------
(* What is accepted.                                                           *)

Has(c, p) == c.profiles[p] # Unset
Named(c) == {r \in Roles : c.roles[r] # Unset}

\* a version number is added to a file that has none
Migrated(c) == [c EXCEPT !.version = 1]

\* validateReferences for one role
RoleAccepted(c, role) ==
  /\ Has(c, role.profile)
  /\ \A p \in role.fallbacks : Has(c, p) /\ p # role.profile
  /\ role.overrides # "none" => c.profiles[role.profile] \notin UserManaged

Verifier(v) == IF v.verifier = Unset THEN DefaultRole ELSE v.verifier

\* ... and for the verification profile: a role it does not name is not looked for
VerificationAccepted(c, v) ==
  /\ v.verifier # Unset => v.verifier \in Named(c)
  /\ (v.injects # "none" /\ Verifier(v) \in Named(c)) =>
       c.profiles[c.roles[Verifier(v)].profile] \notin UserManaged

Accepted(c) ==
  /\ c.version = 1
  /\ \A r \in Named(c) : RoleAccepted(c, c.roles[r])
  /\ c.verification # Unset => VerificationAccepted(c, c.verification)
  /\ c.workflow \subseteq Named(c)

\* read: parsed, migrated and validated
Readable(i) == content[i] \in Configs /\ Accepted(Migrated(content[i]))
Current == Migrated(content[path])
\* What the constants may be: a torn file is no configuration, and the one the project
\* starts with, if it is one, was validated.
ConfigAssumption ==
  /\ DefaultRole \in Roles
  /\ Empty \notin Configs /\ Mixed \notin Configs
  /\ InitialFile \in Configs => Accepted(Migrated(InitialFile))
-----------------------------------------------------------------------------
(* A request: the tool reads the section it edits, and the store reads again.  *)

\* an edit is a record [section, id, to]: to Unset removes the entity
Edit(r) == Edits[r]

Fail(r) ==
  /\ request' = [request EXCEPT ![r] = "failed"]
  /\ UNCHANGED <<draft, validated, path, tmp, fd, content, daemon>>

EditSection(r) ==
  LET e == Edit(r) IN
  /\ request[r] = "new" /\ e.section \in {"profiles", "roles"}
  /\ IF Readable(path) /\ (e.to # Unset \/ Current[e.section][e.id] # Unset)
     THEN /\ draft' = [draft EXCEPT ![r] = [Current[e.section] EXCEPT ![e.id] = e.to]]
          /\ request' = [request EXCEPT ![r] = "edited"]
          /\ UNCHANGED <<validated, path, tmp, fd, content, daemon>>
     ELSE Fail(r)

\* dk_patch_config gives the whole section
PatchSection(r) ==
  /\ request[r] = "new" /\ Edit(r).section \in {"workflow", "verification"}
  /\ draft' = [draft EXCEPT ![r] = Edit(r).to]
  /\ request' = [request EXCEPT ![r] = "edited"]
  /\ UNCHANGED <<validated, path, tmp, fd, content, daemon>>

Merged(r) == [Current EXCEPT ![Edit(r).section] = draft[r]]

\* mutant: what the request is merged into is validated, not the result
BaseMayBeWritten(c) == Accepted(Current)

MayBeWritten(c) == Accepted(c)

Patch(r) ==
  /\ request[r] = "edited"
  /\ IF Readable(path) /\ MayBeWritten(Merged(r))
     THEN /\ validated' = [validated EXCEPT ![r] = Merged(r)]
          /\ request' = [request EXCEPT ![r] = "valid"]
          /\ UNCHANGED <<draft, path, tmp, fd, content, daemon>>
     ELSE Fail(r)

\* writeFile opens the temporary path: the inode it names, or a new one
OpenTmp(r) ==
  /\ request[r] = "valid"
  /\ request' = [request EXCEPT ![r] = "open"]
  /\ LET i == IF tmp = Unset THEN r ELSE tmp
     IN fd' = [fd EXCEPT ![r] = i] /\ tmp' = i /\ content' = [content EXCEPT ![i] = Empty]
  /\ UNCHANGED <<draft, validated, path, daemon>>

\* a second writer writes over what the first has written since they opened it
WriteTmp(r) ==
  /\ request[r] = "open"
  /\ request' = [request EXCEPT ![r] = "written"]
  /\ \E b \in IF content[fd[r]] = Empty THEN {validated[r]} ELSE {validated[r], Mixed} :
       content' = [content EXCEPT ![fd[r]] = b]
  /\ UNCHANGED <<draft, validated, path, tmp, fd, daemon>>

\* rename fails when another writer has renamed the file already
Rename(r) ==
  /\ request[r] = "written"
  /\ IF tmp = Unset THEN Fail(r)
     ELSE /\ path' = tmp /\ tmp' = Unset
          /\ request' = [request EXCEPT ![r] = "done"]
          /\ UNCHANGED <<draft, validated, fd, content, daemon>>
-----------------------------------------------------------------------------
(* The daemon.                                                                 *)

\* RoleRouter.resolve: the role and its profile exist, and no override meets a profile
\* the user manages
Resolves(c, r) ==
  /\ c.roles[r] # Unset
  /\ c.profiles[c.roles[r].profile] # Unset
  /\ c.roles[r].overrides # "none" => c.profiles[c.roles[r].profile] \notin UserManaged

\* ... and its runtime supports what is asked for
Supported(c, r) ==
  c.roles[r].overrides # "unsupported" /\ c.profiles[c.roles[r].profile] # "demanding"

\* the runtimes of buildRoleResolver: dsh takes no managed profile
RuntimesBuilt(c) == \A p \in Profiles : c.profiles[p] # "managed dsh"

VerifierSupported(c, v) ==
  /\ Supported(c, Verifier(v)) /\ v.injects # "skills"
  /\ v.injects = "mcp" => c.profiles[c.roles[Verifier(v)].profile] # "dsh"

Routes(c) ==
  /\ RuntimesBuilt(c)
  /\ \A r \in Named(c) : Resolves(c, r) /\ Supported(c, r)
  /\ c.verification # Unset =>
       Resolves(c, Verifier(c.verification)) /\ VerifierSupported(c, c.verification)

\* a file that cannot be read or is not accepted is taken for none at all
Start ==
  /\ daemon = "down"
  /\ daemon' = IF ~ Readable(path) THEN "without config"
               ELSE IF Routes(Current) THEN "configured" ELSE "misrouted"
  /\ UNCHANGED <<request, draft, validated, path, tmp, fd, content>>

\* the process ends: requests in flight are lost, the files stay
Crash ==
  /\ daemon # "down" /\ daemon' = "down"
  /\ request' = [r \in EditRequests |-> IF request[r] \in {"new", "done", "failed"} THEN request[r] ELSE "lost"]
  /\ UNCHANGED <<draft, validated, path, tmp, fd, content>>
-----------------------------------------------------------------------------
ConfigNext ==
  \/ daemon \in {"configured", "without config"}
     /\ \E r \in EditRequests :
          EditSection(r) \/ PatchSection(r) \/ Patch(r) \/ OpenTmp(r) \/ WriteTmp(r) \/ Rename(r)
  \/ Start \/ Crash

ConfigSpec == Init /\ [][ConfigNext]_configVars
-----------------------------------------------------------------------------
\* what the validation of a file lets through and the start of the daemon refuses: a
\* verifier the verification profile leaves to the default role when there is none, and
\* what no runtime of the daemon supports
RefusedOnlyAtStart(c) ==
  \/ /\ c.verification # Unset /\ c.verification.verifier = Unset
     /\ DefaultRole \notin Named(c)
  \/ \E p \in Profiles : c.profiles[p] \in {"managed dsh", "demanding"}
  \/ \E r \in Named(c) : c.roles[r].overrides = "unsupported"
  \/ c.verification # Unset /\ c.verification.injects = "skills"

\* Whatever requests edit the file side by side and wherever they are cut off, the daemon
\* finds at its start the configuration one of them was granted: it goes without one only
\* when two writers tore the file, and routes every role unless the file asks for what
\* validation does not look at.
SavedConfigRoutes ==
  /\ daemon = "without config" => content[path] \notin Configs
  /\ daemon = "misrouted" => RefusedOnlyAtStart(Current)
=============================================================================
