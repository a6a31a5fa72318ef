---------------------------- MODULE CommandExec -----------------------------
(***************************************************************************)
(* What one command turns into on its way from the operator to a process   *)
(* on the node and back to a row of the audit log: the JSON body that      *)
(* hpc-cli or another client posts, the checks of hpc-daemon/src/api.rs    *)
(* deploy and fs_command, the conversions of                               *)
(* grpc.rs and proto.rs (one copy in the daemon, one in the agent), the    *)
(* agent's handle_command, and the executor with its dry-run switch.       *)
(* CommandPlane models when and whether a command travels; this module     *)
(* models what travels.                                                    *)
(*                                                                         *)
(* What makes it hard: a destructive command is refused in two places by   *)
(* two programs, an action crosses the wire as a number that the other     *)
(* side may not know, and a process can fail to start, fail, or be killed. *)
(* The agent may be served by a daemon of another version, so besides what *)
(* this daemon sends it is given any well-formed message.                  *)
(*                                                                         *)
(* Text is "" (empty), "blank" (only white space) or "x" (anything else).  *)
(* Definitions named Mutant... are deliberate mistakes, each just before   *)
(* the definition it would replace; the specification never uses one.      *)
(***************************************************************************)
EXTENDS Integers, Sequences

CONSTANTS
    Text,      \* device and mount point strings
    None

\* What command lines are made of.
Word == Text \cup {"", "x", "mount", "umount", "fsck", "mkfs", "-t", "-o", "-n"}
             \cup Seq({"remount", "", "x"})

ASSUME ExecAssumption ==
    /\ Text \subseteq {"", "blank", "x"}
    /\ None \notin STRING /\ None \notin BOOLEAN /\ None \notin Int
    /\ None \notin Seq(Word)

VARIABLES
    allow_exec, \* the agent's configuration: it may start processes
    phase,    \* where the command is
    asked,    \* what the operator or client asked for, None if another daemon did
    request,  \* the decoded REST body
    ack,      \* the command id the client was told, None if it was told of none
    wire,     \* the pb::Command on the stream
    argv,     \* what the executor started, None if nothing
    process,  \* what became of it, None while nobody knows
    outcome,  \* the CommandOutcome the agent reports
    stored    \* the row of the audit log

command == <<asked, request, ack, wire, argv, process, outcome, stored>>
vars == <<allow_exec, phase, command>>

FsAction == {"Mount", "Unmount", "Remount", "Check", "Format"}
DeployAction == {"Install", "Upgrade", "Rollback", "Remove"}

\* The bodies after decoding; command_id and deployment_id may be left out.
FsRequest == [kind : {"fs"}, id : {None, "given"}, action : FsAction,
              device : Text \cup {""}, mount_point : Text, fs_type : {"", "x"},
              options : {"", "x"}, force : BOOLEAN]
DeployRequest == [kind : {"deploy"}, id : {None, "given"},
                  action : DeployAction, component : Text]

Trimmed(text) == IF text = "blank" THEN "" ELSE text

Init ==
    /\ allow_exec \in BOOLEAN
    /\ phase = "idle"
    /\ asked = None /\ request = None /\ ack = None /\ wire = None
    /\ argv = None /\ process = None /\ outcome = None /\ stored = None

-----------------------------------------------------------------------------
(* Enumerations are numbers in protobuf; 0 is Unspecified. *)

FsNumber == [Mount |-> 1, Unmount |-> 2, Remount |-> 3, Check |-> 4, Format |-> 5]
DeployNumber == [Install |-> 1, Upgrade |-> 2, Rollback |-> 3, Remove |-> 4]

fs_action_to_pb(a) == FsNumber[a]
deploy_action_to_pb(a) == DeployNumber[a]

\* The numbers are taken to start at 0.
MutantFsActionFromPb(v) ==
    IF \E a \in FsAction : FsNumber[a] = v + 1
    THEN CHOOSE a \in FsAction : FsNumber[a] = v + 1 ELSE "Mount"

\* Unspecified and numbers this version does not know become Mount.
fs_action_from_pb(v) ==
    IF \E a \in FsAction : FsNumber[a] = v
    THEN CHOOSE a \in FsAction : FsNumber[a] = v ELSE "Mount"

deploy_action_from_pb(v) ==
    IF \E a \in DeployAction : DeployNumber[a] = v
    THEN CHOOSE a \in DeployAction : DeployNumber[a] = v ELSE "Install"

IdOf(r) == IF r.id = None THEN "generated" ELSE r.id

\* From<FsSpec> for pb::FsCommand and From<DeploySpec> for pb::DeployCommand.
FsToPb(r) ==
    [command_id |-> IdOf(r), action |-> fs_action_to_pb(r.action),
     device |-> r.device, mount_point |-> r.mount_point, fs_type |-> r.fs_type,
     options |-> r.options, force |-> r.force]
DeployToPb(r) ==
    [command_id |-> IdOf(r), action |-> deploy_action_to_pb(r.action),
     component |-> r.component]

\* The id is both in the envelope and in the payload.
to_pb_command(r) ==
    [command_id |-> IdOf(r), payload |-> r.kind,
     spec |-> IF r.kind = "fs" THEN FsToPb(r) ELSE DeployToPb(r)]

\* From<pb::FsCommand> for FsSpec and From<pb::DeployCommand> for DeploySpec.
FsSpec(spec) == [spec EXCEPT !.action = fs_action_from_pb(@)]
DeploySpec(spec) == [spec EXCEPT !.action = deploy_action_from_pb(@)]

\* CommandOutcome to pb::CommandResult in the agent and back in the daemon.
CommandResult(o) == [command_id |-> o.command_id, success |-> o.success,
                     exit_code |-> o.exit_code]
CommandOutcome(p) == [command_id |-> p.command_id, success |-> p.success,
                      exit_code |-> p.exit_code]

-----------------------------------------------------------------------------
(* The daemon's REST boundary. *)

\* JSON bodies: a key that is left out is None.
Maybe(S) == S \cup {None}
FsBody == [kind : {"fs"}, id : Maybe({"given"}), action : Maybe(FsAction),
           device : Maybe(Text), mount_point : Maybe(Text),
           fs_type : Maybe({"x"}), options : Maybe({"x"}), force : Maybe({TRUE})]
DeployBody == [kind : {"deploy"}, id : Maybe({"given"}),
               action : Maybe(DeployAction), component : Maybe(Text)]

\* hpc fs mount, hpc fs unmount and hpc node deploy.  clap insists on the device
\* and the mount point of a mount, the mount point of an unmount and the
\* component of a deployment, and gives the rest its defaults.
CliLine == [verb : {"mount"}, device : Text, mount_point : Text,
            fs_type : {"", "x"}, options : {"", "x"}]
           \cup [verb : {"unmount"}, mount_point : Text]
           \cup [verb : {"deploy"}, component : Text, action : DeployAction]

\* The bodies the CLI makes: never an id, never force, never another action.
mount_body(l) ==
    [kind |-> "fs", id |-> None, action |-> "Mount", device |-> l.device,
     mount_point |-> l.mount_point, fs_type |-> l.fs_type,
     options |-> l.options, force |-> None]
unmount_body(l) ==
    [kind |-> "fs", id |-> None, action |-> "Unmount", device |-> None,
     mount_point |-> l.mount_point, fs_type |-> None, options |-> None,
     force |-> None]
deploy_body(l) ==
    [kind |-> "deploy", id |-> None, action |-> l.action,
     component |-> l.component]

cli_body(l) == CASE l.verb = "mount" -> mount_body(l)
                 [] l.verb = "unmount" -> unmount_body(l)
                 [] l.verb = "deploy" -> deploy_body(l)

\* What a command line asks for, in the words of the operator.
Meaning(l) ==
    CASE l.verb = "mount" -> [action |-> "Mount", device |-> l.device,
                              mount_point |-> l.mount_point, force |-> FALSE]
      [] l.verb = "unmount" -> [action |-> "Unmount", device |-> "",
                                mount_point |-> l.mount_point, force |-> FALSE]
      [] l.verb = "deploy" -> [action |-> l.action]

Or(value, default) == IF value = None THEN default ELSE value

\* serde: keys without a default must be there.
Decodes(b) == IF b.kind = "fs" THEN b.action # None /\ b.mount_point # None
                               ELSE b.component # None

DecodedBody(b) ==
    IF b.kind = "fs"
    THEN [b EXCEPT !.device = Or(@, ""), !.fs_type = Or(@, ""),
                   !.options = Or(@, ""), !.force = Or(@, FALSE)]
    ELSE [b EXCEPT !.action = Or(@, "Install")]

\* A body that does not decode is answered 422.
Post(b) ==
    /\ phase = "idle"
    /\ \/ Decodes(b) /\ request' = DecodedBody(b) /\ phase' = "rest"
       \/ ~Decodes(b) /\ phase' = "done" /\ UNCHANGED request
    /\ UNCHANGED <<allow_exec, ack, wire, argv, process, outcome, stored>>

\* A client that writes its own body.
Submit(b) == Post(b) /\ asked' = b

CliSubmit(l) == Post(cli_body(l)) /\ asked' = Meaning(l)

\* 400 unless there is a mount point or component, and force for a format.
RestAccepts(r) ==
    IF r.kind = "fs"
    THEN /\ Trimmed(r.mount_point) # ""
         /\ r.action = "Format" => r.force
    ELSE Trimmed(r.component) # ""

\* Also refused (409 or 404) when CommandPlane's dispatch does not accept it.
Refuse ==
    /\ phase = "rest"
    /\ phase' = "done"
    /\ UNCHANGED <<allow_exec, command>>

\* The answer may be lost, or come after the client's timeout.
Dispatch ==
    /\ phase = "rest"
    /\ RestAccepts(request)
    /\ ack' \in {IdOf(request), None}
    /\ wire' = to_pb_command(request)
    /\ phase' = "wire"
    /\ UNCHANGED <<allow_exec, asked, request, argv, process, outcome, stored>>

\* A daemon of another version, that may skip checks or know more actions.
ForeignCommand(w) ==
    /\ phase = "idle"
    /\ phase' = "wire" /\ wire' = w
    /\ UNCHANGED <<allow_exec, asked, request, ack, argv, process, outcome,
                   stored>>

-----------------------------------------------------------------------------
(* The agent's executor. *)

Invalid == <<>>

\* force is left to the daemon.
MutantFormatArgv(s) ==
    IF s.device = "" \/ s.fs_type = "" THEN Invalid
    ELSE <<"mkfs", s.fs_type, s.device>>

\* Format; mkfs is one program per type, "mkfs." and the type.
FormatArgv(s) ==
    IF ~s.force \/ s.device = "" \/ s.fs_type = "" THEN Invalid
    ELSE <<"mkfs", s.fs_type, s.device>>

\* The program and its arguments, or Invalid when a field it needs is missing.
build_argv(s) ==
    CASE s.action = "Mount" ->
            IF s.device = "" \/ s.mount_point = "" THEN Invalid
            ELSE <<"mount">> \o (IF s.fs_type = "" THEN <<>> ELSE <<"-t", s.fs_type>>)
                             \o (IF s.options = "" THEN <<>> ELSE <<"-o", s.options>>)
                             \o <<s.device, s.mount_point>>
      [] s.action = "Unmount" ->
            IF s.mount_point = "" THEN Invalid ELSE <<"umount", s.mount_point>>
      [] s.action = "Remount" ->
            IF s.mount_point = "" THEN Invalid
            ELSE <<"mount", "-o", <<"remount", s.options>>, s.mount_point>>
      [] s.action = "Check" ->
            IF s.device = "" THEN Invalid ELSE <<"fsck", "-n", s.device>>
      [] s.action = "Format" -> FormatArgv(s)

OutcomeOf(id, success, code) ==
    [command_id |-> id, success |-> success, exit_code |-> code]

Finish(id, success, code) ==
    /\ outcome' = OutcomeOf(id, success, code)
    /\ phase' = "report"

\* run_deploy: always simulated, always a success.
HandleDeploy ==
    /\ phase = "wire" /\ wire.payload = "deploy"
    /\ Finish(DeploySpec(wire.spec).command_id, TRUE, 0)
    /\ UNCHANGED <<allow_exec, asked, request, ack, wire, argv, process, stored>>

\* run_fs: invalid, dry-run, or a process is started.
HandleFs ==
    /\ phase = "wire" /\ wire.payload = "fs"
    /\ LET id == wire.spec.command_id
           line == build_argv(FsSpec(wire.spec))
       IN  \/ /\ line = Invalid
              /\ Finish(id, FALSE, -1) /\ UNCHANGED argv
           \/ /\ line # Invalid /\ ~allow_exec
              /\ Finish(id, TRUE, 0) /\ UNCHANGED argv
           \/ /\ line # Invalid /\ allow_exec
              /\ argv' = line
              /\ phase' = "running" /\ UNCHANGED outcome
    /\ UNCHANGED <<allow_exec, asked, request, ack, wire, process, stored>>

\* A command with no payload is only logged.
HandleEmpty ==
    /\ phase = "wire" /\ wire.payload = "none"
    /\ phase' = "done"
    /\ UNCHANGED <<allow_exec, command>>

Ends(how, code) ==
    /\ phase = "running"
    /\ process' = [how |-> how, code |-> code]
    /\ phase' = "ended"
    /\ UNCHANGED <<allow_exec, asked, request, ack, wire, argv, outcome, stored>>

\* The operating system: the program does not exist or cannot be started, is
\* killed by a signal and so has no exit code, or exits.
SpawnFails == Ends("unstarted", None)
ProcessKilled == Ends("killed", None)
ProcessExits(code) == Ends("exited", code)

\* A process that could be started is a success.
MutantSucceeded(p) == p.how # "unstarted"

\* Ok(output) with status.success(), which Unix defines as exit code 0.
Succeeded(p) == p.how = "exited" /\ p.code = 0

\* status.code().unwrap_or(-1), and -1 for Err(e).
ExitCode(p) == IF p.how = "exited" THEN p.code ELSE -1

\* run_fs when output().await has returned.
RunFsEnds ==
    /\ phase = "ended"
    /\ Finish(wire.spec.command_id, Succeeded(process), ExitCode(process))
    /\ UNCHANGED <<allow_exec, asked, request, ack, wire, argv, process, stored>>

\* report_command_result and record_outcome: the row is what came over the wire.
Report ==
    /\ phase = "report"
    /\ stored' = CommandOutcome(CommandResult(outcome))
    /\ phase' = "done"
    /\ UNCHANGED <<allow_exec, asked, request, ack, wire, argv, process, outcome>>

\* The next command: nothing of the last one is kept but its row in the log.
Settle ==
    /\ phase = "done"
    /\ phase' = "idle"
    /\ asked' = None /\ request' = None /\ ack' = None /\ wire' = None
    /\ argv' = None /\ process' = None /\ outcome' = None /\ stored' = None
    /\ UNCHANGED allow_exec

FsCommand == [command_id : {"given"}, payload : {"fs"},
              spec : [command_id : {"given"}, action : 0..6, device : Text,
                      mount_point : Text, fs_type : {"", "x"},
                      options : {"", "x"}, force : BOOLEAN]]
DeployCommand == [command_id : {"given"}, payload : {"deploy"},
                  spec : [command_id : {"given"}, action : 0..5,
                          component : Text]]
EmptyCommand == [command_id : {"given"}, payload : {"none"}, spec : {None}]
Foreign == FsCommand \cup DeployCommand \cup EmptyCommand

Next ==
    \/ \E b \in FsBody \cup DeployBody : Submit(b)
    \/ \E l \in CliLine : CliSubmit(l)
    \/ \E w \in Foreign : ForeignCommand(w)
    \/ \E code \in {0, 1} : ProcessExits(code)
    \/ SpawnFails \/ ProcessKilled \/ RunFsEnds
    \/ Refuse \/ Dispatch
    \/ HandleDeploy \/ HandleFs \/ HandleEmpty \/ Report
    \/ Settle

Spec == Init /\ [][Next]_vars

-----------------------------------------------------------------------------
(* Properties *)

\* Every variable has its type, and what a process reports fits in the outcome.
TypeOK ==
    /\ allow_exec \in BOOLEAN
    /\ phase \in {"idle", "rest", "wire", "running", "ended", "report", "done"}
    /\ request = None \/ request \in FsRequest \cup DeployRequest
    /\ asked # None /\ phase # "done" => request # None
    /\ ack \in {None, "given", "generated"}
    /\ wire # None => wire.payload \in {"fs", "deploy", "none"}
    /\ argv # None => argv # Invalid
    /\ process # None <=> argv # None /\ phase # "running"
    /\ outcome # None => /\ outcome.success \in BOOLEAN
                         /\ outcome.exit_code \in {-1, 0, 1}
    /\ phase = "report" => outcome # None

\* The program a running command has, as the operator names the action.
ProgramFor(action) == CASE action \in {"Mount", "Remount"} -> "mount"
                        [] action = "Unmount" -> "umount"
                        [] action = "Check" -> "fsck"
                        [] action = "Format" -> "mkfs"

\* A file system is made only by a forced format, and each of the two guards
\* holds on its own: whatever a daemon sends, the executor starts mkfs only if
\* the command says format and force, and not in a dry run; whatever a client
\* posts, no unforced format leaves this daemon (executor.rs: format requires
\* force, "enforced both here and at the daemon's REST boundary").
FormatIsForced ==
    /\ argv # None => /\ allow_exec
                      /\ Head(argv) = "mkfs" =>
                             wire.spec.action = FsNumber["Format"] /\ wire.spec.force
    /\ asked # None /\ wire # None /\ wire.payload = "fs"
           /\ wire.spec.action = FsNumber["Format"] => wire.spec.force

\* From the operator to the process: what runs on the node is the program for
\* the action that was asked for, on the device or mount point that was named,
\* and made with force only if force was asked for, after the CLI's body, the
\* daemon's defaults and two conversions by two programs.
RunsWhatWasAsked ==
    asked # None /\ argv # None =>
        /\ Head(argv) = ProgramFor(asked.action)
        /\ argv[Len(argv)] = IF asked.action \in {"Check", "Format"}
                             THEN asked.device ELSE asked.mount_point
        /\ wire.spec.force => asked.force = TRUE

\* The row of the audit log is found under the id the client was told or had
\* chosen, and tells what became of the process: success if and only if it
\* exited with code 0, its own exit code if it had one, and -1 if it was killed
\* or never started (executor.rs run_fs).  A success without any process is only
\* recorded of a deployment, which is simulated, or by an agent that starts none.
OutcomeIsTruthful ==
    stored # None =>
        /\ ack # None => stored.command_id = ack
        /\ request # None /\ request.id # None => stored.command_id = request.id
        /\ argv # None =>
               /\ stored.success <=> process.how = "exited" /\ process.code = 0
               /\ stored.exit_code = IF process.how = "exited" THEN process.code ELSE -1
        /\ argv = None =>
               /\ stored.success => wire.payload = "deploy" \/ ~allow_exec
               /\ stored.exit_code = IF stored.success THEN 0 ELSE -1
=============================================================================
