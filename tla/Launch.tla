-------------------------------- MODULE Launch --------------------------------
(***************************************************************************)
(* One run of the program from its command line to its exit status:        *)
(* cli/cli_main.rs (`cli`, `cli_inner`, `handle_mode`), cli/args.rs (which *)
(* host and user the paths name), client/main_loop.rs `run` and what it    *)
(* calls up to and after the transfer, and the ssh process that carries    *)
(* the control channel (control/ssh_process.rs, util/process.rs).          *)
(*                                                                         *)
(* What is said on the control channel is in modules Negotiation and       *)
(* Session, which files are copied in module Jobs, how configuration files *)
(* are read in module ConfigFiles; here each of these has an outcome.      *)
(***************************************************************************)
EXTENDS Naturals, SequencesExt

CONSTANTS Hosts, Users,
          None,         \* no such option or part
          MaxPaths      \* paths on the command line

Families == {"inet", "inet6"}

ASSUME LaunchAssumption ==
  /\ MaxPaths \in Nat /\ Hosts # {}
  /\ None \notin Hosts \cup Users \cup Families \cup {"any", "4", "6"}

VARIABLES
  flags,    \* options that choose a mode
  paths,    \* the paths on the command line
  opts,     \* other options, and what configuration files say
  config,   \* what the Manager answers: for which host, and with what
  address,  \* the server's address: its family
  ssh,      \* the child process, and what it was told
  endpoint, \* family of the socket for QUIC
  logging,  \* TRACING_INITIALIZED, and whether there is a subscriber
  done,     \* what was achieved
  said,     \* a reason for failing has reached the user
  pc,       \* where the program is
  status    \* its exit status

vars == <<flags, paths, opts, config, address, ssh, endpoint, logging, done, said, pc, status>>

-----------------------------------------------------------------------------
(* Paths.                                                                  *)

\* A word of the command line: how it is written, not its characters.
\* "colon" is [user@]host:file; "bracket" is [address]:file, written for a raw
\* IPv6 address and here without a user; "open" has a bracket that is not closed.
Words == [form : {"plain", "open"}, user : {None}, host : {None}]
         \cup [form : {"colon"}, user : Users \cup {None}, host : Hosts]
         \cup [form : {"bracket"}, user : {None}, host : {CHOOSE h \in Hosts : TRUE}]

FileSpec(w) ==
  IF w.form \in {"colon", "bracket"} THEN w ELSE [w EXCEPT !.user = None, !.host = None]

Remote(w) == FileSpec(w).host # None
HostsOf(ws) == {FileSpec(w).host : w \in {w \in ToSet(ws) : Remote(w)}}
UsersOf(ws) == {FileSpec(w).user : w \in {w \in ToSet(ws) : Remote(w)}} \ {None}

\* The two are separate in the code too: one looks for the configuration, the
\* other makes the list of jobs.
LossyFails == \/ Cardinality(HostsOf(paths)) > 1
              \/ /\ \E w \in ToSet(Front(paths)) : Remote(w)
                 /\ Remote(Last(paths))
remote_host_lossy == IF HostsOf(paths) = {} THEN None ELSE CHOOSE h \in HostsOf(paths) : TRUE

remote_user ==
  IF Cardinality(UsersOf(paths)) = 1 THEN CHOOSE u \in UsersOf(paths) : TRUE ELSE None

\* Plausible bug: all that remote_host_lossy does not see is one remote path.
JobspecsTrusting == Len(paths) < 2 \/ HostsOf(paths) = {}
JobspecsFail ==
  \/ Len(paths) < 2
  \/ Cardinality(UsersOf(paths)) > 1
  \/ Cardinality(HostsOf(paths)) > 1
  \/ LET sources == ToSet(Front(paths))
     IN  IF Remote(Last(paths)) THEN \E w \in sources : Remote(w)
         ELSE \E w \in sources : ~Remote(w)

-----------------------------------------------------------------------------
(* The command line.                                                       *)

Exclusive == {"server", "config_files", "list_features"}   \* alone, says clap
ModeFlags == {{}, {"help"}, {"show_config"}, {"help_buffers"},
              {"show_config", "help_buffers"}} \cup {{f} : f \in Exclusive}

\* default_value_ifs: the first that applies.
Mode == CASE "server" \in flags       -> "server"
          [] "show_config" \in flags  -> "show_config"
          [] "help_buffers" \in flags -> "help_buffers"
          [] "config_files" \in flags -> "config_files"
          [] "list_features" \in flags -> "list_features"
          [] OTHER -> "client"

Options == [alias : {None, "4", "6"}, family : {None, "inet6", "any"}, user : {None} \cup Users,
            dry : BOOLEAN, fileFamily : {None, "inet"},
            fileUser : {None} \cup Users, colour : {"good", "bad"}, valid : BOOLEAN]
NoOptions == [alias |-> None, family |-> None, user |-> None, dry |-> FALSE,
              fileFamily |-> None, fileUser |-> None, colour |-> "good", valid |-> TRUE]

Init == /\ flags \in ModeFlags
        /\ paths \in BoundedSeq(Words, MaxPaths)
        /\ flags # {} => Len(paths) <= 1
        /\ flags \cap Exclusive # {} => paths = <<>>
        /\ opts = NoOptions
        /\ config = [host |-> None, user |-> None, family |-> None]
        /\ address = None
        /\ ssh = [is |-> "none"]
        /\ endpoint = None
        /\ logging = [flag |-> FALSE, up |-> FALSE]
        /\ done = {}
        /\ said = FALSE
        /\ pc = "parse"
        /\ status = "running"

Go(to) == pc' = to /\ UNCHANGED status

\* ProcessWrapper is dropped: a child that has not ended is killed.
DropSsh == IF ssh.is = "running" THEN [ssh EXCEPT !.is = "killed"] ELSE ssh

\* Everything that the program owns is dropped on the way out.
Exit(code) == pc' = "end" /\ status' = code /\ ssh' = DropSsh

\* An error reaches `cli`: it goes to the log if that was set up, else to the
\* terminal, and the status is 1.
Error == /\ said' = (said \/ ~logging.flag \/ logging.up)
         /\ Exit("failure")
Fail == Error /\ UNCHANGED <<flags, paths, opts, config, address, endpoint, logging,
                             done>>
\* A panic is always reported.
Panic == /\ said' = TRUE /\ Exit("failure")
         /\ UNCHANGED <<flags, paths, opts, config, address, endpoint, logging, done>>
Success == Exit("success") /\ UNCHANGED <<flags, paths, opts, config, address,
                                          endpoint, logging, done, said>>

\* Options are chosen when they are read; clap refuses -4 with -6.  Users are
\* interchangeable.
Parse ==
  /\ pc = "parse"
  /\ "help" \notin flags
  /\ opts' \in IF flags \cap Exclusive # {}
               THEN {[NoOptions EXCEPT !.colour = c] : c \in {"good", "bad"}}
               ELSE {o \in Options : o.fileUser \in {None, CHOOSE u \in Users : TRUE}}
  /\ Go("manager")
  /\ UNCHANGED <<flags, paths, config, address, ssh, endpoint, logging, done, said>>

Help       == pc = "parse" /\ "help" \in flags /\ Success
BadOptions == pc = "parse" /\ Fail

\* -4 and -6 override --address-family, the command line overrides the files.
Family == CASE opts.alias = "4" -> "inet"
            [] opts.alias = "6" -> "inet6"
            [] opts.alias = None /\ opts.family # None -> opts.family
            [] OTHER -> opts.fileFamily
User == CASE remote_user # None -> remote_user
          [] remote_user = None /\ opts.user # None -> opts.user
          [] OTHER -> opts.fileUser

MakeManager ==
  /\ pc = "manager"
  /\ paths # <<>> => ~LossyFails
  /\ config' = [host |-> IF paths = <<>> THEN None ELSE remote_host_lossy,
                user |-> User, family |-> Family]
  /\ Go("colours")
  /\ UNCHANGED <<flags, paths, opts, address, ssh, endpoint, logging, done, said>>

ManagerFails == pc = "manager" /\ paths # <<>> /\ LossyFails /\ Fail

SetupColours ==
  /\ pc = "colours"
  /\ opts.colour = "bad" => Mode = "server"
  /\ Go(Mode)
  /\ UNCHANGED <<flags, paths, opts, config, address, ssh, endpoint, logging, done, said>>

BadColour == pc = "colours" /\ opts.colour = "bad" /\ Mode # "server" /\ Fail

Inform == /\ pc \in {"show_config", "help_buffers", "config_files", "list_features"}
          /\ pc \in {"show_config", "help_buffers"} => opts.valid
          /\ Success

InformFails == pc \in {"show_config", "help_buffers"} /\ ~opts.valid /\ Fail

\* server_main says itself why it failed, on stderr.
RunServer ==
  /\ pc = "server"
  /\ \/ done' = {"served"} /\ said' = said /\ Exit("success")
     \/ done' = {} /\ said' = TRUE /\ Exit("failure")
  /\ UNCHANGED <<flags, paths, opts, config, address, endpoint, logging>>

-----------------------------------------------------------------------------
(* The client.                                                             *)

Validate == /\ pc = "client" /\ opts.valid
            /\ Go("tracing")
            /\ UNCHANGED <<flags, paths, opts, config, address, ssh, endpoint, logging,
                           done, said>>

Invalid == pc = "client" /\ ~opts.valid /\ Fail

\* The client's progress bar or its credentials cannot be made.
NoClient == pc = "tracing" /\ Fail

SetupTracing == /\ pc = "tracing"
                /\ logging' = [flag |-> TRUE, up |-> TRUE]
                /\ Go("prep")
                /\ UNCHANGED <<flags, paths, opts, config, address, ssh, endpoint,
                               done, said>>

\* The flag is set before the log file is opened or RUST_LOG is looked at.
TracingFails == /\ pc = "tracing"
                /\ logging' = [flag |-> TRUE, up |-> FALSE]
                /\ Go("raise")
                /\ UNCHANGED <<flags, paths, opts, config, address, ssh, endpoint,
                               done, said>>

Raise == pc = "raise" /\ Fail

\* Plausible bug: whatever the name server says first.
FirstAddress(answers) == IF answers = <<>> THEN None ELSE Head(answers)
lookup_host_by_family(answers) ==
  LET i == SelectInSeq(answers, LAMBDA f : config.family \in {None, "any", f})
  IN  IF i = 0 THEN None ELSE answers[i]

\* Jobs are listed (full: nothing was skipped; that was said), the host's alias
\* is looked up, then its name.
Prep ==
  /\ pc = "prep"
  /\ ~JobspecsFail
  /\ \E full \in BOOLEAN, answers \in BoundedSeq(Families, 2) :
       /\ lookup_host_by_family(answers) # None
       /\ address' = lookup_host_by_family(answers)
       /\ done' = IF full THEN {"listed"} ELSE {}
       /\ said' = (said \/ ~full)
  /\ Go("spawn")
  /\ UNCHANGED <<flags, paths, opts, config, ssh, endpoint, logging>>

\* Jobs that contradict themselves, a source that cannot be read, a name that
\* cannot be resolved, or not to an address of that family.
PrepFails == pc = "prep" /\ Fail

\* No job at all: prep expects one.
PrepPanics == pc = "prep" /\ ~JobspecsFail /\ Panic

\* ssh_cli_args: the host as the user wrote it, ssh looks up its own aliases.
Spawn ==
  /\ pc = "spawn"
  /\ \E a \in DOMAIN paths :
       /\ Remote(paths[a]) /\ \A b \in 1..a - 1 : ~Remote(paths[b])
       /\ ssh' = [is |-> "running", host |-> FileSpec(paths[a]).host,
                  user |-> config.user, family |-> address]
  /\ Go("negotiate")
  /\ UNCHANGED <<flags, paths, opts, config, address, endpoint, logging, done, said>>

SpawnFails == pc = "spawn" /\ Fail

Negotiate == /\ pc = "negotiate"
             /\ Go(IF opts.dry THEN "dry" ELSE "connect")
             /\ UNCHANGED <<flags, paths, opts, config, address, ssh, endpoint,
                            logging, done, said>>

DryRun == /\ pc = "dry"
          /\ Exit(IF "listed" \in done THEN "success" ELSE "failure")
          /\ UNCHANGED <<flags, paths, opts, config, address, endpoint, logging, done,
                         said>>

\* The socket is bound for the family of the address that is connected to.
Connect == /\ pc = "connect"
           /\ endpoint' = address
           /\ Go("transfer")
           /\ UNCHANGED <<flags, paths, opts, config, address, ssh, logging, done, said>>

\* Each file that was not copied has been reported.
Transfer == /\ pc = "transfer"
            /\ \E all \in BOOLEAN : /\ done' = IF all THEN done \cup {"copied"} ELSE done
                                    /\ said' = (said \/ ~all)
            /\ Go("report")
            /\ UNCHANGED <<flags, paths, opts, config, address, ssh, endpoint, logging>>

ReadReport == /\ pc = "report"
              /\ done' = done \cup {"reported"}
              /\ Go("linger")
              /\ UNCHANGED <<flags, paths, opts, config, address, ssh, endpoint,
                             logging, said>>

\* Negotiation, the data channel, the requests or the report end in an error.
ClientFails == pc \in {"negotiate", "connect", "transfer", "report"} /\ Fail

\* The child is given a while to end; then it is dropped.
Linger == /\ pc = "linger"
          /\ ssh' = DropSsh
          /\ Go("finish")
          /\ UNCHANGED <<flags, paths, opts, config, address, endpoint, logging, done,
                         said>>

\* Plausible bug: what was skipped in the preparation is forgotten.
FinishOnTransfers ==
  /\ pc = "finish"
  /\ Exit(IF "copied" \in done THEN "success" ELSE "failure")
  /\ UNCHANGED <<flags, paths, opts, config, address, endpoint, logging, done, said>>
FinishRun ==
  /\ pc = "finish"
  /\ Exit(IF {"listed", "copied"} \subseteq done THEN "success" ELSE "failure")
  /\ UNCHANGED <<flags, paths, opts, config, address, endpoint, logging, done, said>>

SshEnds == /\ ssh.is = "running"
           /\ ssh' = [ssh EXCEPT !.is = "exited"]
           /\ UNCHANGED <<flags, paths, opts, config, address, endpoint, logging, done,
                          said, pc, status>>

Client == \/ Validate \/ Invalid \/ NoClient \/ SetupTracing \/ TracingFails \/ Raise
          \/ Prep \/ PrepFails \/ PrepPanics \/ Spawn \/ SpawnFails
          \/ Negotiate \/ DryRun \/ Connect \/ Transfer \/ ReadReport \/ ClientFails
          \/ Linger \/ FinishRun

Next == \/ Parse \/ Help \/ BadOptions \/ MakeManager \/ ManagerFails
        \/ SetupColours \/ BadColour \/ Inform \/ InformFails \/ RunServer
        \/ Client \/ SshEnds

Spec == Init /\ [][Next]_vars

-----------------------------------------------------------------------------
TypeOK ==
  /\ flags \in ModeFlags /\ opts \in Options
  /\ config \in [host : Hosts \cup {None}, user : Users \cup {None},
                 family : Families \cup {"any", None}]
  /\ address \in Families \cup {None} /\ endpoint \in Families \cup {None}
  /\ ssh \in [is : {"none"}]
             \cup [is : {"running", "exited", "killed"}, host : Hosts,
                   user : Users \cup {None}, family : Families]
  /\ logging \in [flag : BOOLEAN, up : BOOLEAN]
  /\ done \subseteq {"served", "listed", "copied", "reported"}
  /\ said \in BOOLEAN
  /\ status \in {"running", "success", "failure"} /\ (pc = "end" <=> status # "running")

\* ssh is started for one host only, for which the configuration was read, and
\* as the user that the paths name if they do; the paths are a legal copy.
\* The host comes from the job list, the configuration from remote_host_lossy,
\* the user from a third look at the paths (args.rs 197-355).
OneRemote ==
  ssh.is # "none" =>
    /\ Len(paths) >= 2
    /\ ssh.host = config.host
    /\ \A a \in DOMAIN paths : Remote(paths[a]) =>
         /\ FileSpec(paths[a]).host = ssh.host
         /\ FileSpec(paths[a]).user \in {None, ssh.user}
    /\ \A a \in 1..Len(paths) - 1 : Remote(paths[a]) # Remote(Last(paths))

\* Both channels use one address family, the one asked for (main_loop.rs
\* 292-293: "if we resolved a v4 and ssh a v6 [...] that could be surprising").
OneFamily ==
  /\ ssh.is # "none" => ssh.family = address
  /\ endpoint # None => endpoint = address
  /\ address # None /\ opts.alias = "4" => address = "inet"
  /\ address # None /\ opts.alias = "6" => address = "inet6"
  /\ address # None /\ opts.alias = None /\ opts.family = "inet6" => address = "inet6"
  /\ address # None /\ opts.alias = None /\ opts.family = None /\ opts.fileFamily = "inet"
       => address = "inet"

\* Success is reported only if all that was asked for was done, to the last
\* step, a failure is explained to the user unless it is the log that failed
\* (util/tracing.rs 170), and no child process is left (process.rs 20-35).
ExitIsHonest ==
  status # "running" =>
    /\ ssh.is # "running"
    /\ status = "success" /\ Mode = "client" /\ "help" \notin flags =>
         /\ "listed" \in done
         /\ opts.dry \/ {"copied", "reported"} \subseteq done
    /\ status = "success" /\ Mode = "server" => "served" \in done
    /\ status = "failure" /\ (logging.flag => logging.up) => said

-----------------------------------------------------------------------------
(* The inductive invariant: what has been settled at each step of the way. *)

Informing == {"show_config", "help_buffers", "config_files", "list_features"}
BeforeAddress == {"parse", "manager", "colours", "server", "client", "tracing",
                  "raise", "prep"} \cup Informing
Connecting == {"spawn", "negotiate", "dry", "connect", "transfer", "report",
               "linger", "finish"}
ClientSteps == {"client", "tracing", "raise", "prep"} \cup Connecting

InMode == /\ pc \in BeforeAddress \cup Connecting \cup {"end"}
          /\ paths \in Seq(Words)
          /\ pc \in Informing \cup {"server"} => Mode = pc
          /\ pc \in ClientSteps => Mode = "client"
          /\ pc = "dry" => opts.dry

\* The Manager was made for the host and the user of these paths.
Configured == pc \notin {"parse", "manager", "end"} =>
                /\ config.user = User /\ config.family = Family
                /\ paths # <<>> => ~LossyFails /\ config.host = remote_host_lossy

\* The address is of the family that was asked for.
Addressed == /\ pc \in BeforeAddress => address = None
             /\ pc \in Connecting => address # None /\ ~JobspecsFail
             /\ address # None => /\ config.family = Family
                                  /\ config.family \in {None, "any", address}

\* Nothing is started before it is known for what.
Started == /\ pc \in BeforeAddress \cup {"spawn"} => ssh.is = "none" /\ endpoint = None
           /\ OneRemote
           /\ ssh.is # "none" => ssh.family = address
           /\ endpoint # None => endpoint = address

\* What was not achieved has been said.
Reported == /\ pc \in Connecting => "listed" \in done \/ said
            /\ pc \in {"report", "linger", "finish"} => "copied" \in done \/ said
            /\ pc \in {"linger", "finish"} => "reported" \in done
            /\ ExitIsHonest

Inv == TypeOK /\ InMode /\ Configured /\ Addressed /\ Started /\ Reported
===============================================================================
