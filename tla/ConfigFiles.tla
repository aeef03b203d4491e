---------------------------- MODULE ConfigFiles ----------------------------
(***************************************************************************)
(* Reading configuration files, qcp's own and ssh's: config/ssh/files.rs   *)
(* `Parser`, config/manager.rs `Manager` and client/ssh.rs                 *)
(* `SshConfigFiles`.                                                       *)
(*                                                                         *)
(* `purpose` says which of the two users of the parser runs:               *)
(*   "manager"  every file is read, lowest priority first, and figment     *)
(*              merges what each one says with the environment, the        *)
(*              command line and the defaults;                             *)
(*   "alias"    the ssh configuration files are read, highest priority     *)
(*              first, until one of them has the key.                      *)
(*                                                                         *)
(* The value of a setting is where it was written: file and line.          *)
(***************************************************************************)
EXTENDS Naturals, SequencesExt

CONSTANTS
  Fields,             \* keywords that are fields of Configuration
  EnvKey,             \* the one that the environment may set ("color")
  UserKey,            \* the one that `user@host` on the command line sets
  Lookup,             \* the one an alias lookup asks for ("hostname")
  Host,               \* names a user may give for the remote host
  Pattern,            \* names that occur in Host lines
  IncludeDepthLimit,  \* files.rs INCLUDE_DEPTH_LIMIT
  MaxLines            \* bound of the model: lines of a user's file

ASSUME FieldsAssumption == {EnvKey, UserKey, Lookup} \subseteq Fields
ASSUME HostAssumption == "none" \notin Host
ASSUME DepthAssumption == IncludeDepthLimit \in Nat \ {0} /\ MaxLines \in Nat

VARIABLES
  text,       \* file name -> its lines, or Absent, or Unreadable
  purpose, host,
  wishes,     \* the keys that environment, options and `user@host` have set so far
  todo,       \* files still to be read, in the order the program takes them
  stack,      \* the parsers at work, one per level of Include
  accepting,  \* lines apply to `host`; one flag for the whole file tree
  data,       \* HostConfiguration.data of the file being read
  layers,     \* the figment: profile -> partial function from keys to sources
  found,      \* the value an alias lookup came to
  pc

ConfigVars ==
  <<text, purpose, host, wishes, todo, stack, accepting, data, layers, found, pc>>

NoHost == "none"
Absent == <<[kind |-> "absent"]>>
Unreadable == <<[kind |-> "unreadable"]>>
Files == {"user", "system", "included"}
Nothing == [k \in {} |-> k]
Source == [from : Files \cup {"env", "cli", "jobspec", "default", "nowhere"}, line : Nat]
From(place) == [from |-> place, line |-> 0]
FromAll(keys, place) == [k \in keys |-> From(place)]

----------------------------------------------------------------------------
(* The text of a file.  An unterminated quote, a missing argument and a    *)
(* bad glob are all a "bad" line; an empty line or a comment, a            *)
(* Match line, which has no effect, and a keyword that is no field, which  *)
(* no one asks for, are all "idle".                                        *)

HostLine(patterns) == [kind |-> "host", hosts |-> patterns]
Include(names) == [kind |-> "include", files |-> names]
FromHome(name) == [kind |-> "home", files |-> <<name>>]   \* Include ~/name
Setting(k) == [kind |-> "setting", key |-> k]
Idle == [kind |-> "idle"]
Bad == [kind |-> "bad"]

Pat(no, n) == [not |-> no, name |-> n]

UserLines ==
  {HostLine({Pat(TRUE, n)}) : n \in Pattern}
    \cup {HostLine({Pat(FALSE, n)}) : n \in Pattern}
    \cup {Include(<<"included">>), Setting(EnvKey), Setting(Lookup), Bad}
IncludedLines ==
  {HostLine({Pat(TRUE, n), Pat(FALSE, "*")}) : n \in Pattern}
    \cup {HostLine({Pat(FALSE, n)}) : n \in Pattern}
    \cup {FromHome("included"), Setting(Lookup), Bad, Idle}
SystemLines == {FromHome("included"), Setting(EnvKey), Setting(Lookup)}

Texts(lines, n) == UNION {[1..m -> lines] : m \in 0..n}

IsText(f) == text[f] \notin {Absent, Unreadable}

(* A negative pattern matches every host but those it names, on its own.   *)
MatchOnePattern(h, p) == (p.name \in {"*", h}) # p.not

EvaluateHostMatch(h, patterns) ==
  IF h = NoHost
  THEN Pat(FALSE, "*") \in patterns
  ELSE \E p \in patterns : MatchOnePattern(h, p)

----------------------------------------------------------------------------
(* figment, as the code uses it.                                           *)

Profile == IF host = NoHost THEN "default" ELSE "host"
Overlay(upper, lower) ==
  [k \in DOMAIN upper \cup DOMAIN lower |-> IF k \in DOMAIN upper THEN upper[k] ELSE lower[k]]
Merge(profile, dict) == [layers EXCEPT ![profile] = Overlay(dict, @)]
Join(profile, dict) == [layers EXCEPT ![profile] = Overlay(@, dict)]
Extracted ==
  Overlay(layers["global"],
       IF host = NoHost THEN layers["default"] ELSE Overlay(layers["host"], layers["default"]))

----------------------------------------------------------------------------

ConfigInit ==
  /\ text \in [user : Texts(UserLines, MaxLines) \cup {Absent},
               included : Texts(IncludedLines, MaxLines) \cup {Absent, Unreadable},
               system : Texts(SystemLines, 1) \cup {Unreadable}]
  /\ \/ purpose = "manager" /\ host \in Host \cup {NoHost} /\ todo = <<"system", "user">>
     \/ purpose = "alias" /\ host \in Host /\ todo = <<"user", "system">>
  /\ wishes = [env |-> {}, cli |-> {}, jobspec |-> {}]
  /\ stack = <<>> /\ accepting = TRUE /\ data = Nothing
  /\ layers = [p \in {"default", "host", "global"} |-> Nothing]
  /\ found = From("nowhere")
  /\ pc = "env"

(* Manager::new: the environment first, in the profile below every host's. *)
Environment ==
  /\ pc = "env"
  /\ \E set \in SUBSET {EnvKey} :
       IF purpose = "manager"
       THEN /\ layers' = Merge("default", FromAll(set, "env"))
            /\ wishes' = [wishes EXCEPT !.env = set]
       ELSE UNCHANGED <<layers, wishes>>
  /\ pc' = "files"
  /\ UNCHANGED <<text, purpose, host, todo, stack, accepting, data, found>>

Parser(f) == [file |-> f, line |-> 0, pending |-> <<>>]

(* A file that is not there is passed over, one that cannot be opened too, *)
(* with a warning.                                                         *)
OpenFile ==
  /\ pc = "files" /\ stack = <<>> /\ todo # <<>>
  /\ IF IsText(Head(todo))
     THEN /\ stack' = <<Parser(Head(todo))>> /\ accepting' = TRUE /\ data' = Nothing
          /\ UNCHANGED todo
     ELSE /\ todo' = Tail(todo)
          /\ UNCHANGED <<stack, accepting, data>>
  /\ UNCHANGED <<text, purpose, host, wishes, layers, found, pc>>

Top == stack[Len(stack)]
Reading == stack # <<>> /\ Top.pending = <<>>
AtEnd == Reading /\ Top.line = Len(text[Top.file])
Line == text[Top.file][Top.line + 1]
Replace(frame) == [stack EXCEPT ![Len(stack)] = frame]

(* The file at the bottom of the stack decides whether ~ is allowed.       *)
IsUser == stack[1].file = "user"

(* A line of the kind, read by the parser on top of the stack.             *)
ReadLine(kind) ==
  /\ Reading /\ ~AtEnd /\ Line.kind = kind
  /\ UNCHANGED <<text, purpose, host, wishes, todo, layers, found, pc>>
Advance == stack' = Replace([Top EXCEPT !.line = @ + 1])

ReadIdle == ReadLine("idle") /\ Advance /\ UNCHANGED <<accepting, data>>

ReadHost ==
  /\ ReadLine("host") /\ Advance
  /\ accepting' = EvaluateHostMatch(host, Line.hosts)
  /\ UNCHANGED data

ReadSetting ==
  /\ ReadLine("setting") /\ Advance
  /\ data' = IF accepting
             THEN Overlay(data, [k \in {Line.key} |-> [from |-> Top.file, line |-> Top.line + 1]])
             ELSE data
  /\ UNCHANGED accepting

(* Files named one after the other, if says[f] is what file f says.        *)
AllOf(says, names) == FlattenSeq([i \in 1..Len(names) |-> says[names[i]]])

(* Of the files that an Include names, those that exist.                   *)
Present(names) ==
  AllOf([f \in Files |-> IF text[f] = Absent THEN <<>> ELSE <<f>>], names)

(* Plausible bug: the line of an Include is not consumed.                  *)
ReadIncludeAgain ==
  /\ \/ ReadLine("include")
     \/ ReadLine("home") /\ IsUser
  /\ stack' = Replace([Top EXCEPT !.pending = Present(Line.files)])
  /\ UNCHANGED <<accepting, data>>

(* find_include_files: only what exists; the files are then read in order, *)
(* whether or not lines are being accepted.                                *)
ReadInclude ==
  /\ \/ ReadLine("include")
     \/ ReadLine("home") /\ IsUser
  /\ stack' = Replace([Top EXCEPT !.line = @ + 1,
                                  !.pending = Present(Line.files)])
  /\ UNCHANGED <<accepting, data>>

(* Plausible bug: an included file starts as one of the top level does.    *)
OpenIncludedAfresh ==
  /\ stack # <<>> /\ Top.pending # <<>>
  /\ IsText(Head(Top.pending)) /\ Len(stack) < IncludeDepthLimit
  /\ stack' = Append(Replace([Top EXCEPT !.pending = Tail(@)]), Parser(Head(Top.pending)))
  /\ accepting' = TRUE
  /\ UNCHANGED <<text, purpose, host, wishes, todo, data, layers, found, pc>>

OpenIncluded ==
  /\ stack # <<>> /\ Top.pending # <<>>
  /\ IsText(Head(Top.pending)) /\ Len(stack) < IncludeDepthLimit
  /\ stack' = Append(Replace([Top EXCEPT !.pending = Tail(@)]), Parser(Head(Top.pending)))
  /\ UNCHANGED <<text, purpose, host, wishes, todo, accepting, data, layers, found, pc>>

EndIncluded ==
  /\ AtEnd /\ Len(stack) > 1
  /\ stack' = Front(stack)
  /\ UNCHANGED <<text, purpose, host, wishes, todo, accepting, data, layers, found, pc>>

(* An error anywhere unwinds through every level of Include: the file and  *)
(* all it included is dropped, with a warning, and the next one is read.   *)
Broken ==
  \/ Reading /\ ~AtEnd /\ (Line.kind = "bad" \/ (Line.kind = "home" /\ ~IsUser))
  \/ /\ stack # <<>> /\ Top.pending # <<>>
     /\ (IsText(Head(Top.pending)) => Len(stack) = IncludeDepthLimit)

Drop ==
  /\ Broken
  /\ stack' = <<>> /\ todo' = Tail(todo)
  /\ UNCHANGED <<text, purpose, host, wishes, accepting, data, layers, found, pc>>

MergeFile ==
  /\ AtEnd /\ Len(stack) = 1 /\ purpose = "manager"
  /\ layers' = Merge(Profile, data)
  /\ stack' = <<>> /\ todo' = Tail(todo)
  /\ UNCHANGED <<text, purpose, host, wishes, accepting, data, found, pc>>

(* SshConfigFiles::get: the first file that has the key ends the search.   *)
LookupInFile ==
  /\ AtEnd /\ Len(stack) = 1 /\ purpose = "alias"
  /\ stack' = <<>>
  /\ IF Lookup \in DOMAIN data
     THEN found' = data[Lookup] /\ todo' = <<>>
     ELSE todo' = Tail(todo) /\ UNCHANGED found
  /\ UNCHANGED <<text, purpose, host, wishes, accepting, data, layers, pc>>

(* TryFrom<&CliArgs> for Manager: options, then the user of `user@host`.   *)
CommandLine ==
  /\ pc = "files" /\ todo = <<>> /\ purpose = "manager"
  /\ \E opts \in {{}, {EnvKey, UserKey}} :
       /\ layers' = Merge("global", FromAll(opts, "cli"))
       /\ wishes' = [wishes EXCEPT !.cli = opts]
  /\ pc' = "jobspec"
  /\ UNCHANGED <<text, purpose, host, todo, stack, accepting, data, found>>

(* A user can be named only with a host.                                   *)
Users == SUBSET {k \in {UserKey} : host # NoHost}

(* Plausible bug: the user of `user@host` is kept below the options.       *)
JobspecBelow ==
  /\ pc = "jobspec"
  /\ \E user \in Users :
       /\ layers' = Join("global", FromAll(user, "jobspec"))
       /\ wishes' = [wishes EXCEPT !.jobspec = user]
  /\ pc' = "default"
  /\ UNCHANGED <<text, purpose, host, todo, stack, accepting, data, found>>

Jobspec ==
  /\ pc = "jobspec"
  /\ \E user \in Users :
       /\ layers' = Merge("global", FromAll(user, "jobspec"))
       /\ wishes' = [wishes EXCEPT !.jobspec = user]
  /\ pc' = "default"
  /\ UNCHANGED <<text, purpose, host, todo, stack, accepting, data, found>>

ApplySystemDefault ==
  /\ pc = "default"
  /\ layers' = Join("default", FromAll(Fields, "default"))
  /\ pc' = "done"
  /\ UNCHANGED <<text, purpose, host, wishes, todo, stack, accepting, data, found>>

Answer ==
  /\ pc = "files" /\ todo = <<>> /\ purpose = "alias"
  /\ pc' = "done"
  /\ UNCHANGED <<text, purpose, host, wishes, todo, stack, accepting, data, layers, found>>

Read ==
  \/ OpenFile \/ ReadIdle \/ ReadHost \/ ReadSetting \/ ReadInclude
  \/ OpenIncluded \/ EndIncluded \/ Drop \/ MergeFile \/ LookupInFile
Step ==
  \/ Environment \/ Read \/ CommandLine \/ Jobspec \/ ApplySystemDefault \/ Answer
Stutter == pc = "done" /\ UNCHANGED ConfigVars
ConfigNext == Step \/ Stutter

ConfigSpec == ConfigInit /\ [][ConfigNext]_ConfigVars /\ WF_ConfigVars(Step)

----------------------------------------------------------------------------
(* What a file says, without a parser: its text with every Include         *)
(* replaced by the text it names, and of the lines of that the first that  *)
(* sets the key below no Host line, or below one that matches.  It is a    *)
(* matter of the text t of all files and of the file at the top, nothing   *)
(* else.                                                                   *)

Entry(t, f, n) == [file |-> f, line |-> n, what |-> t[f][n]]
Failure == [file |-> "none", line |-> 0, what |-> Bad]

Stands(t, top, below, f, n) ==
  IF t[f][n].kind = "home" /\ top # "user" THEN <<Failure>>
  ELSE IF t[f][n].kind \in {"include", "home"} THEN AllOf(below, t[f][n].files)
  ELSE <<Entry(t, f, n)>>

LinesAfter(t, top, below, f, n) ==
  FlattenSeq([i \in 1..(Len(t[f]) - n) |-> Stands(t, top, below, f, n + i)])

WholeFile(t, top, below, f) ==
  CASE t[f] = Absent -> <<>>
    [] t[f] = Unreadable -> <<Failure>>
    [] OTHER -> LinesAfter(t, top, below, f, 0)

(* Includes one below the other are followed this deep and no deeper.      *)
Expansion(t, top) ==
  LET says[depth \in 0..IncludeDepthLimit] ==
        IF depth = 0
        THEN [f \in Files |-> IF t[f] = Absent THEN <<>> ELSE <<Failure>>]
        ELSE [f \in Files |-> WholeFile(t, top, says[depth - 1], f)]
  IN says

Expanded(t, f) == Expansion(t, f)[IncludeDepthLimit][f]
Fails(lines) == \E i \in 1..Len(lines) : lines[i].what.kind = "bad"

IsHost(lines, i) == lines[i].what.kind = "host"
Applies(h, lines, i) ==
  \A g \in 1..i : IsHost(lines, g) /\ (\A j \in (g + 1)..i : ~IsHost(lines, j))
                   => EvaluateHostMatch(h, lines[g].what.hosts)
Sets(h, lines, i, k) == lines[i].what = Setting(k) /\ Applies(h, lines, i)
IsFirst(h, lines, i, k) == Sets(h, lines, i, k) /\ \A j \in 1..(i - 1) : ~Sets(h, lines, j, k)

Given(h, lines) ==
  LET first(k) == CHOOSE i \in 1..Len(lines) : IsFirst(h, lines, i, k)
  IN [k \in {k \in Fields : \E i \in 1..Len(lines) : Sets(h, lines, i, k)} |->
        [from |-> lines[first(k)].file, line |-> lines[first(k)].line]]

Contents(f) ==
  IF Fails(Expanded(text, f)) THEN Nothing ELSE Given(host, Expanded(text, f))

ConfigTypeOK ==
  /\ host \in Host \cup {NoHost} /\ purpose \in {"manager", "alias"}
  /\ pc \in {"env", "files", "jobspec", "default", "done"}
  /\ Len(todo) <= 2 /\ Len(stack) <= IncludeDepthLimit
  /\ \A i \in 1..Len(stack) :
       /\ IsText(stack[i].file)
       /\ stack[i].line \in 0..Len(text[stack[i].file])
  /\ accepting \in BOOLEAN
  /\ DOMAIN data \subseteq Fields /\ \A k \in DOMAIN data : data[k] \in Source
  /\ DOMAIN layers = {"default", "host", "global"}
  /\ found \in Source
  /\ wishes \in [env : SUBSET Fields, cli : SUBSET Fields, jobspec : SUBSET Fields]

(* A file read to its end has given, for each key by itself, the first     *)
(* line that applies to the host in the text with all Includes expanded.   *)
(* So the Host block of an included file goes on after it, one parser's    *)
(* state is never taken for another's, and nothing of a file read before   *)
(* is left over.                                                           *)
FirstMatchWins ==
  AtEnd /\ Len(stack) = 1 => ~Fails(Expanded(text, stack[1].file)) /\ data = Contents(stack[1].file)

(* Where a value comes from: the user named with the host, before the      *)
(* options of the command line (args.rs, the unit test `priority`); then,  *)
(* as config/mod.rs promises, these options before the user's file, the    *)
(* user's file before the system's and both before the defaults; and       *)
(* the environment between the files and the defaults.  An alias comes     *)
(* from the user's ssh configuration before the system's.  A file that is  *)
(* missing or broken, in itself or in anything it includes, is passed over *)
(* as a whole and hides no other.                                          *)
PrecedenceKept ==
  pc = "done" =>
    LET inFiles == Overlay(Contents("user"), Contents("system"))
    IN IF purpose = "alias"
       THEN found = IF Lookup \in DOMAIN inFiles THEN inFiles[Lookup] ELSE From("nowhere")
       ELSE Extracted = Overlay(FromAll(wishes.jobspec, "jobspec"),
                        Overlay(FromAll(wishes.cli, "cli"),
                        Overlay(inFiles,
                        Overlay(FromAll(wishes.env, "env"), FromAll(Fields, "default")))))

(* Reading ends, also when files include each other in a circle.           *)
ReadingEnds == <>(pc = "done")

============================================================================
