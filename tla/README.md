# qcp in TLA+

qcp copies files between two hosts: a client starts a server over ssh, the two
agree on parameters over ssh's pipes (the *control channel*), open a QUIC
connection over UDP, and copy files over it, one QUIC stream per request (the
*session protocol*). These modules model the parts of that in which something
can go wrong that a unit test would hardly reach. Paths below are relative to
`src/qcp/src/`.

## The system and its parts

| Part | Source | State it keeps | Operations | Hard about it |
| --- | --- | --- | --- | --- |
| PUT | `session/put.rs`, `util/io.rs`, `util/file_ext.rs` | source file and its length when opened; destination file; position in the dialogue | command, header, response, payload, trailer, completion check | short copies not reported, source changing meanwhile, reset racing a response, silent failure of the last steps |
| GET | `session/get.rs`, same helpers | the same, other way round | command, response, header, payload, trailer | only the trailer tells a whole file from a part |
| File metadata | `util/{file_ext,metadata_ext,time}.rs`, `protocol/session/file_transfer.rs` | mode and times of source and destination, attributes on their way | send with header, create, send with trailer, flush, set times, set mode | order of flush and times, what an old file keeps, what a peer of level 1 is not told |
| Other requests | `session/{ls,mkdir,set_meta}.rs`, `protocol/session/response.rs` | one path on the server, a listing in parts | list, make directory, set mode | boundary sizes; a look and an act with others in between |
| Stream handling | `server/stream.rs`, `session/{factory,handler,common}.rs` | one stream pair per command, dropped with it | dispatch, responses | drop order, detached tasks |
| Control channel | `control/channel.rs`, `protocol/control/*`, `protocol/compat.rs`, `util/cert.rs` | selected compatibility level | banner, greetings, messages, closedown report | two versions that must pick the same level apart from each other |
| Session lifecycle | `client/main_loop.rs`, `server/{mod,connection}.rs`, `util/process.rs` | QUIC connection, ssh process, handlers | connect, accept, serve, close, report | every side may vanish at every point; waits without a time limit |
| Job list | `cli/args.rs`, `util/{dirwalk,path}.rs`, `client/main_loop.rs` | list of jobs, success flags, two file trees | expand sources, transfer, apply permissions | order of jobs, partial success, what already is at the destination |
| Negotiation | `transport.rs`, `util/{port_range,socket}.rs`, `protocol/control/{client_msg,server_msg}.rs`, `config/{structure,manager}.rs` | a configuration on each side | offer preferences, combine them, bind a port, merge the answer | zero as "no preference", intersections, what a message leaves out |
| Endpoints | `control/{endpoint,crypto}.rs`, `util/{cert,socket}.rs`, `transport.rs`, `os/` | credentials, cipher suites, windows, socket buffers | make an endpoint from both messages | two sides that decide the same thing without seeing each other |
| Configuration | `config/manager.rs`, `config/ssh/*`, `client/ssh.rs`, `util/optionalify.rs` | layers of settings, a stack of parsers | read files, include, match hosts, merge | precedence, circles of includes, a broken file |
| Command line and process | `cli/{cli_main,args}.rs`, `client/main_loop.rs`, `util/{tracing,dns}.rs`, `control/ssh_process.rs` | mode, one remote host, address, child process, exit status | choose a mode, look up, spawn, run, exit | the same words read three times; success from many parts |
| Statistics | `client/meter.rs`, `util/{time,stats}.rs` | sampling task, stopwatches, totals | start and stop a meter, report, advise | a task beside the transfer, a clock that is set, counts from two hosts |
| Output, build | `config/prettyprint.rs`, `client/progress.rs`, `cli/{manpage,styles}.rs`, `xtask/` | - | - | wording and layout; not modelled |

The parts interact in four ways: messages on the control channel (ssh pipes),
messages and payload on QUIC streams, tasks that share one runtime in each
process, and the file systems of the two hosts, which other programs change
too. The main loop of the client is sequential, beside a meter task for the file
at hand; on the server an accept loop spawns one detached task for each stream.

What makes each part correct: a file reported as copied is there, whole, and
nobody touches it afterwards; a request that is refused has changed nothing; both
programs end whatever fails; the two sides choose the same protocol level and
never send what the other cannot read; a run
reported as successful has copied every entry to its place, with its
permissions when asked, and touched nothing else; both ends run with the same
parameters, each trusts what the other shows, and no parameter is one that
neither user asked for; a setting comes from the place that the documentation
says wins; and what the user is told at the end is true.

## The modules

| Module | Models | Builds on |
| --- | --- | --- |
| `QuicStream` | one direction of a QUIC stream as the code uses it: ordered items, a window, end of file, STOP_SENDING. quinn is not in the repository, so this module is the external part | - |
| `TaggedData` | the lists of tagged attributes in messages, and how a reader takes from them | - |
| `FileCopy`, `RemoteCall` | the abstract promises of one copy, and of one request without payload, to their user | - |
| `Put`, `Get` | `send_impl` and `handle_impl` of a PUT and of a GET, with `handle_stream` | `QuicStream`; implement `FileCopy` |
| `Requests` | the same for LIST, CREATEDIRECTORY and SETMETADATA | `QuicStream`; implements `RemoteCall` |
| `FileMetadata` | mode and times of one file from source to destination | `TaggedData` |
| `Session` | one run from banner to exit on both sides; a request is a step that the client may report as done only after the handler's work, which is what `Put`, `Get` and `Requests` establish | - |
| `Jobs` | paths to job list, transfer phase, post phase, on a tree-shaped destination; a file's copy is one step that succeeds or fails | - |
| `Negotiation` | from the two users' preferences to the parameters of the connection, once a level is selected | - |
| `Endpoint` | from the parameters to two QUIC endpoints that fit each other | `TaggedData` |
| `ConfigFiles` | configuration files and the layers made of them | - |
| `Launch` | one run of the program from its command line to its exit status | - |
| `Meter` | the sampling of transfers, the statistics and the advice | - |
| `PutProofs`, `GetProofs`, `SessionProofs`, `JobsProofs`, `EndpointProofs` | theorems about the module each is named after | that module, `TLAPS` and its library of theorems |
| `MetadataAndMeterProofs`, `RequestsAndLaunchProofs`, `NegotiationAndConfigProofs` | theorems about two modules each, `FileMetadata` and `Meter`, `Requests` and `Launch`, `Negotiation` and `ConfigFiles` | both modules, `TLAPS` and its library |

The composition is by abstraction rather than by product: `Put`, `Get` and
`Requests` show what one request promises, `Session` uses only that promise
(`Put!ConfirmationIsWhole`, `Put!BothEnd`, `RemoteCall`), and `Jobs` uses only
that a request ends, well or not. `FileMetadata` is the data of the
actions `SHeader`, `SCreate` and `SMetadata` of `Put` and of their mirror images in
`Get`. `Negotiation` is the data of the two steps that `Session` knows as the client
message and the server message; its `level` is the one both sides select. It
starts from what each user wrote down, which `ConfigFiles` finds; `Endpoint`
starts from what `Negotiation` agrees on. `Launch` is what surrounds all of these: each is
a step of it with an outcome.

**Put, Get.** `cpc` and `spc` are the next `await` of the two programs; every
`?` is an action that takes the error path, and every return drops the stream
pair, so `CReturn` and `SReturn` finish the sending and stop the receiving half
as `Drop` does in quinn. A framed message is one item of a stream; a message cut
short fails its reader as a missing one does. A unit of payload is one buffer
and carries the source offset it was read from. `srcLen` is the source's current
length, `declared` what the header said; `SourceChanges` may change the first
while the copy runs. `Parsed` is what reading a `FileTrailer` from excess
payload may give. `dest` is what the receiving program has written since it
truncated the file; `touched` says whether it did.

**Requests.** The same for the requests without payload. `node` is what is at the
path on the server, which another program may change at any point
(`OthersMeddle`), in particular between the look and the act. An entry of a listing is
its encoded size; `split_by_size` is the code's, with the space that it keeps
for a length prefix that grows (`Headroom`), and `TooLong` is the check that fails
when a message is written. `HeadroomSuffices` is what `response.rs:111` says of that space: it is
enough for the length of any list that fits a message. `did` remembers what the server did.

**FileMetadata.** A mode is a set of bits, of which `Perm` are those that
`& 0o777` keeps. Times count half seconds, so that the whole seconds on the wire
lose something. `late` is a write that has left tokio's buffer but not reached the
file: it sets the modification time when it happens (`WriteHappens`). `Touch` is
another program changing the source. `Jobs` (of this module) are the ways to send a
file: direction, `-p`, level, umask, and whether the sender is a later program with
attributes that this one skips.

**Session.** `cpc`/`spc` again; `toC`/`toS` are the ssh pipes, which keep
messages when ssh dies; `qc`/`qs` are the QUIC connection as each side sees it.
`handler[k]` is the task that `handle_inner` spawns for stream `k`, `work[k]`
whether it has done what was asked. The stream limit of
`transport.rs` (`max_concurrent_bidi_streams(1)`) counts a stream until
its handler is dropped (`Unretired`). Both sides run the same code at their own
level `lev`, so a level stands for a version of the program. The configuration
that matters to the dialogue is in `cfg`: NewReno, raw public keys, dry run.

**Jobs.** `req` is the command line and what is at the destination before;
`fs` the destination now, a function from paths to files and directories. `Walks`
are the orders in which WalkDir may yield a tree. `JobOf`, `Stem`,
`EndsInSlash` are the path arithmetic of `dirwalk.rs`, `path.rs`, `args.rs` and
`process_recursive_get`. `faulty` remembers whether something failed that the
destination's state would have allowed, so that properties can say "unless
something outside the client fails".

**Negotiation.** `client` and `server` are what the two users wrote down, as
partial functions from keys to values: figment's layers. `Over` puts one layer
on another, `SystemDefault` is the bottom one. `ClientMessage` is what the client
offers, already in the server's terms (the server's `rx` is the bandwidth *to
the server*); level 3 has a message of its own, which can say more.
`Failures`, `ClientPicks` and `Negotiated` are the three outcomes of
`negotiate_v3` and `resolve_conflict`, `Combine` the layers made of them. `taken`
is what another program holds of the port range when the server binds, `bound`
the port it gets. `reply` is the server's answer: the parameters it does
not leave out, or a failure.

**Endpoint.** `pref` is what each user configured and what each machine can do, `rate`
and `rtt` what was agreed. A side's endpoint `ep[side]` is a record of all that
the code hands to rustls, quinn and the kernel: what it shows, what it trusts, its
suites and who orders them, its windows, its buffers and whether there was a warning.
`type_tag_for` is called for the message and again for TLS, as in the code. A
kernel has a default and a limit for buffers, and may or may not let them be
forced beyond.

**ConfigFiles.** `text` is what the files say, a sequence of lines each; `stack`
are the parsers at work, one per level of Include, and `accepting` the one flag that
all of them share. The value of a setting is the file and line it was read from, so that
a property can say where it must come from. `Contents` is the reference: the text with
every Include replaced by what it includes, down to the depth that the code allows (`Expanded`), and
of that, for each key, the first line that sets it where Host lines let it (`Given`). It knows of no
parser, stack or flag. A file that does not exist says nothing at any depth, since
`find_include_files` only returns what exists; any other is an error below the last level.
`PrecedenceKept` gives the order of the layers pair by pair: the user of `user@host`, the options of the command
line, the user's file, the system's, the environment, the default. That the user of `user@host` comes
first is what `args.rs` does and its unit test `priority` says; the options, the files and the default are
in the order of `config/mod.rs`. `ConfigFiles` takes the environment's place from `Manager::new`, which merges it before
the files; `config/structure.rs:495` says so of colours.

**Launch.** A word of the command line is a form (`user@host:file`, `[address]:file`,
a plain path, a bracket left open) with a host and a user, which a bracket, meant for a raw IPv6 address, has not here. `remote_host_lossy`,
`remote_user` and `JobspecsFail` are the three looks at them. `Error` is the way of an
error to the user; `said` whether one got there; `logging` is the flag
`TRACING_INITIALIZED` and whether there is a subscriber.

**Meter.** `bar` is the position of a file's progress bar, `meter` its
`InstaMeterRunner`, `stage` how far the file is. A job may end before it has a meter (`JobRefused`) or at any
await after (`JobFails`). `StartMeter`, `Move` and `StopMeter` stand for `put.rs` and `get.rs` alike. `now` is the monotonic clock by which the task sleeps; its
arithmetic uses the wall clock, which `ClockStep` sets. `Conn` are the counts that the two
endpoints report at the end.

## The runs

| Run | Bounds | States | Shows |
| --- | --- | --- | --- |
| `Put` | window 2, source up to 3 units | 18 060 | type, three safety invariants, termination, refinement of `FileCopy` |
| `Get` | window 2, source up to 3 units | 11 424 | what a trailer means, termination, refinement of `FileCopy` |
| `Requests` | window 2, up to 6 entries of size 1 or 3, limit 8 | 53 057 | whole listings in parts that fit, termination, refinement of `RemoteCall` |
| `FileMetadata` | two permission bits, one other, two times around the epoch, levels 1 and 2 | 1 332 736 | what `-p` preserves, never a wider mode than due, when a mode changes at all |
| `Session` | levels 1 to 4 on each side, two requests | 164 910 | no unreadable message, meaning of success, nothing after the end, termination |
| `Jobs` | two names, two sources, three entries in all, two at the destination | 838 680 | meaning of success, no lockout by permissions, nothing else touched |
| `Negotiation` | up to two preferences on each side, levels 1 to 3, ports 1 to 3 | 2 816 854 | both ends agree, the result is the documented one, nothing beyond what either user allowed, valid on both sides |
| `Endpoint` | levels 2 and 3, two rates and RTTs, three buffer sizes | 170 240 | the handshake succeeds, the documented cipher suite, warnings, windows |
| `ConfigFiles` | up to 2 lines in the user's and the included file, 1 in the system's, depth 3 | 1 155 440 | the first match wins, documented precedence, reading ends |
| `Launch` | two hosts, two users, three paths | 2 909 116 | one host, one user, one address family, an honest exit status |
| `Meter` | two files of size 0 or 2, clock up to 4 ticks | 4 734 370 | no meter left, sound statistics, advice that helps |
| `NegotiationPorts` | level 3, one preference | - | a document that the code does not live up to; see `findings` in `PROJECT.json` |

*Why the bounds are enough.* In `Put` and `Get` three units and a window of two
let the writer block, let the source shrink below and grow above its declared length
by more than one unit, and put a unit where the trailer is expected with another
behind it. Nothing distinguishes a fourth unit. In `Requests` six entries make one,
two and three parts, a part that is exactly full, and a length prefix that
grows by a unit (`LengthBase` is 2 where the code has 128). In `FileMetadata` a bit may
be in the source's mode, in the umask and in the old file's mode independently of the other;
one of the times is before the epoch and one after it, between two seconds. In `Session`
two requests are the least that can overlap; the levels 1 to 4 are all there are. In `Jobs` three
entries allow a directory with two children, a chain of three, two sources one
of which has an entry inside, and two names allow both collision and difference;
paths longer than the chain of three meet the same rules at each level.

In `Negotiation` two preferences allow `rx` and `tx` on both sides, or a
bandwidth and an RTT on each, the combinations that rules relate; the rules for
the other keys are independent of each other. Bandwidths 0, 2, 6 stand for no
preference, the least that is valid, and one that overflows together with the longer RTT
(`MaxU64` is 12 and not 2^64 - 1 for that reason); three ports allow ranges
that are equal, touch, include each other or miss. Level 4 negotiates as level 3
does. In `Endpoint` levels 2 and 3 are the two sides of the one feature that matters there;
buffer sizes 1, 2, 3 are below, at and above what is wanted. In `ConfigFiles` two lines allow a
Host line before a setting or an Include between two of them, and a depth of three
a circle that passes through another file (the code allows more; nothing depends
on how many). In `Meter` a tick is half a second, so a file may end within the first
sample, at it, and after two; the
rates are one that what was seen exceeds and one that it may not.

`MaxLen`, `MaxEntries`, `MaxRequests`, `MaxSources`, `MaxPreferences`, `MaxLines`,
`MaxPaths`, `NFiles` and `MaxTime` are bounds of the model,
not of the program. `Window` is the program's flow-control window, in items. The type
invariant of `Put` is part of its run; those of the other components are proved
(`TypeCorrect` in each module of proofs, `MeterTypeCorrect`, `RequestTypeCorrect`, `ConfigTypeCorrect`),
and all hold on these instances.

*Fairness.* Each side is a task that its async runtime polls as long as it can make progress. In
`Put` and `Get` that is weak fairness of `ClientGoesOn` and of `ServerGoesOn`: the steps of a program that
its streams, the end of its source or an error seen on the stream make possible. An I/O error of a file in
the payload is not among them, so nobody who waits for a full window or a silent peer is
rescued by one; what ends such a wait is what the code relies on, room in the window, the end of the stream,
STOP_SENDING, or a lost connection, of which the copy's error is
owed (`conn = "lost"`). Steps whose result a file decides, such as opening one, end well or not, and
the choice is free. In `Requests`, whose waits no failure of a file can end, it is
weak fairness of `ClientNext` and of `ServerNext`. In `Session` it is weak fairness of each program and of each
handler; the timeouts of connect and accept are actions of their program, and
fair because the timer fires. Losing the connection, ssh dying, the UDP path
failing and changes of files by others are never forced. `ConfigFiles` is one sequential
program, weakly fair as a whole. The other modules are checked for safety only: that
their programs end is part of `BothExit`.

All runs check deadlock, with a stuttering step in states in which every program has
ended, except `Launch` and `FileMetadata`: there the program stops when it has exited, or
when the one file is done, and nothing else goes on.

## Where the code and its words differ

`NegotiationPorts` is a run: `port_range.rs:24` says that the last number of a range is
inclusive, and `bind_range_for_address` leaves it out. While modelling, more disagreements came
up. They are described here for a reader of the code, and the models follow the code.

- `server/mod.rs:85` speaks of waiting "for all connections and streams to finish"; the
  handlers of streams are detached, and only the accept loop is joined. After a
  failed request the report may come while its handler still runs. After a
  success this cannot happen (`NothingAfterSuccess`).
- `client/main_loop.rs:278` expects "at least one job spec"; a recursive PUT to a bare
  host of a source that is a single file or an empty directory makes none.
- `client/main_loop.rs:733` says that permissions are applied "to any directories created".
  After a failed transfer phase they are also applied to what was at a
  job's place before. For a list of one job, such as one empty directory, the
  phase is skipped, although `-p` promises file and directory permissions
  (`client/options.rs:61`).
- A recursive PUT of a single file into an existing directory is refused because the root
  of a walk gets a trailing slash (`util/dirwalk.rs:136`); `client/options.rs:69` says that
  it is intended to match scp.
- `server_msg.rs:56`: version 2 of the server message does not take over the warning about
  the server's socket buffers, which version 1 does (comment at line 303).
- `session/mkdir.rs:63`: if two programs make the same directory, one may be told of an
  error although the directory is there.
- `util/tracing.rs:170` asks callers to report its errors with care. The flag that tracing is
  set up is taken before a step that may fail, and `cli_main.rs:33` prints errors itself only
  while the flag is not taken; such an error is printed nowhere.
- `protocol/session/file_transfer.rs:44` says that write permission is added to the mode of a
  header; the code that reads it does not add it.
- `protocol/mod.rs:93` says that `aes256` on either side selects AES256. When the client
  asks for it and the server, which does not, has no AES hardware, the server's order
  counts (`control/crypto.rs:256`), and that has AES128 before AES256. `SuitePreferred` follows the
  code here and says AES128, and the documentation in every other case.
- `config/structure.rs:619`: bandwidth times RTT below one byte, such as 150 B/s
  at 1 ms, is valid and gives a receive window of zero. The instance of `Endpoint` has such a
  value (rate 3, RTT 1, divided by `Scale` 4): `PayloadCapacity` holds of it, with nothing allowed in flight.
- `util/stats.rs:316`: the test for a substantial increase saturates above 2^64 / 11, and advice
  given because of blocking may print the same four digits as the current setting.
- `server/mod.rs:60` says that the wait for the QUIC connection ends when stdin is closed;
  stdin is not read there, so only the timeout ends it.
- The table in `transport.rs:253` says that the client's initial congestion window wins; code
  and unit test let the server's win. Of this row `AgreesWithTable` says only that somebody asked for
  the window, or that it is the default; all other rows are as in the table.
- `server_msg.rs:271` says that an absent window means the algorithm's default; the
  client falls back to the window it had asked for itself.

## What is proved

Every safety invariant and every action property that a passing run checks is also a theorem,
for each of the eleven state machines. For each of them a module of proofs shows that an
invariant is inductive and derives the properties from it; none of the properties is
inductive alone. The invariant is called `Inv`, stated at the end of the component's module, with the theorem
`Invariance`; for `Meter`, `Requests` and `ConfigFiles` it is in the module of proofs
(`MeterInv`, `RequestInv`, `ConfigInv`, with `MeterInvariance` and so on). TLC checked every
one of them on the instance of the run before it was proved (of `ConfigInv` with the prefixes of the
expanded text for the lines that have been read, since it cannot enumerate all sequences; of
`MeterInv`, whose sets of samples are slow to check, with a clock of three ticks and not four).
The theorems hold for all values of the
constants that satisfy the assumptions named below, so for any number of
requests, jobs, paths or levels, and any size of source or window. There is
one lemma per action (or group of actions that share a frame), and under it a step for each
conjunct that the action can disturb.

Three modules define something by recursion: the sum of a sequence and the parts of a listing, the
expansion of a file and the sum of the sizes. They use recursive functions, whose values
have to be *proved* to exist. `NumbersFrom0` is induction as a statement about sets (a set that
has 0 and with every number the next has all of them; it follows from the well-foundedness of
the naturals), `FoldExists` says that the partial results of any sequence of steps form a function, and a lemma for
each definition that it is such a fold (`SumIsFold`, `JoinIsFold`, `FlattenIsFold`; for the sizes
`SumsExist` does both at once). All
that is used of the definitions afterwards is what they give for nothing and for one
item more.

**Put** (`WindowAssumption`, `MaxLenAssumption`): `TypeOK`, `DestinationIsPrefix`,
`SuccessIsFaithful`, `RefusalLeavesDestination`, `ConfirmationIsWhole`, the action
property `ReportIsFinal`, and `Copy!Spec`, the refinement of `FileCopy`.
Why a confirmation means a
whole file is a fact about the *upward log*: position 1 is the command, 2 the
header, then the units in order, and a trailer only after exactly `declared` of
them (`UpItem`, `UpInv`). While the server is before its trailer it has read
exactly `Len(dest) + 2` items (`ServerInv`), so what it reads next is determined by
`dest`: another unit, or the trailer. A short payload then ends in end of file
where the trailer is due, since the client writes no trailer unless
`sent = declared` (`ClientInv`); this is why it does not matter that `limited_copy`
drops its count. Payload beyond the declared size can be parsed as a trailer,
but then `sent > declared` for ever, the client never reaches its completion check,
and no success is reported. `DownInv` ties the responses to the
server's program counter, so that the second OK is there only when the server
is done. For the refinement every action is mapped to a step of `FileCopy` or to a stutter:
`COpen` to `OpenSource`, `SCreate` to `Truncate`, `SReceive` to `AppendUnit`,
`SMetadata` to `Stamp`, the first unit beyond the declared length to
`SourceGrows`, `CComplete` to `Succeed` or `Fail`; all others that end the client
to `Fail`.

**Get** (the same): `TrailerMeansWhole` and the refinement of `FileCopy`. The log that matters
is now the downward one (`DownItem`): a response, a header, the units, a trailer. The
server's part of `Inv` says what is in the log at each of its steps, the client's how much of it
was read; they meet only in `down`, so a step of one side leaves the
other's part alone. A client that has taken something for a trailer has
`Len(dest) = size` and knows that `sent >= declared`; if it was payload that happened
to parse, `sent > declared`, which is the case `FileCopy` calls a source that grew.

**FileMetadata** (`MetadataAssumption`): `PreservedOrWarned` and the action properties
`NeverWider` and `ModeKept`. What is on its way is what the sender read when it opened its
file (`AsOpened`); a reader gets from a list of tags what was put into it, whatever it skips and
whoever wrote it (`MetadataFacts` and the lemmas before it); and what was
set stays, because no write is late once the flush is over (`Opened`, `Settled`).
Seconds on the wire are those `from_unix` gives back (`TimesTravel`), also before the epoch.

**Session** (`SessionAssumption`): `FormsUnderstood`, `SuccessIsComplete` and
the action property `NothingAfterSuccess`, for every set of levels and any number of requests.
`Positions` says which program counters of the two sides go together, `ToServer` and
`ToClient` what can be in each pipe for each of them: never more than the greeting and
the one message of that step. `LevelsAgreed` follows: both compute the same level, although each
reads only the other's greeting. `Outcomes` ties a client's
view of a request to the work of its handler, and `DataChannel` says that a server that
reports has closed its connection first.

**Jobs** (`JobsAssumption`): `SuccessMeansAll`, `CleanCopySucceeds`, `NoLockout` and
`NothingElseTouched`, for every tree of sources, every destination and every order in which a
walk may yield it. All is about prefixes of paths. Every job is the one planned for an entry
of a source (`FromSources`) and nothing is left out unless something was skipped (`AllListed`).
When the sources are apart no job is at, or contains, the place of an earlier one (`InOrder`): a walk yields a directory
before what is in it. So a job never needs what a later one makes, and applying permissions
in reverse order shuts no directory that is still needed (`Stamped`). `SoFar` is what
the jobs done so far have left, `DirsStay` that nothing goes away. `Undisturbed` is for a copy
to a clean place: all that is there is the doing of a job in the list (`Expected`), so that no job can fail for what
an earlier one left.

**Negotiation** (`ValuesAssumption`, `DefaultAssumption`): `EndsAgree`, `AgreesWithTable`,
`ClientConfigValid` and `Permitted`. `Inv` says which layers each message and each configuration was
computed from. The rest is in `CombineAt`, what `combine_bandwidth_configurations` settles for one key,
and its corollaries for bandwidths, times, controller, window and port (`CombineBandwidth` and so on): each
row of the table, its default included. A port of its own exists when
both ranges are given because a server with no port in common refuses (`RangeHasPort`, `PortFacts`). That the client
need not validate what it merges is then arithmetic: the merged bandwidth-delay
products are those that the server has validated.

**Endpoint** (`EndpointAssumption`): `CredentialsAccepted`, `SuitePreferred`,
`ShortBuffersAreTold` and `PayloadCapacity`. An endpoint is what `create_endpoint` makes of the
peer's message, which holds the sender's own credentials (`Sent`, `Made`): so what a side trusts is what the
other shows. The suite is the first of the deciding side's list that the other has,
by cases over the two preferences and the hardware (`ChosenIs`).

**Launch** (`LaunchAssumption`): `OneRemote`, `OneFamily` and `ExitIsHonest`, for any number of
paths. The three looks at the words agree because the job list is accepted only if all
remote words are on one side and name one host, and a host that is not of one
mind is refused before (`HostIsOne`, `UserIsOne`, `OneSideIsRemote`). `Configured`, `Addressed`
and `Started` say what is settled at each point of the way, `Reported` what must have been said.

**Meter** (`MeterAssumption`): `NoMeterLeft`, `StatisticsSound` and `AdviceSound`, for any number of
files and any sizes, congestion windows, rates and round trip times. `course` remembers, beside
the program, in which intervals a file was sampled and how many bytes passed its bar in each; those of a file
that fails are dropped with it. `HonestMeter` is why a peak means
something: what the meter divides by is what it has slept, as long as nobody sets the clock, what it subtracts
is where the last interval ended, and its peak is the rate of the fastest interval so far. The peak of
the report is that of the files that are done, or the average over the whole phase where that is higher
(`DataRate`, as `stats.rs:68` has it), which `StatisticsSound` counts as one more interval.
`HonestTotals` ties the totals to the list of files that are done, and to what the sender has
sent, which is why the overhead does not wrap around. `Chained` says of the stopwatches that
each stops when the next starts and that the fourth is the one of the transfer, so that its time
is known when the report is made. `AdviceSound` is then arithmetic about one report. Its
last clause, that there is no other advice for the same transfer once the first is followed, needs the advice to be below `MaxU64 / 11`: above that the
test for a substantial increase saturates and says yes for ever. `MeterAssumption` keeps configured rates
below `MaxU64 / 22` for the same reason; with 64 bits that is 8 * 10^17 bytes in a second.

**Requests** (`SizesAssumption`, `EntryFits`, `HeadroomSuffices`, `WindowAssumption`): `NoListingTooLong`, and that
each of the three requests is a `RemoteCall`, apart from its fairness (`RequestsAreRemoteCalls`).
`SplitDivides` says what `split_by_size` returns for any listing: parts of which each
fits a message and none is empty, all but the last of which say that more come, and which together are the
listing. It follows by induction over the entries from what one more entry does to the
parts at hand (`PutEntry`). `EntryFits` is that a single entry
fits, for which the code relies on the length of a path. `ServerSaid` gives the downward log from what the server has
done, and `ClientAt` what the client can have made of how much of that, so that the end of the stream is never
taken for the end of the listing. `Broken` says why a side can end without success after the server
has made a listing: only because the connection is lost. For the refinement the steps of the server that do
something, or refuse it, are `Act`, those that end the client are `Return`, and all others are stutters.

**ConfigFiles** (`FieldsAssumption`, `HostAssumption`, `DepthAssumption`): `FirstMatchWins` and
`PrecedenceKept`, for all sets of hosts, patterns and fields, files of any length and any limit of the
depth of Include. `ReadSoFar` is the link between the parsers and the reference: there is a
sequence of lines, those read so far, such that these and what is left to the parsers on the
stack (`Left`, from the top of the stack down: the rest of each file and the files that its last Include has
pending) are the expanded text; `accepting` and `data` are what the reference makes of
the lines read. So a parser that takes up another one's state, or loses some of its own, breaks
the equation, and a step of any parser moves one line from what is left to what has been read
(`OneLineMore`) or opens an Include in place (`OpenIncludedKeeps`). When the stack is one parser at its end nothing is left,
which is `FirstMatchWins`. `wishes` remembers which keys the environment, the options and the user named with the
host have set, each chosen apart from the others. `InTurn` and `LayersAre` then say which of these and which
files the layers are made of so far, in which order, whatever the order in which each of the two users of the parser takes them, and `FoundIs`, `FoundEnds`
what an alias lookup has found.

Only model-checked:

- Liveness: `BothEnd` of `Put`, `Get` and `Requests`, `BothExit`, `ReadingEnds`, and the fairness in
  `RemoteCall` (`ImplementsRemoteCall` as a whole). The prover handles neither
  fairness nor ENABLED.
- `WholeRangeTried` is what a comment says and the code does not do; it has a counterexample and no proof.

## What is not modelled

The bytes of messages (BARE, an external library; their sizes are in `Requests`, what
a reader skips in `TaggedData`), congestion control and loss recovery inside quinn, the
inside of TLS, the ssh dialogue before the first byte of the banner, Windows and macOS (file
attributes, default paths, buffer advice), symbolic links (followed by both walks),
file systems that change under a directory walk, times other than through "a timeout
fires" or the ticks of `Meter`, the drawing of progress bars, tables and help.

Of configuration files: the list that the ssh_config option names instead of the default one, two
separate files for the user (one stands for both), hosts named `default` or `global`,
which are figment's own profiles. figment is external: `Over` and `Overlay` are its merge. In
`Endpoint`: MTU, keep-alive and packet thresholds, which are handed to quinn as they are. The level `force_compat` exists
for tests only. Level numbers beyond 4 do not exist yet.

## Plan

What was planned is done: the eleven state machines, their runs, and a proof of each safety
invariant and action property. What would come next, with the code:

1. A change to one of the mapped functions: its definition, the run, then the lemma of that action.
2. A fifth compatibility level: a member of `Levels` and a case of the forms in `Session`, and of
   `Supports...` in the modules that ask for a feature.
3. Liveness by hand: a ranking function for `Session` and one for the stack of `ConfigFiles`, whose decrease is a
   safety property that can be proved as the others are.
