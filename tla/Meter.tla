------------------------------- MODULE Meter --------------------------------
(* How a client measures its transfers and what it tells the user at the end: *)
(* the meter task that samples a progress bar while a file moves, the totals, *)
(* the stopwatches of the phases, the report of the server, the statistics    *)
(* and the advice on bandwidth.                                               *)
(*                                                                            *)
(* Source: client/meter.rs, util/time.rs (stopwatches), util/stats.rs,        *)
(* client/main_loop.rs (run, closedown, the totals), session/get.rs and       *)
(* session/put.rs (the senders), protocol/control/closedown.rs.               *)
(*                                                                            *)
(* The client runs on one thread (cli_main.rs), so that the meter task runs   *)
(* only while the transfer awaits.  Its pace is the monotonic clock's, its    *)
(* arithmetic the wall clock's, which somebody may set.  What the transfer    *)
(* says to the server is in Put and Get, which jobs there are in Jobs.        *)
EXTENDS Integers, Sequences, SequencesExt

CONSTANTS NFiles,        \* files to transfer
          Sizes,         \* sizes they may have
          Header,        \* bytes besides the payload that pass the progress bar
          Second,        \* clock ticks in a second
          MaxTime,       \* bound on the clock
          MaxU64,        \* the largest u64
          Cwnds, Rates, Rtts

ASSUME MeterAssumption ==
  /\ {NFiles, Second, MaxTime, MaxU64} \subseteq Nat \ {0}
  /\ Header \in Nat /\ Sizes \subseteq Nat /\ Cwnds \subseteq Nat
  /\ Rtts \subseteq Nat
  \* Nobody configures more: the test for a substantial increase would saturate.
  /\ Rates \subseteq 1 .. MaxU64 \div 22

VARIABLES phase,    \* what Client::run is doing
          dir,      \* "put" or "get"
          watches,  \* the StopwatchChain
          now,      \* the monotonic clock
          todo,     \* files left
          stage,       \* of the transfer: "none", "moving", "stopping", "stopped"
          size,     \* of the file
          bar,      \* position of its progress bar
          meter,    \* the InstaMeterRunner
          stepped,  \* has anybody set the wall clock?
          sent,     \* bytes the sender's endpoint has sent
          total,    \* the aggregate CommandStats
          moved,    \* sizes of the files that are done
          report,   \* what the user is told
          course    \* history: when and where the bar was last sampled, and the
                    \* intervals sampled, of this file and of those that are done

transfer == <<todo, stage, size, bar, sent>>
MeterVars == <<phase, dir, watches, now, todo, stage, size, bar, meter, stepped, sent, total,
          moved, report, course>>

Greater(a, b) == IF a > b THEN a ELSE b
Capped(n) == IF n > MaxU64 THEN MaxU64 ELSE n
DivCeil(n, d) == (n + d - 1) \div d

-----------------------------------------------------------------------------
(* Stopwatches (util/time.rs).                                             *)

SHOW_TIME == "file_transfer"
Running == -1
Unknown == -1

\* StopwatchChain::stop, which panics if the last one has been stopped.
StopWatches(chain) ==
  IF chain = <<>> THEN chain ELSE [chain EXCEPT ![Len(chain)].stop = now]

\* StopwatchChain::next
NextWatch(chain, name) ==
  Append(StopWatches(chain), [name |-> name, start |-> now, stop |-> Running])

\* find(..).and_then(elapsed)
Elapsed(chain, name) ==
  LET i == SelectInSeq(chain, LAMBDA w : w.name = name)
  IN  IF i = 0 \/ chain[i].stop = Running THEN Unknown ELSE chain[i].stop - chain[i].start

-----------------------------------------------------------------------------
(* The meter (client/meter.rs).                                            *)

NoMeter == [task |-> "none", told |-> FALSE, prev |-> 0, peak |-> 0, slept |-> 0, wall |-> 0]

\* new, start: the task notes the wall clock and sleeps.
start == [NoMeter EXCEPT !.task = "asleep"]

\* A floating point rate, as u64: without an elapsed time it is infinite, or
\* not a number, which max ignores.
Rate(bytes, elapsed) ==
  IF elapsed > 0 THEN Capped((bytes * Second) \div elapsed)
  ELSE IF bytes = 0 THEN 0 ELSE MaxU64

\* update; a wall clock that went backwards counts as no time at all.
\* Plausible bug: the meter forgets where it was.
update_from_zero(m) == [m EXCEPT !.peak = Greater(m.peak, Rate(bar - m.prev, m.wall)),
                                 !.slept = 0, !.wall = 0]
update(m) == [m EXCEPT !.peak = Greater(m.peak, Rate(bar - m.prev, m.wall)),
                       !.prev = bar, !.slept = 0, !.wall = 0]

Over(m) == [m EXCEPT !.task = "over"]

\* Plausible bug: the runner is dropped and its task is not.
Detached(m) == m
\* Drop for InstaMeterRunner: the task, if it is there, runs no more.
drop(m) == IF m.task = "asleep" THEN [m EXCEPT !.task = "over"] ELSE m

-----------------------------------------------------------------------------
(* Statistics (util/stats.rs).                                             *)

\* DataRate: unknown without a time, which counts as none.
DataRate(bytes, time) ==
  IF time \in {Unknown, 0} THEN 0 ELSE Capped((bytes * Second) \div time)

\* What connection.stats(), the server's ClosedownReport and the configuration say.
Conn == [cwnd : Cwnds, remoteCwnd : Cwnds, txBlocked : BOOLEAN, rxBlocked : BOOLEAN,
         tx : Rates, rx : Rates, rtt : Rtts, configRtt : Rtts \ {0}]

\* udp_tx.bytes here and in the server's report: one of us sent the payload, and
\* the other only acknowledged it.
local_sent == IF dir = "put" THEN sent ELSE 0
remote_sent == IF dir = "get" THEN sent ELSE 0

sender_sent_bytes == Greater(local_sent, remote_sent)

Advice(flag, bw) == [flag |-> flag, bw |-> bw]
NoAdvice == Advice("none", 0)

rtt_ms(c) == IF c.rtt = 0 THEN c.configRtt ELSE c.rtt

from_cwnd(c) ==
  Capped(DivCeil((IF dir = "put" THEN c.cwnd ELSE c.remoteCwnd) * Second, rtt_ms(c)))
from_average(payload, time) ==
  IF time \in {Unknown, 0} THEN 0 ELSE Capped(DivCeil(payload * Second, time))

blocked(c) == IF dir = "put" THEN c.txBlocked ELSE c.rxBlocked
current(c) == IF dir = "put" THEN c.tx ELSE c.rx

\* A quarter more than the better of the two estimates, and no less than now.
\* Plausible bug: a blocked sender is given what the estimates say.
SuggestedByEstimate(c, payload, time) ==
  Greater(Capped(DivCeil(5 * Greater(from_cwnd(c), from_average(payload, time)), 4)),
          current(c))
Suggested(c, payload, time) ==
  LET bw == Capped(DivCeil(5 * Greater(from_cwnd(c), from_average(payload, time)), 4))
  IN  IF blocked(c) /\ bw <= current(c) THEN Capped(2 * current(c))
      ELSE Greater(bw, current(c))

suggest_bandwidth_tuning(c, payload, time) ==
  LET bw == Suggested(c, payload, time)
      substantial == bw > Capped(11 * current(c)) \div 10
  IN  IF \/ payload = 0
         \/ (IF dir = "put" THEN c.cwnd ELSE c.remoteCwnd) = 0
         \/ ~blocked(c) /\ ~substantial
      THEN NoAdvice
      ELSE Advice(IF dir = "put" THEN "tx" ELSE "rx", bw)

NoReport == [said |-> FALSE]

\* process_statistics, as far as it computes anything.  The average it tells is that of the
\* payload in the time told with it.
process_statistics(c) ==
  LET time == Elapsed(watches, SHOW_TIME)
  IN  [said |-> TRUE, conn |-> c, time |-> time,
       peak |-> IF total.payload = 0 THEN Unknown
                ELSE Greater(total.peak, DataRate(total.payload, time)),
       overhead |-> sender_sent_bytes - total.payload,
       advice |-> suggest_bandwidth_tuning(c, total.payload, time)]

-----------------------------------------------------------------------------
MeterInit ==
  /\ phase = "setup" /\ dir \in {"put", "get"}
  /\ now = 0 /\ watches = <<[name |-> "Setup", start |-> 0, stop |-> Running]>>
  /\ todo = NFiles /\ stage = "none" /\ size = 0 /\ bar = 0 /\ sent = 0
  /\ meter = NoMeter /\ stepped = FALSE
  /\ total = [payload |-> 0, peak |-> 0] /\ moved = <<>>
  /\ report = NoReport
  /\ course = [since |-> 0, from |-> 0, samples |-> {}, done |-> {}]

\* The control channel and the data channel (run, establish_control_channel,
\* create_quic_endpoint): a stopwatch each.
Connect(from, to, name) ==
  /\ phase = from
  /\ phase' = to
  /\ watches' = NextWatch(watches, name)
  /\ UNCHANGED <<dir, now, transfer, meter, stepped, total, moved, report, course>>

\* Whatever fails outside the processing of a job, and a dry run: run returns.
GiveUp ==
  /\ phase \in {"control", "data", "transfer", "shutdown"} /\ stage = "none"
  /\ phase' = "end"
  /\ UNCHANGED <<dir, watches, now, transfer, meter, stepped, total, moved, report, course>>

\* A file's meter is started: before the command of a PUT (put.rs:46-57), after
\* the header of a GET has arrived (get.rs:76-86).
StartMeter ==
  /\ phase = "transfer" /\ stage = "none" /\ todo > 0
  /\ size' \in Sizes
  /\ bar' = 0 /\ meter' = start
  /\ stage' = "moving"
  /\ course' = [course EXCEPT !.since = now]
  /\ UNCHANGED <<phase, dir, watches, now, todo, sent, stepped, total, moved, report>>

\* Bytes pass the bar: of a PUT those of the command, the header, the payload and the
\* trailer, of a GET those of the payload and the trailer, which the server has sent.
Move ==
  /\ stage = "moving"
  /\ \E to \in bar + 1 .. size + Header : bar' = to /\ sent' = sent + (to - bar)
  /\ UNCHANGED <<phase, dir, watches, now, todo, stage, size, meter, stepped, total, moved,
                 report, course>>

\* Everything has passed (put.rs:124-128, get.rs:97-103): stop tells the task, and
\* awaits it.
StopMeter ==
  /\ stage = "moving" /\ bar = size + Header
  /\ meter' = [meter EXCEPT !.told = TRUE]
  /\ stage' = "stopping"
  /\ UNCHANGED <<phase, dir, watches, now, todo, size, bar, stepped, sent, total, moved,
                 report, course>>

MeterStopped ==
  /\ stage = "stopping" /\ meter.task = "over"
  /\ stage' = "stopped"
  /\ UNCHANGED <<phase, dir, watches, now, todo, size, bar, meter, stepped, sent, total,
                 moved, report, course>>

\* The job is done: of a PUT the server has confirmed it, of a GET the metadata
\* is set.  Its statistics are added to the totals.
JobDone ==
  /\ stage = "stopped"
  /\ total' = [payload |-> total.payload + size, peak |-> Greater(total.peak, meter.peak)]
  /\ moved' = Append(moved, size)
  /\ todo' = todo - 1 /\ stage' = "none"
  /\ course' = [since |-> 0, from |-> 0, samples |-> {},
                done |-> course.done \cup course.samples]
  /\ UNCHANGED <<phase, dir, watches, now, size, bar, meter, stepped, sent, report>>

\* The job fails, at any await: its runner is dropped, its statistics are lost,
\* and no other file is tried.
JobFails ==
  /\ stage \in {"moving", "stopped"}
  /\ meter' = drop(meter)
  /\ todo' = 0 /\ stage' = "none"
  /\ course' = [course EXCEPT !.since = 0, !.from = 0, !.samples = {}]
  /\ UNCHANGED <<phase, dir, watches, now, size, bar, stepped, sent, total, moved,
                 report>>

\* The job fails before there is a meter: of a PUT the source cannot be opened, of a
\* GET the request is refused or the destination cannot be made.
JobRefused ==
  /\ phase = "transfer" /\ stage = "none" /\ todo > 0
  /\ todo' = 0
  /\ UNCHANGED <<phase, dir, watches, now, stage, size, bar, sent, meter, stepped, total,
                 moved, report, course>>

\* The task has slept for a second, or longer.  If it has been told to stop by
\* then, select! may still take the sleep.
Sample ==
  /\ meter.task = "asleep" /\ meter.slept >= Second
  /\ meter' = update(meter)
  /\ LET interval == [bytes |-> bar - course.from, ticks |-> now - course.since]
     IN  course' = [course EXCEPT !.since = now, !.from = bar,
                                  !.samples = @ \cup {interval}]
  /\ UNCHANGED <<phase, dir, watches, now, transfer, stepped, total, moved, report>>

TaskStops ==
  /\ meter.task = "asleep" /\ meter.told
  /\ meter' = Over(meter)
  /\ UNCHANGED <<phase, dir, watches, now, transfer, stepped, total, moved, report, course>>

\* Both clocks go on; all that passes before the transfer is a tick of the setup.
Tick ==
  /\ \/ phase = "setup" /\ now < 1
     \/ phase \in {"transfer", "shutdown"} /\ now < MaxTime
  /\ now' = now + 1
  /\ meter' = IF meter.task = "asleep"
              THEN [meter EXCEPT !.slept = @ + 1, !.wall = @ + 1] ELSE meter
  /\ UNCHANGED <<phase, dir, watches, transfer, stepped, total, moved, report, course>>

\* Somebody sets the wall clock back.
ClockStep ==
  /\ meter.task = "asleep" /\ ~stepped
  /\ \E wall \in {-1, 0} : meter' = [meter EXCEPT !.wall = wall]
  /\ stepped' = TRUE
  /\ UNCHANGED <<phase, dir, watches, now, transfer, total, moved, report, course>>

\* closedown
Closedown ==
  /\ phase = "transfer" /\ stage = "none" /\ todo = 0
  /\ phase' = "shutdown"
  /\ watches' = NextWatch(watches, "shutdown")
  /\ UNCHANGED <<dir, now, transfer, meter, stepped, total, moved, report, course>>

\* The server's report has come, and the remote process has ended or not.
ClosedDown ==
  /\ phase = "shutdown"
  /\ phase' = "closed"
  /\ watches' = StopWatches(watches)
  /\ UNCHANGED <<dir, now, transfer, meter, stepped, total, moved, report, course>>

Report ==
  /\ phase = "closed"
  /\ \E c \in Conn : report' = process_statistics(c)
  /\ phase' = "end"
  /\ UNCHANGED <<dir, watches, now, transfer, meter, stepped, total, moved, course>>

Ended == phase = "end" /\ UNCHANGED MeterVars

MeterNext ==
  \/ Connect("setup", "control", "control_channel")
  \/ Connect("control", "data", "data_channel_setup")
  \/ Connect("data", "transfer", SHOW_TIME)
  \/ GiveUp \/ StartMeter \/ Move \/ StopMeter \/ MeterStopped \/ JobDone \/ JobFails
  \/ JobRefused
  \/ Sample \/ TaskStops \/ Tick \/ ClockStep \/ Closedown \/ ClosedDown \/ Report
  \/ Ended

MeterSpec == MeterInit /\ [][MeterNext]_MeterVars

-----------------------------------------------------------------------------
(* What must hold.                                                         *)

MeterTypeOK ==
  /\ phase \in {"setup", "control", "data", "transfer", "shutdown", "closed", "end"}
  /\ stage \in {"none", "moving", "stopping", "stopped"}
  /\ now \in 0..MaxTime /\ todo \in 0..NFiles
  /\ meter.task \in {"none", "asleep", "over"} /\ meter.peak \in 0..MaxU64
  /\ bar \in 0 .. size + Header /\ meter.prev \in 0..bar

\* What the sizes of the files come to.
SumOf(sizes) ==
  LET upto[i \in 0..Len(sizes)] == IF i = 0 THEN 0 ELSE upto[i - 1] + sizes[i]
  IN  upto[Len(sizes)]

\* No meter task outlives its file, however the file ended: when its peak is read,
\* when the next file starts, at the shutdown, nothing samples a bar any more.
NoMeterLeft == stage \in {"none", "stopped"} => meter.task # "asleep"

\* Bytes in a second, of an interval.
RateOf(i) == IF i.ticks = 0 THEN 0 ELSE Capped((i.bytes * Second) \div i.ticks)

\* Of these intervals, this is the rate of the fastest.
FastestOf(rate, intervals) ==
  /\ rate = 0 \/ \E i \in intervals : rate = RateOf(i)
  /\ \A i \in intervals : RateOf(i) <= rate

\* What is reported is sound: the payload is that of the files that are done and
\* of no other; the time is the transfer phase's and is known; unless somebody set
\* the clock, the peak is the rate of the fastest of the intervals in which a file that is
\* done was sampled, each a second or longer and rated by what passed the bar in it, or of
\* the whole payload in the time of the phase, if that is faster; and the payload
\* is never more than was sent (which would make the overhead wrap around).
StatisticsSound ==
  report.said =>
    /\ total.payload = SumOf(moved)
    /\ report.time >= 0
    /\ \A i \in 1..Len(watches) - 1 : watches[i].stop = watches[i + 1].start
    /\ \A i \in course.done : i.ticks >= Second
    /\ total.payload > 0 /\ ~stepped =>
         FastestOf(report.peak,
                   course.done \cup {[bytes |-> SumOf(moved), ticks |-> report.time]})
    /\ report.overhead >= 0

\* The advice never lowers a setting.  It is about the direction the payload went;
\* it is more than the current setting, and at least what was seen on average;
\* whoever was blocked is given one; and for the same transfer again (window, payload
\* and time), with the advice followed and nobody blocked, there is no other --
\* unless the advice is so near the end of u64 that the test for a substantial
\* increase saturates, as it then says yes for ever.
AdviceSound ==
  report.said =>
    LET c == report.conn
        a == report.advice
        set == IF dir = "put" THEN [c EXCEPT !.tx = a.bw, !.txBlocked = FALSE]
               ELSE [c EXCEPT !.rx = a.bw, !.rxBlocked = FALSE]
        cwnd == IF dir = "put" THEN c.cwnd ELSE c.remoteCwnd
    IN  /\ a # NoAdvice =>
             /\ a.flag = (IF dir = "put" THEN "tx" ELSE "rx")
             /\ a.bw > current(c)
             /\ a.bw >= from_average(total.payload, report.time)
             /\ 11 * a.bw <= MaxU64 =>
                  suggest_bandwidth_tuning(set, total.payload, report.time) = NoAdvice
        /\ blocked(c) /\ cwnd > 0 /\ total.payload > 0 => a # NoAdvice
=============================================================================
