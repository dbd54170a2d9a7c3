----------------------------- MODULE StartStop -----------------------------
(***************************************************************************)
(* start-stop-daemon: --start with --background forks twice, writes the    *)
(* pidfile and may wait for the daemon's notification; --stop sends the    *)
(* signals of a schedule and polls until the processes are gone.           *)
(*                                                                         *)
(* The daemons, the clock and the senders of signals run concurrently with *)
(* it.  Options that only change the environment of the daemon (user,      *)
(* directory, priorities, output) and the queries --status and --pidof are *)
(* left out; how each system finds out about a process is one predicate    *)
(* per criterion.                                                          *)
(***************************************************************************)
EXTENDS Naturals, Sequences, FiniteSets

CONSTANTS Pids,       \* process numbers, not 0
          Schedules,  \* arguments of --retry, split at the slashes; <<>> for none
          Matches,    \* sets of criteria among --exec, --user and --name
          MaxNotes    \* bound: notifications that a daemon sends

VARIABLES procs,      \* what runs under each process number
          pidfile,    \* the number in the pidfile, 0 if there is none
          opts,       \* the options of the running command
          ssdpc,      \* where the command is
          code,       \* its exit status
          found,      \* the list of the processes that match
          pid,        \* do_pidfile(): the number is read once and kept
          schedule, position, killed, anykilled,
          second,     \* the second parent of daemonize()
          child,      \* the process that becomes the daemon, and whether it did
          notes, sent,  \* notifications in the socket, and all that were sent
          late        \* the time has run out

ssdvars == <<procs, pidfile, opts, ssdpc, code, found, pid, schedule, position,
             killed, anykilled, second, child, notes, sent, late>>
stopvars == <<schedule, position, killed, anykilled>>
forkvars == <<second, child>>

\* A foreign process runs the same program for another user, who does not let us kill
\* it; another process of ours runs something else.
Kinds == {"daemon", "foreign", "other"}
NoPid == 0
ASSUME PidsAssumption == NoPid \notin Pids
EXIT_NODO == 1
EXIT_FAILURE == 2

(***************************************************************************)
(* The schedule of --retry: a single timeout stands for four items, and    *)
(* "forever" becomes a jump at the end.                                    *)
(***************************************************************************)
Timeouts == {"1"}
parse_schedule_item(i) ==
  [type |-> IF i \in Timeouts THEN "timeout" ELSE "signal", value |-> i]

parse_schedule(items) ==
  LET rest == SelectSeq(items, LAMBDA i : i # "forever")
      at == CHOOSE n \in 1..Len(items) : items[n] = "forever"
      parsed == [n \in DOMAIN rest |-> parse_schedule_item(rest[n])]
  IN IF Len(items) = 1
     THEN <<parse_schedule_item("TERM"), parse_schedule_item(items[1]),
            parse_schedule_item("KILL"), parse_schedule_item(items[1])>>
     ELSE IF rest = items THEN parsed
     ELSE Append(parsed, [type |-> "goto", value |-> at])

\* What badusage() accepts: forever once and not last, a single item only as a timeout.
GoodSchedule(items) ==
  /\ Len(items) = 1 => items[1] \in Timeouts
  /\ Cardinality({n \in DOMAIN items : items[n] = "forever"}) <= 1
  /\ items # <<>> => items[Len(items)] # "forever"

\* parse_options(): the combinations that are not refused.
parse_options(o) ==
  /\ o.action = "start" \/ ~(o.background \/ o.mpidfile)
  /\ o.notify => o.background
  /\ (o.mpidfile \/ o.rpidfile) => o.pidfile
  /\ o.pidfile \/ o.match # {}
  /\ o.action = "stop" \/ (~o.rpidfile /\ o.retry = <<>>)
  /\ GoodSchedule(o.retry)

(***************************************************************************)
(* Matching.  A stopped process is looked for by --stop too when only the  *)
(* pidfile is given; kill() will tell.                                     *)
(***************************************************************************)
pid_is_exec(p) == procs[p] \in {"daemon", "foreign"}
pid_is_user(p) == procs[p] \in {"daemon", "other"}
pid_is_cmd(p) == procs[p] \in {"daemon", "foreign"}
pid_is_running(p) == procs[p] # "none"
pid_check(p) ==
  /\ "exec" \in opts'.match => pid_is_exec(p)
  /\ "user" \in opts'.match => pid_is_user(p)
  /\ "name" \in opts'.match => pid_is_cmd(p)
  /\ opts'.action # "stop" => pid_is_running(p)

do_pidfile ==
  LET p == IF pid # NoPid THEN pid ELSE pidfile
  IN pid' = p /\ found' = IF p # NoPid /\ pid_check(p) THEN {p} ELSE {}

do_procinit == pid' = pid /\ found' = {p \in Pids : procs[p] # "none" /\ pid_check(p)}

do_findprocs == IF opts'.pidfile THEN do_pidfile ELSE do_procinit

Exit(c) == ssdpc' = "exit" /\ code' = c

(***************************************************************************)
(* --start                                                                 *)
(***************************************************************************)
Options == [action : {"start", "stop"}, background : BOOLEAN, mpidfile : BOOLEAN,
            rpidfile : BOOLEAN, notify : BOOLEAN, pidfile : BOOLEAN, match : Matches,
            retry : Schedules]

do_start ==
  /\ ssdpc = "idle"
  /\ \E o \in Options : parse_options(o) /\ o.action = "start" /\ opts' = o
  /\ do_findprocs
  /\ IF found' # {} THEN Exit(EXIT_NODO)
     ELSE ssdpc' = (IF opts'.background THEN "daemonize" ELSE "foreground") /\ code' = code
  /\ UNCHANGED <<procs, pidfile, stopvars, forkvars, notes, sent, late>>

\* Without --background the command itself becomes the daemon.
Foreground(p) ==
  /\ ssdpc = "foreground" /\ procs[p] = "none"
  /\ pidfile' = IF opts.mpidfile THEN p ELSE pidfile
  /\ \E failed \in BOOLEAN :
       /\ Exit(IF failed THEN EXIT_FAILURE ELSE 0)
       /\ procs' = IF failed THEN procs ELSE [procs EXCEPT ![p] = "daemon"]
  /\ UNCHANGED <<opts, found, pid, stopvars, forkvars, notes, sent, late>>

\* The first fork; the first parent waits for the second one.
daemonize ==
  /\ ssdpc = "daemonize"
  /\ second' = "setsid"
  /\ ssdpc' = "wait_for_child"
  /\ UNCHANGED <<procs, pidfile, opts, code, found, pid, stopvars, child, notes, sent, late>>

\* setsid() and the second fork, which may fail.
SecondFork(p) ==
  /\ second = "setsid" /\ procs[p] = "none"
  /\ \/ second' = "failed" /\ UNCHANGED <<child, procs>>
     \/ second' = "parent" /\ child' = [pid |-> p, up |-> FALSE] /\ procs' = [procs EXCEPT ![p] = "other"]
  /\ UNCHANGED <<pidfile, opts, ssdpc, code, found, pid, stopvars, notes, sent, late>>

SecondParent_fault ==
  /\ second = "parent"
  /\ second' = "exited"
  /\ UNCHANGED <<procs, pidfile, opts, ssdpc, code, found, pid, stopvars, child, notes, sent, late>>

\* The second parent writes the pidfile and exits; a failure ends it with an error.
SecondParent ==
  /\ second = "parent"
  /\ IF opts.mpidfile
     THEN \/ pidfile' = child.pid /\ second' = "exited"
          \/ pidfile' = pidfile /\ second' = "failed"
     ELSE pidfile' = pidfile /\ second' = "exited"
  /\ UNCHANGED <<procs, opts, ssdpc, code, found, pid, stopvars, child, notes, sent, late>>

\* The child calls execv(), or fails before.
ChildExec ==
  /\ child.pid # NoPid /\ ~child.up /\ procs[child.pid] = "other"
  /\ \E k \in {"daemon", "none"} :
       /\ procs' = [procs EXCEPT ![child.pid] = k]
       /\ child' = [child EXCEPT !.up = (k = "daemon")]
  /\ UNCHANGED <<pidfile, opts, ssdpc, code, found, pid, stopvars, second, notes, sent, late>>

wait_for_child ==
  /\ ssdpc = "wait_for_child" /\ second \in {"exited", "failed"}
  /\ IF second = "failed" THEN Exit(EXIT_FAILURE) /\ late' = late
     ELSE IF ~opts.notify THEN Exit(0) /\ late' = late
     ELSE ssdpc' = "wait_for_notify" /\ code' = code /\ late' = FALSE
  /\ UNCHANGED <<procs, pidfile, opts, found, pid, stopvars, forkvars, notes, sent>>

\* The daemon sends READY=1, ERRNO=, EXTEND_TIMEOUT_USEC= or something else.
SendNote ==
  /\ child.up /\ procs[child.pid] = "daemon" /\ Len(sent) < MaxNotes
  /\ \E n \in {"READY", "ERRNO", "EXTEND", "STATUS"} :
       notes' = Append(notes, n) /\ sent' = Append(sent, n)
  /\ UNCHANGED <<procs, pidfile, opts, ssdpc, code, found, pid, stopvars, forkvars, late>>

(***************************************************************************)
(* One turn of the loop of wait_for_notify(): pselect() times out, or is   *)
(* interrupted, or there are notifications, which are read until one ends  *)
(* the waiting.  A turn that does not, and finds that the time has run     *)
(* out, leaves the loop, and daemonize() takes that for success.           *)
(***************************************************************************)
LoopEnds == ssdpc' = "exit" /\ code' = 0
wait_for_notify ==
  /\ ssdpc = "wait_for_notify"
  /\ \/ notes = <<>> /\ late /\ Exit(EXIT_FAILURE) /\ UNCHANGED <<notes, late>>
     \/ late /\ LoopEnds /\ UNCHANGED <<notes, late>>
     \/ /\ notes # <<>> /\ notes' = <<>>
        /\ LET ends == {n \in DOMAIN notes : notes[n] \in {"READY", "ERRNO"}}
               extended == \E n \in DOMAIN notes : notes[n] = "EXTEND"
               first == CHOOSE n \in ends : \A m \in ends : n <= m
           IN IF ends # {} THEN Exit(IF notes[first] = "READY" THEN 0 ELSE EXIT_FAILURE) /\ late' = late
              ELSE IF extended THEN late' = FALSE /\ UNCHANGED <<ssdpc, code>>
              ELSE late' = late /\ IF late THEN LoopEnds ELSE UNCHANGED <<ssdpc, code>>
  /\ UNCHANGED <<procs, pidfile, opts, found, pid, stopvars, forkvars, sent>>

(***************************************************************************)
(* --stop.  A signal of the schedule, or one look with signal 0.           *)
(***************************************************************************)
BeginStop ==
  /\ ssdpc = "idle"
  /\ \E o \in Options : parse_options(o) /\ o.action = "stop" /\ opts' = o
  /\ schedule' = IF opts'.retry = <<>> THEN <<parse_schedule_item("TERM")>> ELSE parse_schedule(opts'.retry)
  /\ position' = 1 /\ ssdpc' = "schedule" /\ late' = FALSE
  /\ UNCHANGED <<procs, pidfile, code, found, pid, killed, anykilled, forkvars, notes, sent>>

\* do_stop(): the processes are found in one step,
FindForStop ==
  /\ ssdpc \in {"schedule", "timeout"} /\ opts' = opts
  /\ ssdpc = "schedule" => position <= Len(schedule) /\ schedule[position].type = "signal"
  /\ do_findprocs
  /\ ssdpc' = IF ssdpc = "schedule" THEN "kill" ELSE "poll"
  /\ UNCHANGED <<procs, pidfile, code, stopvars, forkvars, notes, sent, late>>

\* and get the signal in another; kill() fails for those that are gone or belong to others.
Killable(p) == procs[p] \notin {"none", "foreign"}

finish_stop_schedule ==
  /\ pidfile' = IF opts.rpidfile THEN NoPid ELSE pidfile
  /\ Exit(IF anykilled' THEN 0 ELSE EXIT_NODO)

do_stop ==
  LET sig == schedule[position].value
      hit == {p \in found : Killable(p)}
  IN /\ ssdpc = "kill"
     /\ killed' = Cardinality(hit)
     /\ procs' = IF sig = "KILL" THEN [p \in Pids |-> IF p \in hit THEN "none" ELSE procs[p]] ELSE procs
     /\ anykilled' = (anykilled \/ hit # {})
     /\ IF hit = {} \/ opts.retry = <<>> THEN finish_stop_schedule /\ position' = position
        ELSE position' = position + 1 /\ ssdpc' = "schedule" /\ UNCHANGED <<code, pidfile>>
     /\ UNCHANGED <<opts, found, pid, schedule, forkvars, notes, sent, late>>

\* A timeout begins: poll until nobody is left or the time has run out.
BeginTimeout ==
  /\ ssdpc = "schedule" /\ position <= Len(schedule) /\ schedule[position].type = "timeout"
  /\ ssdpc' = "timeout" /\ late' = FALSE
  /\ UNCHANGED <<procs, pidfile, opts, code, found, pid, stopvars, forkvars, notes, sent>>

do_stop_timeout_fault ==
  LET hit == {p \in found : Killable(p)}
  IN /\ ssdpc = "poll" /\ killed' = Cardinality(hit) /\ anykilled' = anykilled
     /\ IF hit = {} THEN finish_stop_schedule ELSE ssdpc' = "timeout" /\ UNCHANGED <<code, pidfile>>
     /\ UNCHANGED <<procs, opts, found, pid, schedule, position, forkvars, notes, sent, late>>
do_stop_timeout ==
  LET hit == {p \in found : Killable(p)}
  IN /\ ssdpc = "poll"
     /\ killed' = Cardinality(hit) /\ anykilled' = anykilled
     /\ IF hit = {} THEN finish_stop_schedule /\ position' = position
        ELSE /\ UNCHANGED <<code, pidfile>>
             /\ IF late THEN ssdpc' = "schedule" /\ position' = position + 1
                ELSE ssdpc' = "timeout" /\ position' = position
     /\ UNCHANGED <<procs, opts, found, pid, schedule, forkvars, notes, sent, late>>

\* The time may have run out while the poll slept: then nobody looks again.
TimedOut ==
  /\ ssdpc = "timeout" /\ late
  /\ ssdpc' = "schedule" /\ position' = position + 1
  /\ UNCHANGED <<procs, pidfile, opts, code, found, pid, schedule, killed, anykilled,
                 forkvars, notes, sent, late>>

run_stop_schedule ==
  /\ ssdpc = "schedule"
  /\ \/ /\ position <= Len(schedule) /\ schedule[position].type = "goto"
        /\ position' = schedule[position].value /\ UNCHANGED <<ssdpc, code>>
     \/ position > Len(schedule) /\ Exit(EXIT_FAILURE) /\ position' = position
  /\ UNCHANGED <<procs, pidfile, opts, found, pid, schedule, killed, anykilled,
                 forkvars, notes, sent, late>>

(***************************************************************************)
(* The clock, and processes that end, by a signal that they obey or alone.  *)
(***************************************************************************)
Clock ==
  /\ ssdpc \in {"wait_for_notify", "timeout", "poll"} /\ ~late /\ late' = TRUE
  /\ UNCHANGED <<procs, pidfile, opts, ssdpc, code, found, pid, stopvars, forkvars, notes, sent>>

Die(p) ==
  /\ procs[p] \in {"daemon", "foreign"}
  /\ procs' = [procs EXCEPT ![p] = "none"]
  /\ UNCHANGED <<pidfile, opts, ssdpc, code, found, pid, stopvars, forkvars, notes, sent, late>>

-----------------------------------------------------------------------------
NoOptions == [action |-> "none", background |-> FALSE, mpidfile |-> FALSE, rpidfile |-> FALSE,
              notify |-> FALSE, pidfile |-> FALSE, match |-> {}, retry |-> <<>>]

SsdInit ==
  /\ procs \in [Pids -> {"none"} \cup Kinds]
  /\ \E p \in Pids : procs[p] = "none"
  /\ pidfile \in {NoPid} \cup Pids
  /\ opts = NoOptions /\ ssdpc = "idle" /\ code = 0 /\ found = {} /\ pid = NoPid
  /\ schedule = <<>> /\ position = 0 /\ killed = 0 /\ anykilled = FALSE
  /\ second = "none" /\ child = [pid |-> NoPid, up |-> FALSE]
  /\ notes = <<>> /\ sent = <<>> /\ late = FALSE

SsdSteps ==
  \/ \E p \in Pids : Foreground(p)
  \/ daemonize
  \/ \E p \in Pids : SecondFork(p)
  \/ SecondParent
  \/ wait_for_child
  \/ wait_for_notify
  \/ FindForStop
  \/ do_stop
  \/ BeginTimeout
  \/ do_stop_timeout
  \/ TimedOut
  \/ run_stop_schedule

SsdNext ==
  \/ do_start
  \/ BeginStop
  \/ SsdSteps
  \/ ChildExec
  \/ SendNote
  \/ Clock
  \/ \E p \in Pids : Die(p)

\* The program runs on when it can, and time passes; no daemon is assumed to do anything.
SsdFairness == WF_ssdvars(SsdSteps) /\ WF_ssdvars(Clock)

SsdSpec == SsdInit /\ [][SsdNext]_ssdvars /\ SsdFairness

-----------------------------------------------------------------------------
Ready == \E n \in DOMAIN sent : sent[n] = "READY"
Startable == opts.action = "start" /\ opts.background

(***************************************************************************)
(* A success that is reported is one: after --start --background the       *)
(* pidfile that was to be made names the child, and a daemon that was to   *)
(* notify has sent READY=1, or the time had run out when another           *)
(* notification or a signal came; after --stop --retry nobody is left who  *)
(* matches and may be killed (daemonize(), wait_for_notify(),              *)
(* run_stop_schedule()).                                                   *)
(***************************************************************************)
SuccessIsTrue ==
  ssdpc = "exit" /\ code = 0 =>
    /\ Startable /\ opts.mpidfile => pidfile = child.pid /\ child.pid # NoPid
    /\ Startable /\ opts.notify => Ready \/ late
    /\ opts.action = "stop" /\ opts.retry # <<>> /\ ~opts.pidfile =>
         \A p \in Pids : procs[p] # "daemon"

(***************************************************************************)
(* Every command ends, unless its schedule is to be repeated for ever      *)
(* (wait_for_notify(), run_stop_schedule(), do_stop_timeout()).            *)
(***************************************************************************)
Forever == \E i \in DOMAIN opts.retry : opts.retry[i] = "forever"
Working == ssdpc # "idle" /\ ~Forever
=============================================================================
