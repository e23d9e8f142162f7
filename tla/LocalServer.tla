---------------------------- MODULE LocalServer -----------------------------
(***************************************************************************)
(* The machine RHIA runs on: what rhia-boot.ps1 waits for after a restart, *)
(* the local server STAR.BAT starts (scripts/start-local.mjs) and the file *)
(* with its process id, through which STOP.BAT finds it.  STAR.BAT may run *)
(* from the boot and from a person at once.                                *)
(***************************************************************************)
EXTENDS Naturals, Sequences

CONSTANTS
  Pids,        \* the processes the system starts, by id: 1..n
  BootTries    \* attempts at each check of the boot (90, 60 or 30 in the scripts)

ASSUME ServerAssumption == Pids \subseteq Nat \ {0} /\ BootTries \in Nat

VARIABLES
  server,      \* start-local.mjs, by process id
  pidFile,     \* .rhia-server.pid, 0 if there is none
  star,        \* STAR.BAT, by who runs it
  stop,        \* STOP.BAT: where it is and the process id it read
  raced,       \* history: servers were started over each other or over a STOP.BAT
  boot,        \* rhia-boot.ps1; isMain: whether the script it calls runs its main()
  passed       \* history: the checks of the boot that found what they wait for

serverVars == <<server, pidFile, star, stop, raced, boot, passed>>

\* Docker answers; the containers run; their ports answer.
Checks == <<"docker", "postgres runs", "n8n runs", "postgres answers", "n8n answers">>
LastOfStage == {1, 3, 5}
PortChecks == {4, 5}
Starters == {"boot", "person"}
ServerStates == {"NONE", "SPAWNED", "NAMED", "LISTENING", "REFUSED", "CLOSING", "CLEANING", "GONE"}
Running == {"SPAWNED", "NAMED", "LISTENING"}

Online == \E p \in Pids : server[p] = "LISTENING"

StartOfBoot(isMain) ==
  [at |-> "CHECKING", check |-> 1, tries |-> 0, failed |-> FALSE, isMain |-> isMain]

\* isMain depends on where the project lies.  wait-for-rhia-dependencies.mjs compares its
\* own URL with its path read as one: on a share (\\server\...) they agree, on a drive
\* the path C:\... is a URL of the scheme "c:" and they never do.
ServerInit ==
  /\ server = [p \in Pids |-> "NONE"] /\ pidFile \in {0} \cup Pids
  /\ star = [s \in Starters |-> "OFF"] /\ stop = [at |-> "OFF", pid |-> 0]
  /\ raced = FALSE /\ passed = {}
  /\ \E isMain \in BOOLEAN : boot = StartOfBoot(isMain)

-----------------------------------------------------------------------------
\* rhia-boot.ps1 and wait-for-rhia-dependencies.mjs

\* The loops over containers and dependencies go on after one that was not ready;
\* their stage ends the boot if any was not.
NextCheck_lastDecides(failed, ok) ==
  LET ended == boot.check \in LastOfStage
      last == boot.check = Len(Checks) IN
  IF ended /\ ~ok THEN [boot EXCEPT !.at = "ABORTED"]
  ELSE [boot EXCEPT !.at = IF last THEN "LAUNCHED" ELSE "CHECKING",
                    !.check = IF last THEN @ ELSE @ + 1, !.tries = 0,
                    !.failed = ~ended /\ failed]
NextCheck(failed, ok) ==
  LET ended == boot.check \in LastOfStage
      last == boot.check = Len(Checks) IN
  IF ended /\ failed THEN [boot EXCEPT !.at = "ABORTED"]
  ELSE [boot EXCEPT !.at = IF last THEN "LAUNCHED" ELSE "CHECKING",
                    !.check = IF last THEN @ ELSE @ + 1, !.tries = 0,
                    !.failed = failed]

Checking == boot.at = "CHECKING" /\ (boot.check \in PortChecks => boot.isMain)

\* Docker, containers and ports come and go while the boot looks: a check finds
\* what it waits for, or does not at any of its attempts.
CheckPasses ==
  /\ Checking
  /\ boot' = NextCheck(boot.failed, TRUE)
  /\ passed' = passed \cup {Checks[boot.check]}
  /\ UNCHANGED <<server, pidFile, star, stop, raced>>

CheckFails ==
  /\ Checking
  /\ boot' = IF boot.tries + 1 < BootTries THEN [boot EXCEPT !.tries = @ + 1]
             ELSE NextCheck(TRUE, FALSE)
  /\ UNCHANGED <<server, pidFile, star, stop, raced, passed>>

\* The script that is to wait for the ports ends without its main(), with exit code 0.
WaitDoesNothing ==
  /\ boot.at = "CHECKING" /\ boot.check \in PortChecks /\ ~boot.isMain
  /\ boot' = [boot EXCEPT !.at = "LAUNCHED"]
  /\ UNCHANGED <<server, pidFile, star, stop, raced, passed>>

-----------------------------------------------------------------------------
\* STAR.BAT

MayStart(s) == s = "boot" => boot.at = "LAUNCHED"

ProbeHealth(s) ==
  /\ MayStart(s) /\ star[s] = "OFF"
  /\ star' = [star EXCEPT ![s] = IF Online THEN "OPENED" ELSE "OFFLINE"]
  /\ UNCHANGED <<server, pidFile, stop, raced, boot, passed>>

SpawnServer(s) ==
  /\ star[s] = "OFFLINE"
  /\ \E p \in Pids :
       /\ server[p] = "NONE" /\ \A q \in Pids : q < p => server[q] # "NONE"
       /\ server' = [server EXCEPT ![p] = "SPAWNED"]
  /\ star' = [star EXCEPT ![s] = "POLLING"]
  /\ raced' = (raced \/ stop.at # "OFF" \/ \E p \in Pids : server[p] \in Running)
  /\ UNCHANGED <<pidFile, stop, boot, passed>>

\* Twenty polls: it may be any server that answers, and none may in time.
PollHealth(s) ==
  /\ star[s] = "POLLING"
  /\ \/ Online /\ star' = [star EXCEPT ![s] = "OPENED"]
     \/ ~Online /\ star' = [star EXCEPT ![s] = "FAILED"]
  /\ UNCHANGED <<server, pidFile, stop, raced, boot, passed>>

\* A person runs STAR.BAT again.
RunAgain ==
  /\ star["person"] \in {"OPENED", "FAILED"}
  /\ star' = [star EXCEPT !["person"] = "OFF"]
  /\ UNCHANGED <<server, pidFile, stop, raced, boot, passed>>

-----------------------------------------------------------------------------
\* start-local.mjs

ServerMoves(p, at) ==
  /\ server' = [server EXCEPT ![p] = at]
  /\ UNCHANGED <<star, stop, boot, passed>>

\* The file is written before the port is asked for.
WritePidFile(p) ==
  /\ server[p] = "SPAWNED"
  /\ pidFile' = p
  /\ raced' = (raced \/ \E q \in Pids : server[q] = "CLEANING")
  /\ ServerMoves(p, "NAMED")

Listen(p) ==
  /\ server[p] = "NAMED"
  /\ ServerMoves(p, IF Online THEN "REFUSED" ELSE "LISTENING")
  /\ UNCHANGED <<pidFile, raced>>

\* SIGINT or SIGTERM: the port is free at once, cleanup runs when the last request ends.
CloseServer(p) ==
  /\ server[p] = "LISTENING"
  /\ ServerMoves(p, "CLOSING")
  /\ UNCHANGED <<pidFile, raced>>

\* cleanup looks whether the file names its own process and then removes the file;
\* it may have been rewritten in between.
Cleanup_anyName(p) ==
  /\ server[p] \in {"CLOSING", "REFUSED"}
  /\ ServerMoves(p, IF pidFile # 0 THEN "CLEANING" ELSE "GONE")
  /\ UNCHANGED <<pidFile, raced>>
Cleanup(p) ==
  /\ server[p] \in {"CLOSING", "REFUSED"}
  /\ ServerMoves(p, IF pidFile = p THEN "CLEANING" ELSE "GONE")
  /\ UNCHANGED <<pidFile, raced>>
RemovePidFile(p) ==
  /\ server[p] = "CLEANING"
  /\ pidFile' = 0 /\ UNCHANGED raced
  /\ ServerMoves(p, "GONE")

\* The machine loses power or is restarted: every process ends, the file stays.
Restart ==
  /\ \E p \in Pids : server[p] \in Running
  /\ server' = [p \in Pids |-> IF server[p] = "NONE" THEN "NONE" ELSE "GONE"]
  /\ star' = [s \in Starters |-> "OFF"] /\ stop' = [at |-> "OFF", pid |-> 0]
  /\ raced' = FALSE
  /\ boot' = StartOfBoot(boot.isMain)
  /\ passed' = {}
  /\ UNCHANGED pidFile

-----------------------------------------------------------------------------
\* STOP.BAT: reads the file, kills the process if it is a server, removes the file.

StopMoves(at, pid) ==
  /\ stop' = [at |-> at, pid |-> pid]
  /\ UNCHANGED <<star, boot, passed>>

\* A server that was spawned and has not written the file cannot be found.
StopReads ==
  /\ stop.at = "OFF"
  /\ IF pidFile = 0 THEN StopMoves("ENDED", 0) ELSE StopMoves("READ", pidFile)
  /\ raced' = (raced \/ \E p \in Pids : server[p] = "SPAWNED")
  /\ UNCHANGED <<server, pidFile>>

\* Killed, a process runs no cleanup.  The id may be of a process that is no server.
StopKills ==
  /\ stop.at = "READ"
  /\ server' = [p \in Pids |-> IF p = stop.pid /\ server[p] # "NONE" THEN "GONE" ELSE server[p]]
  /\ StopMoves("KILLED", stop.pid)
  /\ UNCHANGED <<pidFile, raced>>

StopRemoves ==
  /\ stop.at = "KILLED"
  /\ pidFile' = 0
  /\ StopMoves("ENDED", 0)
  /\ UNCHANGED <<server, raced>>

StopAgain ==
  /\ stop.at = "ENDED"
  /\ StopMoves("OFF", 0) /\ UNCHANGED <<server, pidFile, raced>>

ServerNext ==
  \/ CheckPasses \/ CheckFails \/ WaitDoesNothing
  \/ \E s \in Starters : ProbeHealth(s) \/ SpawnServer(s) \/ PollHealth(s)
  \/ \E p \in Pids : \/ WritePidFile(p) \/ Listen(p) \/ CloseServer(p)
                     \/ Cleanup(p) \/ RemovePidFile(p)
  \/ RunAgain \/ Restart
  \/ StopReads \/ StopKills \/ StopRemoves \/ StopAgain

-----------------------------------------------------------------------------

ServerTypeOK ==
  /\ server \in [Pids -> ServerStates] /\ pidFile \in {0} \cup Pids
  /\ star \in [Starters -> {"OFF", "OFFLINE", "POLLING", "OPENED", "FAILED"}]
  /\ stop \in [at : {"OFF", "READ", "KILLED", "ENDED"}, pid : {0} \cup Pids]
  /\ raced \in BOOLEAN
  /\ boot \in [at : {"CHECKING", "ABORTED", "LAUNCHED"}, check : DOMAIN Checks,
               tries : 0..BootTries, failed : BOOLEAN, isMain : BOOLEAN]
  /\ passed \subseteq {Checks[c] : c \in DOMAIN Checks}

\* After STOP.BAT nothing serves, and a server that serves is the one STOP.BAT would
\* find: unless a server was started while another was starting or serving (its
\* refused start leaves the file gone), while STOP.BAT ran, or wrote its name while
\* another removed its own (start-local.mjs, STOP.BAT).
WhatServesCanBeStopped ==
  ~raced => /\ stop.at = "ENDED" => ~Online
            /\ stop.at = "OFF" => \A p \in Pids : server[p] = "LISTENING" => pidFile = p

ChecksMade == IF boot.isMain THEN DOMAIN Checks ELSE DOMAIN Checks \ PortChecks

\* The boot starts the monitor only when every check that was made has succeeded: a
\* container or a port that came in time does not hide one that did not, and Docker
\* and the containers are always looked at.  The ports are only where main() runs:
\* from a drive the boot goes on without a look at them (rhia-boot.ps1,
\* wait-for-rhia-dependencies.mjs).
BootWaitsForItsChecks ==
  boot.at = "LAUNCHED" => passed = {Checks[c] : c \in ChecksMade}
=============================================================================
