------------------------------- MODULE Process -------------------------------
(***************************************************************************)
(* main of swarm-sentinel: from the environment it is started in to its    *)
(* exit. It loads the configuration, dials and pings Docker, starts the    *)
(* health server, looks for the mapping file a second time, and runs the   *)
(* coordinator with a runner per stack, or one runner. Cycles are reduced  *)
(* to what the health endpoints see of them; Sentinel has the rest.        *)
(*                                                                         *)
(* Stages of main: load, dial, ping, serve (server and notifiers), search  *)
(* (for the mapping file), read (it), running, exited.                     *)
(***************************************************************************)
EXTENDS Configuration, FiniteSets

CONSTANTS
    Starts,         \* [env, files, editable]: an environment, what is in the
                    \* places of the mapping file, whether that may change
    Contents,       \* the contents an edit may put into a place
    Stacks,         \* the names of stacks
    Solo,           \* the runner of single-stack mode
    MaxAttempts,    \* of withRetry
    Probes, PollInterval, MaxTime       \* see HealthTracker

(* The lines of a mapping file, see Configuration.                         *)
Entries == [name : Stacks \cup {NoName}, url : URLs, timeout : {"default", "negative"}]

ASSUME ProcessAssumption ==
    /\ \A start \in Starts :
          /\ start.env \in Environments
          /\ DOMAIN start.files \subseteq Places
          /\ \A p \in DOMAIN start.files : start.files[p] \in Seq(Entries)
    /\ Contents \subseteq Seq(Entries)
    /\ {Solo, NoName} \cap Stacks = {}
    /\ {MaxAttempts, PollInterval, MaxTime} \subseteq Nat \ {0}

VARIABLES
    stage,      \* where main is
    env,        \* the environment, and the configuration loaded from it
    files,      \* the mapping files; forgotten once the mode is chosen
    edit,       \* model bound: one edit is "possible" or "done", or "none" is
    attempt,    \* of Ping
    connection, \* how the Docker client was built
    path,       \* the mapping file to read
    server,     \* the health server: off, starting, up, failed or down
    solo,       \* the runner of single-stack mode: none, running, exited
    exitCode,
    mapping, run, ctxDone, cancelled, registered, doneClosed, runner,
    runnerErrors, stopper, handle,              \* of Coordinator
    clock, lastCycle, ready, stamp, probe       \* of HealthTracker

Runners == Stacks \cup {Solo}

(* main never calls Stop.                                                  *)
C == INSTANCE Coordinator WITH Stoppers <- {}
T == INSTANCE HealthTracker

coordinatorVars == <<mapping, run, ctxDone, cancelled, registered, doneClosed,
                     runner, runnerErrors, stopper, handle>>
trackerVars == <<clock, lastCycle, ready, stamp, probe>>
startVars == <<env, files, edit, attempt, connection, path>>
vars == <<stage, startVars, server, solo, exitCode, coordinatorVars, trackerVars>>

NoCode == "none"

(* No mapping was read.                                                    *)
NoStacks == [s \in {} |-> FALSE]

Init ==
    /\ stage = "load"
    /\ \E start \in Starts :
          /\ env = start.env
          /\ files = start.files
          /\ edit = IF start.editable THEN "possible" ELSE "none"
    /\ attempt = 1
    /\ connection = "none"
    /\ path = NoMapping
    /\ server = "off"
    /\ solo = "none"
    /\ exitCode = NoCode
    /\ mapping = NoStacks
    /\ run = "new"
    /\ ctxDone = FALSE
    /\ cancelled = FALSE
    /\ registered = FALSE
    /\ doneClosed = FALSE
    /\ runner = NoStacks
    /\ runnerErrors = {}
    /\ stopper = [p \in {} |-> "new"]
    /\ handle = {}
    /\ T!Init

-----------------------------------------------------------------------------
Exit(code) ==
    /\ stage' = "exited"
    /\ exitCode' = code
    /\ UNCHANGED <<startVars, server, solo, coordinatorVars, trackerVars>>

(* logger.Fatal exits with status 1, at once.                              *)
Fatal == Exit("1")

Proceed(next) == stage' = next /\ UNCHANGED <<exitCode, coordinatorVars, trackerVars>>

LoadConfig ==
    /\ stage = "load"
    /\ IF Load(env, files)
         THEN Proceed("dial") /\ UNCHANGED <<startVars, server, solo>>
         ELSE Fatal

Dial ==
    /\ stage = "dial"
    /\ IF DockerClientBuilt(env)
         THEN /\ Proceed("ping")
              /\ connection' = Connection(env)
              /\ UNCHANGED <<env, files, edit, attempt, path, server, solo>>
         ELSE Fatal

Answered ==
    /\ stage = "ping"
    /\ ~ctxDone
    /\ Proceed("serve")
    /\ attempt' = 1
    /\ UNCHANGED <<env, files, edit, connection, path, server, solo>>

(* A transient error, with the backoff that follows; the error of the last *)
(* attempt is fatal.                                                       *)
PingFails ==
    /\ stage = "ping"
    /\ IF attempt < MaxAttempts
         THEN /\ Proceed("ping")
              /\ attempt' = attempt + 1
              /\ UNCHANGED <<env, files, edit, connection, path, server, solo>>
         ELSE Fatal

(* Another error, the timeout of the whole Ping, or the signal.            *)
PingEnds == stage = "ping" /\ Fatal

(* server.Start returns at once; then the notifiers are built.             *)
Serve ==
    /\ stage = "serve"
    /\ IF env.template
         THEN /\ Proceed("search")
              /\ server' = IF env.health THEN "starting" ELSE "off"
              /\ UNCHANGED <<startVars, solo>>
         ELSE Fatal

(* The second search. With a mapping file that was not there at the first  *)
(* one the URL is not looked at; without one that was, there is none.      *)
Search ==
    /\ stage = "search"
    /\ LET place == FindMappingFile(env, files) IN
         CASE place \in Places ->
                 /\ Proceed("read")
                 /\ path' = place
                 /\ UNCHANGED <<env, files, edit, attempt, connection, server, solo>>
           [] place = NoMapping /\ FetcherBuilt(env.url) ->
                 /\ Proceed("running")
                 /\ solo' = "running"
                 /\ files' = NoStacks
                 /\ UNCHANGED <<env, edit, attempt, connection, path, server>>
           [] OTHER -> Fatal

(* The coordinator is made of what the file holds now.                     *)
Read ==
    /\ stage = "read"
    /\ IF path \in DOMAIN files /\ LoadMappingFile(files[path])
         THEN /\ stage' = "running"
              /\ files' = NoStacks
              /\ path' = NoMapping
              /\ mapping' = MappingOf(files[path])
              /\ runner' = [s \in DOMAIN mapping' |-> "none"]
              /\ UNCHANGED <<exitCode, env, edit, attempt, connection, server, solo, run,
                             ctxDone, cancelled, registered, doneClosed, runnerErrors,
                             stopper, handle, trackerVars>>
         ELSE Fatal

(* Runner.Run or Coordinator.Run returns nil, and main with it; it does    *)
(* not wait for the server.                                                *)
MainReturns ==
    /\ stage = "running"
    /\ solo = "exited" \/ run = "returned"
    /\ Exit("0")

Main == LoadConfig \/ Dial \/ Answered \/ PingFails \/ PingEnds \/ Serve \/ Search
            \/ Read \/ MainReturns

-----------------------------------------------------------------------------
(* The runners, under the coordinator or alone.                            *)

Running == stage = "running"

Multi == mapping # NoStacks

CoordinatorRuns ==
    /\ Running /\ Multi
    /\ C!RunNext \/ \E s \in DOMAIN mapping : C!StartRunner(s) \/ C!FailToStart(s)
    /\ UNCHANGED <<stage, startVars, server, solo, exitCode, trackerVars>>

Working(r) == Running /\ IF r = Solo THEN solo = "running"
                         ELSE r \in DOMAIN mapping /\ runner[r] = "running"

(* A runner returns from its select, never out of RecordCycle.             *)
RunnerReturns(r) ==
    /\ Working(r)
    /\ stamp[r] = T!Never
    /\ IF r = Solo
         THEN cancelled /\ solo' = "exited" /\ UNCHANGED coordinatorVars
         ELSE C!RunnerReturns(r) /\ UNCHANGED solo
    /\ UNCHANGED <<stage, startVars, server, exitCode, trackerVars>>

(* A cycle ended without an error; there is a tracker only with a port.    *)
CycleEnds(r) ==
    /\ Working(r)
    /\ env.health
    /\ T!ReadClock(r)
    /\ UNCHANGED <<stage, startVars, server, solo, exitCode, coordinatorVars>>

CycleRecorded(r) ==
    /\ Working(r)
    /\ T!RecordCycle(r)
    /\ UNCHANGED <<stage, startVars, server, solo, exitCode, coordinatorVars>>

-----------------------------------------------------------------------------
(* server.startServer: two goroutines, one that listens and one that shuts *)
(* the server down when the process is told to stop.                       *)

Alive == stage # "exited"

Listen ==
    /\ Alive /\ server = "starting"
    /\ server' \in {"up", "failed"}
    /\ UNCHANGED <<stage, startVars, solo, exitCode, coordinatorVars, trackerVars>>

ShutDown ==
    /\ Alive /\ ctxDone /\ server \in {"starting", "up"}
    /\ server' = "down"
    /\ UNCHANGED <<stage, startVars, solo, exitCode, coordinatorVars, trackerVars>>

(* Requests are taken while the server is up, and finished also later.     *)
HandleRequest(q) ==
    /\ Alive
    /\ \/ server = "up" /\ (T!DecideHealth(q) \/ T!DecideReady(q))
       \/ T!Respond(q) \/ T!Forget(q)
    /\ UNCHANGED <<stage, startVars, server, solo, exitCode, coordinatorVars>>

-----------------------------------------------------------------------------
(* The environment. Time matters from the first cycle on.                  *)

Time ==
    /\ Running
    /\ T!Advance
    /\ UNCHANGED <<stage, startVars, server, solo, exitCode, coordinatorVars>>

(* Mutated form: the runners are given another context.                    *)
SignalMain ==
    /\ Alive /\ stage # "load"
    /\ ~ctxDone
    /\ ctxDone' = TRUE
    /\ UNCHANGED <<mapping, run, cancelled, registered, doneClosed, runner,
                   runnerErrors, stopper, handle>>
    /\ UNCHANGED <<stage, startVars, server, solo, exitCode, trackerVars>>

(* SIGINT or SIGTERM, once signal.NotifyContext was called.                *)
Signal ==
    /\ Alive /\ stage # "load"
    /\ C!CancelContext
    /\ UNCHANGED <<stage, startVars, server, solo, exitCode, trackerVars>>

(* A mapping file appears, changes or disappears while the process starts  *)
(* (an edit before Load is another start).                                 *)
Edit ==
    /\ stage \in {"dial", "ping", "serve", "search", "read"}
    /\ edit = "possible"
    /\ edit' = "done"
    /\ \E p \in Places :
         \/ \E c \in Contents :
               files' = [q \in DOMAIN files \cup {p} |-> IF q = p THEN c ELSE files[q]]
         \/ files' = [q \in DOMAIN files \ {p} |-> files[q]]
    /\ UNCHANGED <<stage, env, attempt, connection, path, server, solo, exitCode,
                   coordinatorVars, trackerVars>>

Next ==
    \/ Main
    \/ CoordinatorRuns
    \/ \E r \in Runners : RunnerReturns(r) \/ CycleEnds(r) \/ CycleRecorded(r)
    \/ Listen \/ ShutDown
    \/ \E q \in Probes : HandleRequest(q)
    \/ Time \/ Signal \/ Edit

(* Goroutines are scheduled, and Ping ends by its timeout. A runner comes  *)
(* back to its select again and again (ShutdownCompletes of Sentinel),     *)
(* which picks at random among a tick and a context that is done.          *)
Fairness ==
    /\ WF_vars(Main)
    /\ WF_vars(CoordinatorRuns)
    /\ \A r \in Runners : WF_vars(CycleRecorded(r)) /\ SF_vars(RunnerReturns(r))

Spec == Init /\ [][Next]_vars /\ Fairness

-----------------------------------------------------------------------------
(* Types of the state, of the coordinator and of the tracker; the errors   *)
(* a coordinator keeps are of stacks that could not start.                 *)
TypeOK ==
    /\ stage \in {"load", "dial", "ping", "serve", "search", "read", "running", "exited"}
    /\ env \in Environments
    /\ DOMAIN files \subseteq Places
    /\ edit \in {"none", "possible", "done"}
    /\ attempt \in 1..MaxAttempts
    /\ connection \in {"none", "plain", "encrypted", "verified"}
    /\ path \in Places \cup {NoMapping}
    /\ server \in {"off", "starting", "up", "failed", "down"}
    /\ solo \in {"none", "running", "exited"}
    /\ exitCode \in {NoCode, "0", "1"}
    /\ Multi => C!TypeOK
    /\ T!TypeOK

(* When the process ends no runner is in the middle of a cycle: fatal      *)
(* errors come before the first runner starts, and a normal end after the  *)
(* last one has returned (main.go:135-186, coordinator.go:117-126).        *)
NothingLeftBehind ==
    stage = "exited" =>
        /\ solo # "running"
        /\ \A s \in DOMAIN mapping : runner[s] \in {"none", "exited"}
        /\ \A r \in Runners : stamp[r] = T!Never

(* The process ends with status 0 only if it was told to, however many of  *)
(* its stacks cannot start (coordinator.go:94-95) - unless it is all of    *)
(* them: then it ends at once, and with status 0.                          *)
NormalExitIsShutdown ==
    exitCode = "0" => ctxDone \/ (Multi /\ \A s \in DOMAIN mapping : ~mapping[s])

(* A process that runs does what its environment asks for, although that   *)
(* is decided at several places and the mapping file is looked at twice.   *)
(* It runs one runner with a usable URL or a coordinator with a mapping,   *)
(* and the latter in spite of a URL only if the files were edited between  *)
(* the two searches: a mapping file that appears then wins (main.go:123).  *)
(* If verification of Docker is asked for, by either name, there is no     *)
(* other connection (config.go:200-210,247-252; README.md:97-102).         *)
RunsAsConfigured ==
    Running =>
        /\ Multi # (solo # "none")
        /\ solo # "none" => FetcherBuilt(env.url)
        /\ Multi /\ env.url # "unset" => edit = "done"
        /\ env.verify = "true" => connection = "verified"
        /\ env.verify = "unset" /\ env.verifyCompat = "true" => connection = "verified"
        /\ env.host = "https" => connection # "plain"

(* What /readyz says is justified by the cycle it shows, with any number   *)
(* of runners, and so is what /healthz says in single-stack mode: of two   *)
(* runners the one that read the clock first may record last, and the      *)
(* tracker goes back in time (tracker.go:34).                              *)
AnswersAreJustified ==
    /\ T!ReadyAnswerIsJustified
    /\ solo # "none" => T!HealthyAnswerIsJustified

(* A process that is told to stop ends, at whatever stage the signal finds *)
(* it, and the start comes to an end by itself (main.go:73-186).           *)
EndsWhenTold ==
    /\ ctxDone ~> stage = "exited"
    /\ ~Running ~> stage \in {"running", "exited"}

=============================================================================
