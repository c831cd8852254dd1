----------------------------- MODULE Process_proofs -----------------------------
(***************************************************************************)
(* Proofs about the process. Its invariants depend on each other: that it  *)
(* leaves nothing behind on what its runners do while the tracker is told  *)
(* of a cycle, what /healthz says on who those runners are, and that on    *)
(* what was decided, at three different times, from an environment that    *)
(* stays and mapping files that do not.                                    *)
(***************************************************************************)
EXTENDS Process, Integers, TLAPS

Starting == {"load", "dial", "ping", "serve", "search", "read"}

-----------------------------------------------------------------------------
(* The inductive invariant, by the variables that its parts are about      *)

StagesOK ==
    /\ stage \in Starting \cup {"running", "exited"}
    /\ attempt \in 1..MaxAttempts
    /\ server \in {"off", "starting", "up", "failed", "down"}
    /\ solo \in {"none", "running", "exited"}
    /\ exitCode \in {NoCode, "0", "1"}
    /\ exitCode # NoCode => stage = "exited"

FilesOK ==
    /\ DOMAIN files \subseteq Places
    /\ \A p \in DOMAIN files : files[p] \in Seq(Entries)
    /\ edit \in {"none", "possible", "done"}
    /\ path \in Places \cup {NoMapping}

(* What Load and NewDockerClient have decided on still holds of the        *)
(* environment, which stays what it was.                                   *)
EnvironmentOK ==
    /\ env \in Environments
    /\ connection \in {"none", "plain", "encrypted", "verified"}
    /\ stage \notin {"load", "exited"} =>
         VerifyParses(env) /\ (env.host = "https" => TLSEnabled(env))
    /\ stage \notin {"load", "dial", "exited"} => connection = Connection(env)

(* As long as nobody edits the files the second search finds what the      *)
(* first one found.                                                        *)
SourceIsKept ==
    edit # "done" =>
        /\ stage \in {"dial", "ping", "serve", "search"} =>
             OneSource(env, FindMappingFile(env, files))
        /\ stage = "read" => env.url = "unset"
        /\ Running => (Multi <=> env.url = "unset")

(* One mode, chosen when the process begins to run.                        *)
ModeIsKept ==
    /\ stage \in Starting => solo = "none" /\ ~Multi
    /\ Running => Multi \/ solo # "none"
    /\ Multi => solo = "none"
    /\ solo # "none" => FetcherBuilt(env.url)

(* The coordinator, which nothing has touched unless there is a mapping.   *)
CoordinatorOK ==
    /\ ctxDone \in BOOLEAN /\ cancelled = ctxDone
    /\ Multi => C!TypeOK
    /\ ~Multi => /\ run = "new" /\ runner = NoStacks /\ runnerErrors = {}
                 /\ registered = FALSE /\ doneClosed = FALSE
    /\ stopper = [p \in {} |-> "new"] /\ handle = {}

(* Run is past its wait group only when every runner has exited.           *)
WaitIsOver ==
    run \in {"close", "returned"} => \A s \in DOMAIN mapping : runner[s] = "exited"

(* A runner exits because it cannot start or is told to.                   *)
RunnersOK ==
    /\ WaitIsOver
    /\ \A s \in DOMAIN mapping : runner[s] = "exited" => ~mapping[s] \/ ctxDone
    /\ solo = "exited" => ctxDone

(* A runner that has read the clock for the tracker is not past it, and    *)
(* nobody has read it before there are runners.                            *)
BusyRunnersWork ==
    \A r \in Runners : stamp[r] # T!Never => Working(r)

(* Without a coordinator the tracker never goes back in time.              *)
TimeGoesForward ==
    ~Multi => \A r \in Runners : stamp[r] # T!Never => lastCycle <= stamp[r]

(* What a request will show, or has shown.                                 *)
Shown(q) == IF probe[q].at = "decided" THEN lastCycle ELSE probe[q].shown

Said(q, kind) == probe[q].at # "idle" /\ probe[q].kind = kind /\ probe[q].ok

ReadyIsJustified == \A q \in Probes : Said(q, "ready") => Shown(q) # T!Never

HealthIsJustified ==
    ~Multi => \A q \in Probes : Said(q, "health") =>
        /\ Shown(q) # T!Never
        /\ probe[q].asked - Shown(q) <= 2 * PollInterval

IInv ==
    /\ StagesOK /\ FilesOK /\ EnvironmentOK /\ SourceIsKept /\ ModeIsKept
    /\ CoordinatorOK /\ RunnersOK /\ T!TypeOK /\ BusyRunnersWork
    /\ TimeGoesForward /\ ReadyIsJustified /\ HealthIsJustified
    /\ NothingLeftBehind /\ NormalExitIsShutdown

TrackerOK ==
    /\ T!TypeOK /\ TimeGoesForward /\ ReadyIsJustified /\ HealthIsJustified

-----------------------------------------------------------------------------
(* What a step leaves alone                                                *)

LEMMA CoordinatorFrame ==
    CoordinatorOK /\ UNCHANGED coordinatorVars => CoordinatorOK' /\ (Multi' <=> Multi)
BY DEF CoordinatorOK, coordinatorVars, Multi, C!TypeOK, C!Mappings, C!Startable

LEMMA TrackerFrame == TrackerOK /\ UNCHANGED <<mapping, trackerVars>> => TrackerOK'
BY DEF TrackerOK, T!TypeOK, TimeGoesForward, ReadyIsJustified, HealthIsJustified,
       trackerVars, Multi, Shown, Said

-----------------------------------------------------------------------------
LEMMA InitInv == Init => IInv
<1> SUFFICES ASSUME Init PROVE IInv
    OBVIOUS
<1> USE DEF Init
<1>1. StagesOK /\ FilesOK /\ EnvironmentOK
    BY ProcessAssumption DEF StagesOK, FilesOK, EnvironmentOK, Starting, NoCode
<1>2. ~Multi
    BY DEF Multi
<1>3. SourceIsKept /\ ModeIsKept
    BY <1>2 DEF SourceIsKept, ModeIsKept, Running
<1>4. CoordinatorOK
    BY <1>2 DEF CoordinatorOK
<1>5. RunnersOK
    BY DEF RunnersOK, WaitIsOver, NoStacks
<1>6. /\ clock = 1 /\ lastCycle = 0 /\ ready = FALSE
      /\ stamp = [r \in Runners |-> 0]
      /\ probe = [q \in Probes |-> T!NoProbe]
    BY DEF T!Init, T!Never
<1>7. T!TypeOK
    <2>1. clock \in 1..MaxTime /\ lastCycle \in 0..clock
        BY <1>6, ProcessAssumption
    <2>2. ready = (lastCycle # 0)
        BY <1>6, Zenon
    <2>3. stamp \in [Runners -> 0..clock]
        BY <1>6
    <2>4. probe \in [Probes -> [at : {"idle", "decided", "answered"},
                               kind : {"none", "health", "ready"}, ok : BOOLEAN,
                               asked : 0..clock, shown : 0..clock]]
        BY <1>6 DEF T!NoProbe, T!Never
    <2> QED BY <2>1, <2>2, <2>3, <2>4 DEF T!TypeOK, T!Never
<1>8. BusyRunnersWork /\ TimeGoesForward
    BY <1>6 DEF BusyRunnersWork, TimeGoesForward, T!Never
<1>9. ReadyIsJustified /\ HealthIsJustified
    BY <1>6 DEF ReadyIsJustified, HealthIsJustified, Said, T!NoProbe
<1>10. NothingLeftBehind /\ NormalExitIsShutdown
    BY DEF NothingLeftBehind, NormalExitIsShutdown, NoCode
<1> QED BY <1>1, <1>3, <1>4, <1>5, <1>7, <1>8, <1>9, <1>10 DEF IInv

-----------------------------------------------------------------------------
(* main, until there are runners                                           *)

(* A fatal error: there is no runner that could be left behind.            *)
LEMMA FatalInv == IInv /\ stage \in Starting /\ Fatal => IInv'
<1> SUFFICES ASSUME IInv, stage \in Starting, Fatal PROVE IInv'
    OBVIOUS
<1>1. /\ stage' = "exited" /\ exitCode' = "1"
      /\ UNCHANGED <<startVars, server, solo, coordinatorVars, trackerVars>>
    BY DEF Fatal, Exit
<1>2. solo = "none" /\ ~Multi
    BY DEF IInv, ModeIsKept
<1>3. StagesOK' /\ FilesOK' /\ EnvironmentOK' /\ SourceIsKept' /\ ModeIsKept'
    BY <1>1, <1>2 DEF IInv, StagesOK, FilesOK, EnvironmentOK, SourceIsKept, ModeIsKept,
                      Starting, NoCode, startVars, coordinatorVars, Running, Multi
<1>4. CoordinatorOK' /\ TrackerOK'
    BY <1>1, CoordinatorFrame, TrackerFrame DEF IInv, TrackerOK, coordinatorVars
<1>5. RunnersOK'
    BY <1>1 DEF IInv, RunnersOK, WaitIsOver, coordinatorVars
<1>6. \A r \in Runners : stamp[r] = T!Never
    BY DEF IInv, BusyRunnersWork, Working, Running, Starting
<1>7. BusyRunnersWork'
    BY <1>1, <1>6 DEF BusyRunnersWork, trackerVars
<1>8. NothingLeftBehind'
    BY <1>1, <1>2, <1>6 DEF NothingLeftBehind, Multi, NoStacks, trackerVars, coordinatorVars
<1>9. NormalExitIsShutdown'
    BY <1>1 DEF NormalExitIsShutdown
<1> QED BY <1>3, <1>4, <1>5, <1>7, <1>8, <1>9 DEF IInv, TrackerOK

(* Another step before there are runners.                                  *)
LEMMA ProceedInv ==
    ASSUME IInv, stage \in Starting, NEW next \in Starting \cup {"running"}, Proceed(next),
           attempt' \in 1..MaxAttempts,
           server' \in {"off", "starting", "up", "failed", "down"},
           solo' = IF next = "running" THEN "running" ELSE "none",
           FilesOK', EnvironmentOK', SourceIsKept',
           next = "running" => FetcherBuilt(env'.url)
    PROVE  IInv'
<1>1. stage' = next /\ UNCHANGED <<exitCode, coordinatorVars, trackerVars>>
    BY DEF Proceed
<1>2. solo = "none" /\ ~Multi /\ ~Multi'
    BY <1>1 DEF IInv, ModeIsKept, Multi, coordinatorVars
<1>3. StagesOK'
    BY <1>1 DEF IInv, StagesOK, Starting
<1>4. ModeIsKept'
    BY <1>1, <1>2 DEF ModeIsKept, Running, Starting
<1>5. CoordinatorOK' /\ TrackerOK'
    BY <1>1, CoordinatorFrame, TrackerFrame DEF IInv, TrackerOK, coordinatorVars
<1>6. RunnersOK'
    BY <1>1 DEF IInv, RunnersOK, WaitIsOver, coordinatorVars
<1>7. \A r \in Runners : stamp[r] = T!Never
    BY DEF IInv, BusyRunnersWork, Working, Running, Starting
<1>8. BusyRunnersWork'
    BY <1>1, <1>7 DEF BusyRunnersWork, trackerVars
<1>9. NothingLeftBehind' /\ NormalExitIsShutdown'
    BY <1>1, <1>2 DEF IInv, StagesOK, Starting, NoCode, NothingLeftBehind,
                      NormalExitIsShutdown
<1> QED BY <1>3, <1>4, <1>5, <1>6, <1>8, <1>9 DEF IInv, TrackerOK

LEMMA StartInv ==
    IInv /\ (LoadConfig \/ Dial \/ Answered \/ PingFails \/ PingEnds \/ Serve \/ Search)
        => IInv'
<1> SUFFICES ASSUME IInv, LoadConfig \/ Dial \/ Answered \/ PingFails \/ PingEnds
                            \/ Serve \/ Search
             PROVE  IInv'
    OBVIOUS
<1> USE DEF Starting
<1>1. CASE Fatal
    BY <1>1, FatalInv DEF LoadConfig, Dial, Answered, PingFails, PingEnds, Serve, Search
<1>2. CASE LoadConfig /\ ~Fatal
    <2>1. /\ Load(env, files) /\ stage = "load" /\ Proceed("dial")
          /\ UNCHANGED <<startVars, server, solo>>
        BY <1>2 DEF LoadConfig
    <2>2. /\ VerifyParses(env) /\ (env.host = "https" => TLSEnabled(env))
          /\ OneSource(env, FindMappingFile(env, files))
        BY <2>1 DEF Load
    <2>3. stage' = "dial"
        BY <2>1 DEF Proceed
    <2>4. EnvironmentOK' /\ SourceIsKept'
        BY <2>1, <2>2, <2>3 DEF IInv, EnvironmentOK, SourceIsKept, startVars, Running
    <2>5. FilesOK' /\ solo' = "none"
        BY <2>1 DEF IInv, FilesOK, ModeIsKept, startVars
    <2>6. attempt' \in 1..MaxAttempts /\ server' \in {"off", "starting", "up", "failed", "down"}
        BY <2>1 DEF IInv, StagesOK, startVars
    <2> QED BY <2>1, <2>4, <2>5, <2>6, ProceedInv
<1>3. CASE Dial /\ ~Fatal
    <2>1. /\ stage = "dial" /\ Proceed("ping") /\ connection' = Connection(env)
          /\ UNCHANGED <<env, files, edit, attempt, path, server, solo>>
        BY <1>3 DEF Dial
    <2>2. stage' = "ping"
        BY <2>1 DEF Proceed
    <2>3. EnvironmentOK'
        BY <2>1, <2>2 DEF IInv, EnvironmentOK, Connection
    <2>4. SourceIsKept'
        BY <2>1, <2>2 DEF IInv, SourceIsKept, Running
    <2>5. FilesOK' /\ solo' = "none"
        BY <2>1 DEF IInv, FilesOK, ModeIsKept
    <2>6. attempt' \in 1..MaxAttempts /\ server' \in {"off", "starting", "up", "failed", "down"}
        BY <2>1 DEF IInv, StagesOK
    <2> QED BY <2>1, <2>3, <2>4, <2>5, <2>6, ProceedInv
<1>4. ASSUME NEW next \in {"ping", "serve", "search"}, Proceed(next), solo' = solo,
             stage \in {"ping", "serve"},
             UNCHANGED <<env, files, edit, connection, path>>,
             attempt' \in 1..MaxAttempts,
             server' \in {"off", "starting", "up", "failed", "down"}
      PROVE  IInv'
    <2>1. stage' = next
        BY <1>4 DEF Proceed
    <2>2. EnvironmentOK'
        BY <1>4, <2>1 DEF IInv, EnvironmentOK
    <2>3. SourceIsKept'
        BY <1>4, <2>1 DEF IInv, SourceIsKept, Running
    <2>4. FilesOK' /\ solo' = "none"
        BY <1>4 DEF IInv, FilesOK, ModeIsKept
    <2> QED BY <1>4, <2>2, <2>3, <2>4, ProceedInv
<1>5. CASE Answered
    BY <1>5, <1>4, ProcessAssumption DEF Answered, IInv, StagesOK
<1>6. CASE PingFails /\ ~Fatal
    <2>1. /\ stage = "ping" /\ Proceed("ping") /\ attempt < MaxAttempts
          /\ attempt' = attempt + 1
          /\ UNCHANGED <<env, files, edit, connection, path, server, solo>>
        BY <1>6 DEF PingFails
    <2> QED BY <2>1, <1>4, ProcessAssumption DEF IInv, StagesOK
<1>7. CASE Serve /\ ~Fatal
    BY <1>7, <1>4 DEF Serve, IInv, StagesOK, startVars
<1>8. CASE Search /\ ~Fatal
    <2> DEFINE place == FindMappingFile(env, files)
    <2>1. CASE place \in Places
        <3>1. /\ stage = "search" /\ Proceed("read") /\ path' = place
              /\ UNCHANGED <<env, files, edit, attempt, connection, server, solo>>
            BY <1>8, <2>1 DEF Search, Places, NoMapping
        <3>2. stage' = "read"
            BY <3>1 DEF Proceed
        <3>3. EnvironmentOK'
            BY <3>1, <3>2 DEF IInv, EnvironmentOK
        <3>4. edit # "done" => env.url = "unset"
            BY <2>1, <3>1 DEF IInv, SourceIsKept, OneSource, Places, NoMapping
        <3>5. SourceIsKept'
            BY <3>1, <3>2, <3>4 DEF SourceIsKept, Running
        <3>6. FilesOK' /\ solo' = "none"
            BY <2>1, <3>1 DEF IInv, FilesOK, ModeIsKept
        <3>7. attempt' \in 1..MaxAttempts /\ server' \in {"off", "starting", "up", "failed", "down"}
            BY <3>1 DEF IInv, StagesOK
        <3> QED BY <3>1, <3>3, <3>5, <3>6, <3>7, ProceedInv
    <2>2. CASE place \notin Places
        <3>1. /\ stage = "search" /\ Proceed("running") /\ solo' = "running"
              /\ files' = NoStacks /\ place = NoMapping /\ FetcherBuilt(env.url)
              /\ UNCHANGED <<env, edit, attempt, connection, path, server>>
            BY <1>8, <2>2, Zenon DEF Search
        <3>2. stage' = "running" /\ UNCHANGED mapping
            BY <3>1 DEF Proceed, coordinatorVars
        <3>3. EnvironmentOK'
            BY <3>1, <3>2 DEF IInv, EnvironmentOK
        <3>4. edit # "done" => env.url # "unset"
            BY <3>1 DEF IInv, SourceIsKept, OneSource
        <3>5. SourceIsKept'
            BY <3>1, <3>2, <3>4 DEF IInv, SourceIsKept, ModeIsKept, Running, Multi
        <3>6. FilesOK'
            BY <3>1 DEF IInv, FilesOK, NoStacks
        <3>7. attempt' \in 1..MaxAttempts /\ server' \in {"off", "starting", "up", "failed", "down"}
            BY <3>1 DEF IInv, StagesOK
        <3> QED BY <3>1, <3>3, <3>5, <3>6, <3>7, ProceedInv
    <2> QED BY <2>1, <2>2
<1>9. PingEnds => Fatal
    BY DEF PingEnds
<1> QED BY <1>1, <1>2, <1>3, <1>5, <1>6, <1>7, <1>8, <1>9, Zenon

(* The mapping that is read has a stack, and every stack has a name.       *)
LEMMA MappingIsUsable ==
    ASSUME NEW content \in Seq(Entries), LoadMappingFile(content)
    PROVE  MappingOf(content) \in C!Mappings
<1> DEFINE D == {content[i].name : i \in DOMAIN content}
<1>1. content # <<>> /\ \A i \in DOMAIN content : content[i].name # NoName
    BY Zenon DEF LoadMappingFile
<1>2. DOMAIN content = 1..Len(content) /\ Len(content) \in Nat
    OBVIOUS
<1>3. 1 \in DOMAIN content
    BY <1>1, <1>2
<1>4. \A i \in DOMAIN content : content[i] \in Entries
    BY <1>2
<1>5. D # {}
    BY <1>3
<1>6. D \subseteq Stacks
    BY <1>1, <1>4 DEF Entries
<1>7. MappingOf(content) \in [D -> BOOLEAN]
    BY DEF MappingOf, FetcherBuilt
<1> HIDE DEF D
<1>8. D \in (SUBSET Stacks) \ {{}}
    BY <1>5, <1>6
<1> QED BY <1>7, <1>8, Zenon DEF C!Mappings

LEMMA ReadInv == IInv /\ Read => IInv'
<1> SUFFICES ASSUME IInv, Read PROVE IInv'
    OBVIOUS
<1>1. CASE Fatal
    BY <1>1, FatalInv DEF Read, Starting
<1>2. CASE ~Fatal
    <2>1. /\ stage = "read" /\ path \in DOMAIN files /\ LoadMappingFile(files[path])
          /\ stage' = "running" /\ files' = NoStacks /\ path' = NoMapping
          /\ mapping' = MappingOf(files[path])
          /\ runner' = [s \in DOMAIN mapping' |-> "none"]
          /\ UNCHANGED <<exitCode, env, edit, attempt, connection, server, solo, run,
                         ctxDone, cancelled, registered, doneClosed, runnerErrors,
                         stopper, handle, trackerVars>>
        BY <1>2 DEF Read
    <2>2. mapping' \in C!Mappings
        BY <2>1, MappingIsUsable DEF IInv, FilesOK
    <2>3. Multi'
        BY <2>2 DEF Multi, NoStacks, C!Mappings
    <2>4. solo = "none" /\ ~Multi
        BY <2>1 DEF IInv, ModeIsKept, Starting
    <2>5. StagesOK' /\ FilesOK' /\ ModeIsKept'
        BY <2>1, <2>3, <2>4 DEF IInv, StagesOK, FilesOK, ModeIsKept, Starting, NoStacks
    <2>6. EnvironmentOK' /\ SourceIsKept'
        BY <2>1, <2>3 DEF IInv, EnvironmentOK, SourceIsKept, Running
    <2>7. CoordinatorOK'
        BY <2>1, <2>2, <2>3, <2>4 DEF IInv, CoordinatorOK, C!TypeOK, C!Startable
    <2>8. RunnersOK'
        BY <2>1, <2>4 DEF IInv, RunnersOK, WaitIsOver, CoordinatorOK
    <2>9. TrackerOK'
        BY <2>1, <2>3 DEF IInv, TrackerOK, T!TypeOK, TimeGoesForward, ReadyIsJustified,
                          HealthIsJustified, trackerVars, Shown, Said
    <2>10. \A r \in Runners : stamp[r] = T!Never
        BY <2>1 DEF IInv, BusyRunnersWork, Working, Running
    <2>11. BusyRunnersWork'
        BY <2>1, <2>10 DEF BusyRunnersWork, trackerVars
    <2>12. NothingLeftBehind' /\ NormalExitIsShutdown'
        BY <2>1 DEF IInv, StagesOK, NoCode, NothingLeftBehind, NormalExitIsShutdown
    <2> QED BY <2>5, <2>6, <2>7, <2>8, <2>9, <2>11, <2>12 DEF IInv, TrackerOK
<1> QED BY <1>1, <1>2

-----------------------------------------------------------------------------
(* The steps of others                                                     *)

(* Nothing but main changes these.                                         *)
startState == <<stage, startVars, server, solo, exitCode>>

LEMMA StartFrame ==
    IInv /\ stage # "exited" /\ UNCHANGED <<startState, mapping>>
        => /\ StagesOK' /\ FilesOK' /\ EnvironmentOK' /\ SourceIsKept' /\ ModeIsKept'
           /\ NothingLeftBehind' /\ NormalExitIsShutdown'
BY DEF IInv, StagesOK, FilesOK, EnvironmentOK, SourceIsKept, ModeIsKept, NoCode,
       NothingLeftBehind, NormalExitIsShutdown, startState, startVars, Running, Multi

(* main returns when its runner has, or the coordinator with all of them.  *)
LEMMA ReturnInv == IInv /\ MainReturns => IInv'
<1> SUFFICES ASSUME IInv, MainReturns PROVE IInv'
    OBVIOUS
<1>1. /\ stage = "running" /\ stage' = "exited" /\ exitCode' = "0"
      /\ solo = "exited" \/ run = "returned"
      /\ UNCHANGED <<startVars, server, solo, coordinatorVars, trackerVars>>
    BY DEF MainReturns, Exit
<1>2. solo # "running" /\ \A s \in DOMAIN mapping : runner[s] = "exited"
    <2>1. CASE solo = "exited"
        BY <2>1 DEF IInv, ModeIsKept, Multi, NoStacks
    <2>2. CASE run = "returned"
        BY <2>2 DEF IInv, ModeIsKept, CoordinatorOK, RunnersOK, WaitIsOver
    <2> QED BY <1>1, <2>1, <2>2
<1>3. \A r \in Runners : stamp[r] = T!Never
    BY <1>2 DEF IInv, BusyRunnersWork, Working
<1>4. ctxDone \/ (Multi /\ \A s \in DOMAIN mapping : ~mapping[s])
    <2>1. CASE solo = "exited"
        BY <2>1 DEF IInv, RunnersOK, WaitIsOver
    <2>2. CASE run = "returned"
        BY <1>2, <2>2 DEF IInv, CoordinatorOK, RunnersOK, WaitIsOver
    <2> QED BY <1>1, <2>1, <2>2
<1>5. UNCHANGED <<mapping, runner, ctxDone, stamp, solo>>
    BY <1>1 DEF coordinatorVars, trackerVars
<1>6. NothingLeftBehind'
    BY <1>2, <1>3, <1>5 DEF NothingLeftBehind
<1>7. NormalExitIsShutdown'
    BY <1>4, <1>5 DEF NormalExitIsShutdown, Multi
<1>8. StagesOK' /\ FilesOK' /\ EnvironmentOK' /\ SourceIsKept' /\ ModeIsKept'
    BY <1>1, <1>5 DEF IInv, StagesOK, FilesOK, EnvironmentOK, SourceIsKept, ModeIsKept,
                      Starting, NoCode, startVars, Running, Multi
<1>9. CoordinatorOK' /\ TrackerOK'
    BY <1>1, CoordinatorFrame, TrackerFrame DEF IInv, TrackerOK, coordinatorVars
<1>10. RunnersOK'
    BY <1>1 DEF IInv, RunnersOK, WaitIsOver, coordinatorVars
<1>11. BusyRunnersWork'
    BY <1>3, <1>5 DEF BusyRunnersWork
<1> QED BY <1>6, <1>7, <1>8, <1>9, <1>10, <1>11 DEF IInv, TrackerOK

(* A step of the coordinator: no runner that runs is stopped by it, and    *)
(* one that has exited has a reason.                                       *)
CoordinatorStep ==
    \/ C!Register \/ C!WaitAll \/ C!CloseDone
    \/ \E s \in DOMAIN mapping : \/ C!Spawn(s) \/ C!StartRunner(s) \/ C!FailToStart(s)
                                 \/ C!RunnerReturns(s)

LEMMA CoordinatorStepFacts ==
    ASSUME IInv, Multi, CoordinatorStep, UNCHANGED solo
    PROVE  CoordinatorOK' /\ RunnersOK' /\ UNCHANGED <<mapping, ctxDone>>
<1>1. /\ C!TypeOK /\ cancelled = ctxDone /\ ctxDone \in BOOLEAN
      /\ stopper = [p \in {} |-> "new"] /\ handle = {}
    BY DEF IInv, CoordinatorOK
<1>2. UNCHANGED <<mapping, ctxDone, cancelled, stopper, handle>>
    BY DEF CoordinatorStep, C!Register, C!WaitAll, C!CloseDone, C!Spawn, C!StartRunner,
           C!FailToStart, C!RunnerReturns, C!runVars, C!stopVars
<1>3. C!TypeOK' /\ RunnersOK'
    <2> USE <1>1, <1>2 DEF C!TypeOK, C!Startable, C!runVars, C!stopVars, IInv, RunnersOK, WaitIsOver
    <2>1. CASE C!Register
        BY <2>1 DEF C!Register
    <2>2. CASE C!WaitAll
        <3>1. C!TypeOK'
            BY <2>2 DEF C!WaitAll
        <3>2. RunnersOK'
            BY <2>2 DEF C!WaitAll
        <3> QED BY <3>1, <3>2
    <2>3. CASE C!CloseDone
        BY <2>3 DEF C!CloseDone
    <2>4. ASSUME NEW s \in DOMAIN mapping, C!Spawn(s) PROVE C!TypeOK' /\ RunnersOK'
        BY <2>4 DEF C!Spawn
    <2>5. ASSUME NEW s \in DOMAIN mapping, C!StartRunner(s) PROVE C!TypeOK' /\ RunnersOK'
        BY <2>5 DEF C!StartRunner
    <2>6. ASSUME NEW s \in DOMAIN mapping, C!FailToStart(s) PROVE C!TypeOK' /\ RunnersOK'
        BY <2>6 DEF C!FailToStart
    <2>7. ASSUME NEW s \in DOMAIN mapping, C!RunnerReturns(s) PROVE C!TypeOK' /\ RunnersOK'
        BY <2>7 DEF C!RunnerReturns
    <2> QED BY <2>1, <2>2, <2>3, <2>4, <2>5, <2>6, <2>7 DEF CoordinatorStep
<1>4. CoordinatorOK'
    BY <1>1, <1>2, <1>3 DEF CoordinatorOK, Multi
<1> QED BY <1>2, <1>3, <1>4

LEMMA CoordinatorRunsInv == IInv /\ CoordinatorRuns => IInv'
<1> SUFFICES ASSUME IInv, CoordinatorRuns PROVE IInv'
    OBVIOUS
<1>1. /\ stage = "running" /\ Multi /\ CoordinatorStep
      /\ UNCHANGED <<startState, trackerVars>>
    BY DEF CoordinatorRuns, CoordinatorStep, C!RunNext, Running, startState
<1>2. CoordinatorOK' /\ RunnersOK' /\ UNCHANGED <<mapping, ctxDone>>
    BY <1>1, CoordinatorStepFacts DEF startState
<1>3. \A s \in DOMAIN mapping : runner[s] = "running" => runner'[s] = "running"
    <2>1. runner \in [DOMAIN mapping -> {"none", "starting", "running", "exited"}]
        BY <1>1 DEF IInv, CoordinatorOK, C!TypeOK
    <2> QED BY <2>1 DEF CoordinatorRuns, C!RunNext, C!Register, C!WaitAll, C!CloseDone,
                        C!Spawn, C!StartRunner, C!FailToStart
<1>4. BusyRunnersWork'
    BY <1>1, <1>2, <1>3 DEF IInv, BusyRunnersWork, Working, Running, startState, trackerVars
<1>5. TrackerOK'
    BY <1>1, <1>2, TrackerFrame DEF IInv, TrackerOK
<1> QED BY <1>1, <1>2, <1>4, <1>5, StartFrame DEF IInv, TrackerOK

LEMMA RunnerReturnsInv ==
    ASSUME IInv, NEW r \in Runners, RunnerReturns(r)
    PROVE  IInv'
<1>1. /\ stage = "running" /\ Working(r) /\ stamp[r] = T!Never
      /\ UNCHANGED <<stage, startVars, server, exitCode, trackerVars>>
    BY DEF RunnerReturns, Working, Running
<1>2. CASE r = Solo
    <2>1. /\ solo = "running" /\ cancelled /\ solo' = "exited" /\ UNCHANGED coordinatorVars
        BY <1>1, <1>2 DEF RunnerReturns, Working
    <2>2. ctxDone /\ ~Multi /\ UNCHANGED <<mapping, runner, ctxDone>>
        BY <2>1 DEF IInv, CoordinatorOK, ModeIsKept, coordinatorVars
    <2>3. StagesOK' /\ FilesOK' /\ EnvironmentOK' /\ SourceIsKept' /\ ModeIsKept'
        BY <1>1, <2>1, <2>2 DEF IInv, StagesOK, FilesOK, EnvironmentOK, SourceIsKept,
                                ModeIsKept, Starting, startVars, Running, Multi
    <2>4. CoordinatorOK' /\ TrackerOK'
        BY <1>1, <2>1, <2>2, CoordinatorFrame, TrackerFrame DEF IInv, TrackerOK
    <2>5. RunnersOK'
        BY <2>1, <2>2 DEF IInv, RunnersOK, WaitIsOver, coordinatorVars
    <2>6. BusyRunnersWork'
        BY <1>1, <1>2, <2>1, <2>2 DEF IInv, BusyRunnersWork, Working, Running, trackerVars
    <2>7. NothingLeftBehind' /\ NormalExitIsShutdown'
        BY <1>1 DEF IInv, StagesOK, NoCode, NothingLeftBehind, NormalExitIsShutdown
    <2> QED BY <2>3, <2>4, <2>5, <2>6, <2>7 DEF IInv, TrackerOK
<1>3. CASE r # Solo
    <2>1. /\ r \in DOMAIN mapping /\ C!RunnerReturns(r) /\ UNCHANGED solo
        BY <1>1, <1>3 DEF RunnerReturns, Working
    <2>2. Multi
        BY <2>1 DEF Multi, NoStacks
    <2>3. CoordinatorOK' /\ RunnersOK' /\ UNCHANGED <<mapping, ctxDone>>
        BY <2>1, <2>2, CoordinatorStepFacts DEF CoordinatorStep
    <2>4. UNCHANGED startState
        BY <1>1, <2>1 DEF startState
    <2>5. \A s \in DOMAIN mapping \ {r} : runner'[s] = runner[s]
        BY <2>1, <2>2 DEF IInv, CoordinatorOK, C!TypeOK, C!RunnerReturns
    <2>6. BusyRunnersWork'
        BY <1>1, <2>3, <2>4, <2>5 DEF IInv, BusyRunnersWork, Working, Running, startState,
                                      trackerVars
    <2>7. TrackerOK'
        BY <1>1, <2>3, TrackerFrame DEF IInv, TrackerOK
    <2> QED BY <1>1, <2>3, <2>4, <2>6, <2>7, StartFrame DEF IInv, TrackerOK
<1> QED BY <1>2, <1>3

-----------------------------------------------------------------------------
(* The tracker, the server and the environment                             *)

LEMMA TrackerTypes == T!TypeOK /\ T!Next => T!TypeOK'
<1> SUFFICES ASSUME T!TypeOK, T!Next PROVE T!TypeOK'
    OBVIOUS
<1> USE DEF T!TypeOK, T!Never
<1>1. ASSUME NEW r \in Runners, T!ReadClock(r) PROVE T!TypeOK'
    BY <1>1 DEF T!ReadClock
<1>2. ASSUME NEW r \in Runners, T!RecordCycle(r) PROVE T!TypeOK'
    <2>1. lastCycle' = stamp[r] /\ stamp[r] # 0 /\ ready' = TRUE
        BY <1>2 DEF T!RecordCycle
    <2>2. ready' = (lastCycle' # 0)
        BY <2>1, Zenon
    <2>3. /\ clock' \in 1..MaxTime /\ lastCycle' \in 0..clock'
          /\ stamp' \in [Runners -> 0..clock']
        BY <1>2, <2>1 DEF T!RecordCycle
    <2> QED BY <1>2, <2>2, <2>3 DEF T!RecordCycle
<1>3. ASSUME NEW q \in Probes, T!DecideHealth(q) PROVE T!TypeOK'
    BY <1>3 DEF T!DecideHealth, T!Healthy
<1>4. ASSUME NEW q \in Probes, T!DecideReady(q) PROVE T!TypeOK'
    BY <1>4 DEF T!DecideReady
<1>5. ASSUME NEW q \in Probes, T!Respond(q) PROVE T!TypeOK'
    <2> DEFINE Requests == [at : {"idle", "decided", "answered"},
                            kind : {"none", "health", "ready"}, ok : BOOLEAN,
                            asked : 0..clock, shown : 0..clock]
               x == [probe[q] EXCEPT !.at = "answered", !.shown = lastCycle]
    <2>1. probe[q] \in Requests /\ lastCycle \in 0..clock
        OBVIOUS
    <2>2. x \in Requests
        BY <2>1
    <2>3. probe' = [probe EXCEPT ![q] = x]
        BY <1>5 DEF T!Respond
    <2> HIDE DEF x
    <2>4. probe' \in [Probes -> Requests]
        BY <2>2, <2>3
    <2> QED BY <1>5, <2>4 DEF T!Respond
<1>6. ASSUME NEW q \in Probes, T!Forget(q) PROVE T!TypeOK'
    BY <1>6 DEF T!Forget, T!NoProbe
<1>7. CASE T!Advance
    BY <1>7, ProcessAssumption DEF T!Advance
<1> QED BY <1>1, <1>2, <1>3, <1>4, <1>5, <1>6, <1>7 DEF T!Next

(* A step of the tracker keeps the rest of the invariant, if it keeps what *)
(* the tracker and the runners have to do with each other.                 *)
LEMMA TrackerStepInv ==
    ASSUME IInv, stage # "exited", UNCHANGED <<startState, coordinatorVars>>, T!Next,
           BusyRunnersWork', TimeGoesForward', ReadyIsJustified', HealthIsJustified'
    PROVE  IInv'
<1>1. RunnersOK' /\ CoordinatorOK' /\ UNCHANGED mapping
    BY CoordinatorFrame DEF IInv, RunnersOK, WaitIsOver, coordinatorVars, startState
<1> QED BY <1>1, TrackerTypes, StartFrame DEF IInv

LEMMA CycleInv ==
    ASSUME IInv, NEW r \in Runners, CycleEnds(r) \/ CycleRecorded(r)
    PROVE  IInv'
<1>1. /\ Working(r) /\ stage = "running"
      /\ UNCHANGED <<startState, coordinatorVars, mapping, runner>>
    BY DEF CycleEnds, CycleRecorded, Working, Running, startState, coordinatorVars
<1>2. T!TypeOK /\ Working(r)'
    BY <1>1 DEF IInv, Working, Running, startState
<1>3. CASE T!ReadClock(r)
    <2>1. /\ stamp' = [stamp EXCEPT ![r] = clock]
          /\ UNCHANGED <<clock, lastCycle, ready, probe>>
        BY <1>3 DEF T!ReadClock
    <2>2. BusyRunnersWork'
        BY <1>1, <1>2, <2>1 DEF IInv, BusyRunnersWork, Working, Running, T!TypeOK, startState
    <2>3. TimeGoesForward'
        BY <1>1, <1>2, <2>1 DEF IInv, TimeGoesForward, Multi, T!TypeOK, T!Never
    <2>4. ReadyIsJustified' /\ HealthIsJustified'
        BY <1>1, <2>1 DEF IInv, ReadyIsJustified, HealthIsJustified, Shown, Said, Multi
    <2> QED BY <1>1, <1>3, <2>2, <2>3, <2>4, TrackerStepInv DEF T!Next
<1>4. CASE T!RecordCycle(r)
    <2>1. /\ stamp[r] # 0 /\ lastCycle' = stamp[r] /\ ready' = TRUE
          /\ stamp' = [stamp EXCEPT ![r] = 0]
          /\ UNCHANGED <<clock, probe>>
        BY <1>4 DEF T!RecordCycle, T!Never
    <2>2. BusyRunnersWork'
        BY <1>1, <1>2, <2>1 DEF IInv, BusyRunnersWork, Working, Running, T!TypeOK, T!Never,
                                startState
    <2>3. ~Multi => \A x \in Runners \ {r} : stamp[x] = 0
        <3>1. ~Multi => DOMAIN mapping = {}
            BY DEF Multi, NoStacks
        <3> QED BY <1>1, <3>1 DEF IInv, BusyRunnersWork, Working, T!Never
    <2>4. TimeGoesForward'
        BY <1>1, <1>2, <2>1, <2>3 DEF TimeGoesForward, Multi, T!TypeOK, T!Never
    <2>5. ReadyIsJustified'
        BY <1>2, <2>1 DEF IInv, ReadyIsJustified, Shown, Said, T!TypeOK, T!Never
    <2>6. ~Multi => lastCycle <= lastCycle'
        BY <2>1 DEF IInv, TimeGoesForward, T!Never
    <2>7. HealthIsJustified'
        <3> SUFFICES ASSUME ~Multi, NEW q \in Probes, Said(q, "health")
                     PROVE  /\ Shown(q)' # T!Never
                            /\ probe[q].asked - Shown(q)' <= 2 * PollInterval
            BY <1>1, <2>1 DEF HealthIsJustified, Said, Multi
        <3>1. /\ Shown(q) # 0 /\ probe[q].asked - Shown(q) <= 2 * PollInterval
            BY DEF IInv, HealthIsJustified, T!Never
        <3>2. /\ probe[q].asked \in Int /\ probe[q].shown \in Int
              /\ lastCycle \in Int /\ lastCycle' \in Int /\ lastCycle' # 0
            BY <1>2, <2>1 DEF T!TypeOK, T!Never
        <3>3. CASE probe[q].at = "decided"
            <4>1. Shown(q) = lastCycle /\ Shown(q)' = lastCycle'
                BY <2>1, <3>3 DEF Shown
            <4> QED BY <2>6, <3>1, <3>2, <4>1, ProcessAssumption DEF T!Never
        <3>4. CASE probe[q].at # "decided"
            BY <2>1, <3>1, <3>4 DEF Shown, T!Never
        <3> QED BY <3>3, <3>4
    <2> QED BY <1>1, <1>4, <2>2, <2>4, <2>5, <2>7, TrackerStepInv DEF T!Next
<1> QED BY <1>3, <1>4 DEF CycleEnds, CycleRecorded

LEMMA RequestInv ==
    ASSUME IInv, NEW q \in Probes, HandleRequest(q)
    PROVE  IInv'
<1>1. /\ stage # "exited" /\ UNCHANGED <<startState, coordinatorVars>>
      /\ T!DecideHealth(q) \/ T!DecideReady(q) \/ T!Respond(q) \/ T!Forget(q)
    BY DEF HandleRequest, Alive, startState
<1>2. UNCHANGED <<clock, lastCycle, ready, stamp>> /\ T!TypeOK
    BY <1>1 DEF IInv, T!DecideHealth, T!DecideReady, T!Respond, T!Forget
<1>3. BusyRunnersWork' /\ TimeGoesForward'
    BY <1>1, <1>2 DEF IInv, BusyRunnersWork, TimeGoesForward, Working, Running, Multi,
                      startState, coordinatorVars
<1>4. \A x \in Probes \ {q} : probe'[x] = probe[x]
    BY <1>1, <1>2 DEF T!TypeOK, T!DecideHealth, T!DecideReady, T!Respond, T!Forget
<1>5. /\ Said(q, "ready")' => Shown(q)' # T!Never
      /\ ~Multi /\ Said(q, "health")' => /\ Shown(q)' # T!Never
                                         /\ probe'[q].asked - Shown(q)' <= 2 * PollInterval
    <2>1. CASE T!DecideHealth(q)
        <3>1. probe'[q] = [at |-> "decided", kind |-> "health", ok |-> T!Healthy(clock),
                           asked |-> clock, shown |-> T!Never]
            BY <1>2, <2>1 DEF T!TypeOK, T!DecideHealth
        <3> QED BY <1>2, <3>1 DEF Said, Shown, T!Healthy
    <2>2. CASE T!DecideReady(q)
        <3>1. probe'[q] = [at |-> "decided", kind |-> "ready", ok |-> ready,
                           asked |-> clock, shown |-> T!Never]
            BY <1>2, <2>2 DEF T!TypeOK, T!DecideReady
        <3>2. ready => lastCycle # T!Never
            BY <1>2, Zenon DEF T!TypeOK
        <3>3. /\ probe'[q].at = "decided" /\ probe'[q].kind = "ready"
              /\ probe'[q].ok => lastCycle # T!Never
            BY <3>1, <3>2
        <3> QED BY <1>2, <3>3 DEF Said, Shown
    <2>3. CASE T!Respond(q)
        <3>1. /\ probe[q].at = "decided"
              /\ probe'[q] = [probe[q] EXCEPT !.at = "answered", !.shown = lastCycle]
            BY <1>2, <2>3 DEF T!TypeOK, T!Respond
        <3>2. /\ probe'[q].at = "answered" /\ probe'[q].shown = lastCycle
              /\ probe'[q].kind = probe[q].kind /\ probe'[q].ok = probe[q].ok
              /\ probe'[q].asked = probe[q].asked
            BY <1>2, <3>1 DEF T!TypeOK
        <3> QED BY <3>1, <3>2 DEF IInv, ReadyIsJustified, HealthIsJustified, Said, Shown
    <2>4. CASE T!Forget(q)
        <3>1. probe'[q] = T!NoProbe
            BY <1>2, <2>4 DEF T!TypeOK, T!Forget
        <3> QED BY <3>1 DEF Said, T!NoProbe
    <2> QED BY <1>1, <2>1, <2>2, <2>3, <2>4
<1>6. ReadyIsJustified' /\ HealthIsJustified'
    BY <1>1, <1>2, <1>4, <1>5 DEF IInv, ReadyIsJustified, HealthIsJustified, Said, Shown,
                                  Multi, coordinatorVars
<1> QED BY <1>1, <1>3, <1>6, TrackerStepInv DEF T!Next

LEMMA TimeInv == IInv /\ Time => IInv'
<1> SUFFICES ASSUME IInv, Time PROVE IInv'
    OBVIOUS
<1>1. /\ stage # "exited" /\ UNCHANGED <<startState, coordinatorVars>> /\ T!Advance
      /\ UNCHANGED <<lastCycle, stamp, probe>>
    BY DEF Time, Running, startState, T!Advance
<1>2. BusyRunnersWork' /\ TimeGoesForward' /\ ReadyIsJustified' /\ HealthIsJustified'
    BY <1>1 DEF IInv, BusyRunnersWork, TimeGoesForward, ReadyIsJustified, HealthIsJustified,
                Working, Running, Multi, Said, Shown, startState, coordinatorVars
<1> QED BY <1>1, <1>2, TrackerStepInv DEF T!Next

LEMMA EnvironmentInv == IInv /\ (Listen \/ ShutDown \/ Signal \/ Edit) => IInv'
<1> SUFFICES ASSUME IInv, Listen \/ ShutDown \/ Signal \/ Edit PROVE IInv'
    OBVIOUS
<1>1. /\ stage # "exited"
      /\ UNCHANGED <<stage, env, attempt, connection, path, solo, exitCode, mapping, runner,
                     trackerVars>>
    BY DEF Listen, ShutDown, Signal, Edit, Alive, C!CancelContext, C!runVars, startVars,
           coordinatorVars
<1>2. BusyRunnersWork' /\ TrackerOK'
    BY <1>1, TrackerFrame DEF IInv, TrackerOK, BusyRunnersWork, Working, Running, trackerVars
<1>3. CASE Listen \/ ShutDown
    <2>1. /\ UNCHANGED <<startVars, coordinatorVars>>
          /\ server' \in {"up", "failed", "down"}
        BY <1>3 DEF Listen, ShutDown
    <2>2. StagesOK' /\ FilesOK' /\ EnvironmentOK' /\ SourceIsKept' /\ ModeIsKept'
        BY <1>1, <2>1 DEF IInv, StagesOK, FilesOK, EnvironmentOK, SourceIsKept, ModeIsKept,
                          startVars, Running, Multi
    <2>3. NothingLeftBehind' /\ NormalExitIsShutdown'
        BY <1>1 DEF IInv, StagesOK, NoCode, NothingLeftBehind, NormalExitIsShutdown
    <2>4. CoordinatorOK' /\ RunnersOK'
        BY <1>1, <2>1, CoordinatorFrame DEF IInv, RunnersOK, WaitIsOver, coordinatorVars
    <2> QED BY <1>2, <2>2, <2>3, <2>4 DEF IInv, TrackerOK
<1>4. CASE Signal
    <2>1. /\ ctxDone' = TRUE /\ cancelled' = TRUE /\ UNCHANGED startState
          /\ UNCHANGED <<mapping, run, registered, doneClosed, runner, runnerErrors,
                         stopper, handle>>
        BY <1>4 DEF Signal, C!CancelContext, C!runVars, C!stopVars, startState
    <2>2. CoordinatorOK'
        BY <2>1 DEF IInv, CoordinatorOK, C!TypeOK, C!Startable, Multi
    <2>3. RunnersOK'
        BY <1>1, <2>1 DEF IInv, RunnersOK, WaitIsOver
    <2> QED BY <1>1, <1>2, <2>1, <2>2, <2>3, StartFrame DEF IInv, TrackerOK
<1>5. CASE Edit
    <2>1. /\ stage \in {"dial", "ping", "serve", "search", "read"} /\ edit' = "done"
          /\ UNCHANGED <<server, coordinatorVars>>
        BY <1>5 DEF Edit
    <2>2. FilesOK'
        <3>1. PICK p \in Places :
                \/ \E c \in Contents :
                      files' = [q \in DOMAIN files \cup {p} |-> IF q = p THEN c ELSE files[q]]
                \/ files' = [q \in DOMAIN files \ {p} |-> files[q]]
            BY <1>5 DEF Edit
        <3> QED BY <1>1, <2>1, <3>1, ProcessAssumption DEF IInv, FilesOK
    <2>3. StagesOK' /\ EnvironmentOK' /\ SourceIsKept' /\ ModeIsKept'
        BY <1>1, <2>1 DEF IInv, StagesOK, EnvironmentOK, SourceIsKept, ModeIsKept, Running,
                          Multi
    <2>4. NothingLeftBehind' /\ NormalExitIsShutdown'
        BY <1>1 DEF IInv, StagesOK, NoCode, NothingLeftBehind, NormalExitIsShutdown
    <2>5. CoordinatorOK' /\ RunnersOK'
        BY <1>1, <2>1, CoordinatorFrame DEF IInv, RunnersOK, WaitIsOver, coordinatorVars
    <2> QED BY <1>2, <2>2, <2>3, <2>4, <2>5 DEF IInv, TrackerOK
<1> QED BY <1>3, <1>4, <1>5

LEMMA StutterInv == IInv /\ UNCHANGED vars => IInv'
<1> SUFFICES ASSUME IInv, UNCHANGED vars PROVE IInv'
    OBVIOUS
<1> USE DEF vars, startVars, coordinatorVars, trackerVars
<1>1. StagesOK' /\ FilesOK' /\ EnvironmentOK' /\ SourceIsKept' /\ ModeIsKept'
    BY DEF IInv, StagesOK, FilesOK, EnvironmentOK, SourceIsKept, ModeIsKept, Running, Multi
<1>2. CoordinatorOK' /\ TrackerOK'
    BY CoordinatorFrame, TrackerFrame DEF IInv, TrackerOK
<1>3. RunnersOK' /\ BusyRunnersWork'
    BY DEF IInv, RunnersOK, WaitIsOver, BusyRunnersWork, Working, Running
<1>4. NothingLeftBehind' /\ NormalExitIsShutdown'
    BY DEF IInv, NothingLeftBehind, NormalExitIsShutdown, Multi
<1> QED BY <1>1, <1>2, <1>3, <1>4 DEF IInv, TrackerOK

LEMMA NextInv == IInv /\ [Next]_vars => IInv'
<1> SUFFICES ASSUME IInv, Next PROVE IInv'
    BY StutterInv
<1>1. CASE Main
    BY <1>1, StartInv, ReadInv, ReturnInv DEF Main
<1>2. ASSUME NEW r \in Runners, RunnerReturns(r) \/ CycleEnds(r) \/ CycleRecorded(r)
      PROVE  IInv'
    BY <1>2, RunnerReturnsInv, CycleInv
<1>3. ASSUME NEW q \in Probes, HandleRequest(q) PROVE IInv'
    BY <1>3, RequestInv
<1> QED BY <1>1, <1>2, <1>3, CoordinatorRunsInv, TimeInv, EnvironmentInv DEF Next

(* The invariant behind the theorems below (main.go:23-186).               *)
THEOREM ProcessInductive == Spec => []IInv
BY InitInv, NextInv, PTL DEF Spec

-----------------------------------------------------------------------------
(* The theorems                                                            *)

(* Types of the state of the process, the coordinator and the tracker, for *)
(* every mapping file and any number of stacks, requests and retries.      *)
THEOREM ProcessTypeCorrect == Spec => []TypeOK
<1>1. IInv => TypeOK
    BY DEF IInv, StagesOK, FilesOK, EnvironmentOK, CoordinatorOK, Starting, TypeOK
<1> QED BY <1>1, ProcessInductive, PTL

(* When the process ends no runner is in the middle of a cycle             *)
(* (main.go:135-186, coordinator.go:117-126).                              *)
THEOREM NothingIsLeftBehind == Spec => []NothingLeftBehind
<1>1. IInv => NothingLeftBehind
    BY DEF IInv
<1> QED BY <1>1, ProcessInductive, PTL

(* The process ends with status 0 only if it was told to, or if none of    *)
(* its stacks can start (main.go:174-186, coordinator.go:94-95).           *)
THEOREM NormalExitsAreShutdowns == Spec => []NormalExitIsShutdown
<1>1. IInv => NormalExitIsShutdown
    BY DEF IInv
<1> QED BY <1>1, ProcessInductive, PTL

(* A process that runs has one mode, a usable URL in single-stack mode and *)
(* the TLS asked for, whatever edits its mapping files see while it starts *)
(* (config.go:200-210); without an edit it has no mapping beside a URL     *)
(* (config.go:247-252).                                                    *)
THEOREM RunsAsItWasTold == Spec => []RunsAsConfigured
<1>1. IInv => RunsAsConfigured
    <2> SUFFICES ASSUME IInv, Running PROVE RunsAsConfigured
        BY DEF RunsAsConfigured
    <2>1. /\ Multi <=> solo = "none"
          /\ solo # "none" => FetcherBuilt(env.url)
        BY DEF IInv, ModeIsKept
    <2>2. edit # "done" => (Multi <=> env.url = "unset")
        BY DEF IInv, SourceIsKept
    <2>3. /\ connection = Connection(env)
          /\ env.host = "https" => TLSEnabled(env)
        BY DEF IInv, EnvironmentOK, Running
    <2>4. TLSVerify(env) => connection = "verified"
        BY <2>3 DEF Connection, TLSEnabled
    <2>5. env.host = "https" => connection # "plain"
        BY <2>3 DEF Connection
    <2> QED BY <2>1, <2>2, <2>4, <2>5 DEF RunsAsConfigured, TLSVerify
<1> QED BY <1>1, ProcessInductive, PTL

(* A 200 of /readyz, and without a coordinator also of /healthz, shows a   *)
(* cycle that justifies it (handlers.go:14-31, tracker.go:34).             *)
THEOREM EveryAnswerIsJustified == Spec => []AnswersAreJustified
<1>1. IInv => AnswersAreJustified
    <2> SUFFICES ASSUME IInv PROVE AnswersAreJustified
        OBVIOUS
    <2>1. T!ReadyAnswerIsJustified
        BY DEF IInv, ReadyIsJustified, T!ReadyAnswerIsJustified, T!Answered, Said, Shown
    <2>2. solo # "none" => T!HealthyAnswerIsJustified
        BY DEF IInv, ModeIsKept, HealthIsJustified, T!HealthyAnswerIsJustified, T!Answered,
               Said, Shown
    <2> QED BY <2>1, <2>2 DEF AnswersAreJustified
<1> QED BY <1>1, ProcessInductive, PTL

=============================================================================
