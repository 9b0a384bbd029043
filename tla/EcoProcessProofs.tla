--------------------------- MODULE EcoProcessProofs ---------------------------
(***************************************************************************)
(* Theorems about EcoProcess, for any requests, workers, buffer and rate,  *)
(* and whatever the environment holds: the process is a server, and it     *)
(* releases nothing that is still in use.                                  *)
(***************************************************************************)
EXTENDS EcoProcess, EcoServerProofs

LEMMA ServerStepOrStutter == [ProcessNext]_processVars => [Next]_vars
<1>. SUFFICES ASSUME [ProcessNext]_processVars PROVE Next \/ UNCHANGED vars
  OBVIOUS
<1>1. CASE Load \/ MakeProvider \/ MakeCache \/ MakeEstimator
  BY <1>1 DEF Load, MakeProvider, MakeCache, NewRedis, MakeEstimator, Starting
<1>2. CASE Deferred
  BY <1>2 DEF Deferred
<1>3. CASE Fail
  BY <1>3 DEF Fail, Gone, Next, Main
<1>4. CASE Serve(Next)
  BY <1>4 DEF Serve
<1>5. CASE UNCHANGED processVars
  BY <1>5 DEF processVars
<1>. QED BY <1>1, <1>2, <1>3, <1>4, <1>5 DEF ProcessNext, Startup

\* The process takes the server's steps only: what EcoServer promises, it keeps,
\* whatever comes of its startup.
THEOREM ProcessRunsServer == ProcessSpec => Spec
<1>1. ProcessInit => Init
  BY DEF ProcessInit
<1>. QED BY <1>1, ServerStepOrStutter, PTL DEF ProcessSpec, Spec

------------------------------------------------------------------------------
(* What is released, and when. *)

LEMMA FrontAndLast ==
  ASSUME NEW S, NEW s \in Seq(S), s # <<>>
  PROVE  /\ Front(s) \in Seq(S)
         /\ Last(s) \in S
         /\ ToSet(s) = ToSet(Front(s)) \cup {Last(s)}
<1>1. Len(s) \in Nat \ {0} /\ DOMAIN s = 1..Len(s)
  OBVIOUS
<1>2. /\ Len(Front(s)) = Len(s) - 1 /\ Front(s) \in Seq(S)
      /\ \A i \in 1..Len(s) - 1 : Front(s)[i] = s[i]
  BY <1>1 DEF Front
<1>3. DOMAIN Front(s) = 1..Len(s) - 1
  BY <1>2
<1>4. 1..Len(s) = (1..Len(s) - 1) \cup {Len(s)}
  BY <1>1
<1>. QED BY <1>1, <1>2, <1>3, <1>4 DEF Last, ToSet

LEMMA AppendAll ==
  ASSUME NEW S, NEW s \in Seq(S), NEW x \in S
  PROVE  /\ Append(s, x) \in Seq(S) /\ Append(s, x) # <<>>
         /\ Last(Append(s, x)) = x
         /\ ToSet(Append(s, x)) = ToSet(s) \cup {x}
<1>1. /\ Append(s, x) \in Seq(S) /\ Len(Append(s, x)) = Len(s) + 1
      /\ \A i \in 1..Len(s) : Append(s, x)[i] = s[i]
      /\ Append(s, x)[Len(s) + 1] = x
  OBVIOUS
<1>2. Len(s) \in Nat /\ 1..Len(s) + 1 = (1..Len(s)) \cup {Len(s) + 1}
  OBVIOUS
<1>3. DOMAIN s = 1..Len(s) /\ DOMAIN Append(s, x) = 1..Len(s) + 1
  BY <1>1
<1>. QED BY <1>1, <1>2, <1>3 DEF Last, ToSet

\* cancelWorker is the last call to be deferred and the first to be made; what is
\* open has a deferred call, or is a Redis client that did not answer its ping.
Underway == main \notin {"unwound", "exited", "aborted"}

DeferredInOrder ==
  /\ deferred \in Seq(Calls) /\ open \subseteq Resources
  /\ phase \notin {"ready", "failed"} => main = "boot"
  /\ phase = "failed" => main \in {"boot", "aborted"}
  /\ phase # "ready" => listener = "off"
  /\ phase = "ready" /\ Underway => deferred # <<>> /\ Last(deferred) = "cancelWorker"
  /\ open \subseteq ToSet(deferred) \cup (IF phase = "failed" THEN {"redis"} ELSE {})
  /\ phase = "ready" /\ main \in {"unwound", "aborted"} => cancelled
  /\ main = "exited" => W!Running = {}

LEMMA DeferredInOrderInit == ProcessInit => DeferredInOrder
BY DEF ProcessInit, Init, DeferredInOrder, ToSet

\* The server's steps at the end of main's way: each end is reached from one
\* place, and nothing is left to do there.
WayOut ==
  /\ main \in {"exited", "aborted"} => UNCHANGED vars
  /\ main = "unwound" => main' \in {"unwound", "aborted"} /\ cancelled' = cancelled
  /\ main' = "unwound" => main = "unwound" \/ (main = "unwind" /\ cancelled')
  /\ main' = "aborted" => main \in {"aborted", "unwound", "boot"}
  /\ main' = "exited" => main = "exited" \/ (main = "wait" /\ W!Running' = {})

LEMMA ServerWayOut == Next => WayOut
<1>. SUFFICES ASSUME Next PROVE WayOut
  OBVIOUS
<1>1. ASSUME NEW r \in Requests, Request(r) PROVE WayOut
  <2>1. Alive /\ main' = main /\ cancelled' = cancelled
    BY <1>1 DEF Request, Sampled, NotSampled, HandlerReturns, HandlerPanics, Offer,
       CountDrop, W!Send, W!Refuse, W!CountDrop, mainVars, workerVars, Serving, Alive
  <2>. QED BY <2>1 DEF WayOut, Alive
<1>2. ASSUME NEW w \in Workers, WorkerStep(w) PROVE WayOut
  <2>1. Alive /\ main' = main /\ cancelled' = cancelled
    BY <1>2 DEF WorkerStep, W!Work, W!Receive, W!Exit, W!CheckContext, W!Observe,
       W!ObserveOnly, W!SaveOK, W!SaveError, W!EndSave, mainVars
  <2>. QED BY <2>1 DEF WayOut, Alive
<1>3. CASE Signal \/ ListenFails \/ PostQuit
  BY <1>3 DEF Signal, ListenFails, PostQuit, workerVars, WayOut, Alive
<1>4. CASE Main
  <2>1. CASE Boot \/ BootFails \/ ReceiveQuit \/ ShutdownBusy \/ ShutdownQuiescent
             \/ ShutdownTimeout
    BY <2>1 DEF Boot, BootFails, ReceiveQuit, ShutdownBusy, ShutdownQuiescent,
       ShutdownTimeout, MainStep, WayOut
  <2>2. CASE CancelWorker \/ StopClose \/ DeferredCancel
    BY <2>2 DEF CancelWorker, StopClose, DeferredCancel, MainStep, W!Cancel, WayOut
  <2>3. CASE StopWaited
    BY <2>3 DEF StopWaited, MainStep, W!Running, workerVars, WayOut
  <2>4. CASE Abort
    BY <2>4 DEF Abort, MainStep, workerVars, WayOut
  <2>. QED BY <1>4, <2>1, <2>2, <2>3, <2>4 DEF Main
<1>5. CASE Gone
  BY <1>5 DEF Gone, Alive, vars, mainVars, workerVars, W!Running, WayOut
<1>. QED BY <1>1, <1>2, <1>3, <1>4, <1>5 DEF Next

\* AppendAll for a call that is deferred.
LEMMA Appended ==
  ASSUME deferred \in Seq(Calls)
  PROVE  \A x \in Calls :
           /\ Append(deferred, x) \in Seq(Calls) /\ Append(deferred, x) # <<>>
           /\ Last(Append(deferred, x)) = x
           /\ ToSet(Append(deferred, x)) = ToSet(deferred) \cup {x}
BY AppendAll

LEMMA DeferredInOrderNext ==
  DeferredInOrder /\ [ProcessNext]_processVars => DeferredInOrder'
<1>. SUFFICES ASSUME DeferredInOrder, [ProcessNext]_processVars PROVE DeferredInOrder'
  OBVIOUS
\* What the invariant says of the server's variables stands while they stand.
<1>0. UNCHANGED vars => UNCHANGED <<main, listener, cancelled>> /\ W!Running' = W!Running
  BY DEF vars, mainVars, workerVars, W!Running
<1>. USE DEF Resources, Calls
<1>1. CASE Load
  BY <1>0, <1>1 DEF Load, Starting, DeferredInOrder, Underway
<1>2. CASE MakeProvider
  BY <1>0, <1>2, Appended DEF MakeProvider, Starting, DeferredInOrder, Underway
<1>3. CASE MakeCache
  BY <1>0, <1>3, Appended DEF MakeCache, NewRedis, Starting, DeferredInOrder, Underway
<1>4. CASE MakeEstimator
  BY <1>0, <1>4, Appended DEF MakeEstimator, Starting, DeferredInOrder, Underway
\* The call that is made is the one whose resource is released.
<1>5. CASE Deferred
  <2>1. /\ Front(deferred) \in Seq(Calls)
        /\ ToSet(deferred) = ToSet(Front(deferred)) \cup {Last(deferred)}
    BY <1>5, FrontAndLast DEF Deferred, DeferredInOrder
  <2>2. phase = "ready" => ~Underway
    BY <1>5 DEF Deferred, Returning, Underway
  <2>. QED BY <1>0, <1>5, <2>1, <2>2 DEF Deferred, DeferredInOrder, Underway
<1>6. CASE Fail
  <2>1. main' = "aborted" /\ listener' = listener
    BY <1>0, <1>6 DEF Fail, BootFails, Gone, Alive, DeferredInOrder
  <2>. QED BY <1>6, <2>1 DEF Fail, startVars, DeferredInOrder, Underway
<1>7. CASE Serve(Next)
  <2>1. WayOut /\ phase = "ready" /\ phase' = phase /\ open' = open
    BY <1>7, ServerWayOut DEF Serve
  <2>2. CASE main = "unwind" /\ main' = "unwound"
    <3>1. /\ deferred' = Front(deferred) /\ Last(deferred) = "cancelWorker"
          /\ deferred # <<>> /\ deferred \in Seq(Calls)
      BY <1>7, <2>1, <2>2 DEF Serve, DeferredInOrder, Underway
    <3>2. /\ deferred' \in Seq(Calls)
          /\ ToSet(deferred) = ToSet(deferred') \cup {"cancelWorker"}
      BY <3>1, FrontAndLast
    <3>. QED BY <2>1, <2>2, <3>2 DEF WayOut, DeferredInOrder, Underway
  <2>3. CASE ~(main = "unwind" /\ main' = "unwound")
    <3>1. deferred' = deferred /\ (main' = "aborted" => deferred = <<>>)
      BY <1>7, <2>3 DEF Serve
    \* BootFails is none of its steps: cancelWorker is still to be called.
    <3>2. main' = "aborted" => main \in {"unwound", "aborted"}
      BY <2>1, <3>1 DEF WayOut, DeferredInOrder, Underway
    <3>3. main' \in {"unwound", "aborted"} => cancelled'
      BY <1>0, <2>1, <2>3, <3>2 DEF WayOut, DeferredInOrder
    <3>4. main' = "exited" => W!Running' = {}
      BY <1>0, <2>1 DEF WayOut, DeferredInOrder
    <3>5. Underway' => Underway
      BY <1>0, <2>1 DEF WayOut, Underway
    <3>. QED BY <2>1, <3>1, <3>3, <3>4, <3>5 DEF DeferredInOrder
  <2>. QED BY <2>2, <2>3
<1>8. CASE UNCHANGED processVars
  BY <1>0, <1>8 DEF processVars, startVars, DeferredInOrder, Underway
<1>. QED BY <1>1, <1>2, <1>3, <1>4, <1>5, <1>6, <1>7, <1>8 DEF ProcessNext, Startup

\* Nothing is released under a handler or a worker that may go on using it,
\* unless run returns an error and the workers have been cancelled; and the
\* process leaves nothing open but a Redis client that did not answer.
THEOREM ReleasedInOrder == ProcessSpec => []ReleaseDiscipline
<1>1. ProcessSpec => []DeferredInOrder
  BY DeferredInOrderInit, DeferredInOrderNext, PTL DEF ProcessSpec
<1>2. ProcessSpec => []ShutdownOrder
  BY ProcessRunsServer, ShutdownOrderInit, ShutdownOrderNext, PTL DEF Spec
<1>3. DeferredInOrder /\ ShutdownOrder => ReleaseDiscipline
  <2>. SUFFICES ASSUME DeferredInOrder, ShutdownOrder PROVE ReleaseDiscipline
    OBVIOUS
  <2>1. deferred # <<>> => Last(deferred) \in ToSet(deferred)
    BY FrontAndLast DEF DeferredInOrder
  <2>2. ToSet(<<>>) = {}
    BY DEF ToSet
  <2>3. ASSUME phase = "ready", "cancelWorker" \notin ToSet(deferred)
        PROVE  \/ InFlight = {} /\ W!Running = {}
               \/ main \in {"unwound", "aborted"} /\ cancelled
    BY <2>1, <2>3 DEF DeferredInOrder, ShutdownOrder, Underway
  <2>4. ASSUME ~Alive, deferred = <<>>
        PROVE  open = {} \/ (open = {"redis"} /\ listener = "off")
    BY <2>2, <2>4 DEF DeferredInOrder
  <2>. QED BY <2>3, <2>4 DEF ReleaseDiscipline
<1>. QED BY <1>1, <1>2, <1>3, PTL

\* Whatever the environment holds, nobody sends on the closed channel.
THEOREM ProcessNeverSendsOnClosed == ProcessSpec => []NoSendOnClosed
BY ProcessRunsServer, NeverSendOnClosed, PTL

\* Whatever the environment holds, the books balance after a clean exit.
THEOREM ProcessAccounts == ProcessSpec => []CleanExitAccounts
BY ProcessRunsServer, CleanExit, PTL

\* From an unread environment to its last deferred call, the process keeps the
\* ledger: no trace is recorded or stored that was not accepted (main.go:65-238).
THEOREM ProcessKeepsLedger == ProcessSpec => Ledger!Spec
BY ProcessRunsServer, ServerKeepsLedger

\* So does what EcoServerProofs says of the hot path and of a clean exit.
THEOREM ProcessExitsClean ==
  ProcessSpec => [](HotPathOpen /\ CleanExitDrained /\ FullRateAllButPanics)
BY ProcessRunsServer, HotPathStaysOpen, DrainsOnCleanExit, FullRateLosesOnlyPanics, PTL

------------------------------------------------------------------------------
(* What config.Load has let pass. *)

EnvTyped == \A s \in Settings : env[s] \in Texts(s)

Passed == phase \in {"provider", "cache", "estimator", "ready"} => Valid

Checked == EnvTyped /\ Passed

LEMMA BaseTyped == \A s \in Settings : Base[s] \in Texts(s)
<1>1. \A s : Unset \in Texts(s)
  BY Zenon DEF Texts
<1>2. Texts("JWT_SECRET") = {Unset} \cup {31, 32}
  BY DEF Texts, Floats
<1>3. 32 \in Texts("JWT_SECRET")
  BY <1>2
<1>. QED BY <1>1, <1>3 DEF Base

LEMMA Defaults ==
  /\ Default["CO2_PUE"] = 120 /\ Default["CO2_TDP_WATTS"] = 400
  /\ Default["ECO_WORKER_BUFFER"] = 512 /\ Default["ECO_WORKER_COUNT"] = 4
  /\ Default["ECO_SAMPLE_RATE"] = 100
<1>1. Default["CO2_PUE"] = 120
  BY DEF Default, Settings
<1>2. Default["CO2_TDP_WATTS"] = 400
  BY DEF Default, Settings
<1>3. Default["ECO_WORKER_BUFFER"] = 512
  BY DEF Default, Settings
<1>4. Default["ECO_WORKER_COUNT"] = 4
  BY DEF Default, Settings
<1>5. Default["ECO_SAMPLE_RATE"] = 100
  BY DEF Default, Settings
<1>. QED BY <1>1, <1>2, <1>3, <1>4, <1>5

\* The environment that stands for any once the server is up.
LEMMA BaseChecked == env' = Base => EnvTyped' /\ Valid'
<1>. SUFFICES ASSUME env' = Base PROVE EnvTyped' /\ Valid'
  OBVIOUS
<1>1. EnvTyped'
  BY BaseTyped DEF EnvTyped
<1>2. /\ Base["JWT_SECRET"] = 32
      /\ \A s \in Settings \ {"JWT_SECRET"} : Base[s] = Unset
  BY DEF Base, Settings
<1>3. /\ cfg'["JWT_SECRET"] = 32
      /\ \A s \in Settings \ {"JWT_SECRET"} : cfg'[s] = Default[s]
  BY <1>2, TextsAssumption DEF cfg, Settings
<1>4. /\ cfg'["CO2_PUE"] = 120 /\ cfg'["CO2_TDP_WATTS"] = 400
      /\ cfg'["ECO_WORKER_BUFFER"] = 512 /\ cfg'["ECO_WORKER_COUNT"] = 4
      /\ cfg'["ECO_SAMPLE_RATE"] = 100
  BY <1>3, Defaults DEF Settings
<1>. QED BY <1>1, <1>3, <1>4 DEF Valid, Below, AtMost, Above

LEMMA CheckedNext == Checked /\ [ProcessNext]_processVars => Checked'
<1>. SUFFICES ASSUME Checked, [ProcessNext]_processVars PROVE Checked'
  OBVIOUS
<1>1. CASE env' = env
  <2>1. EnvTyped' /\ Valid' = Valid
    BY <1>1 DEF Checked, EnvTyped, Valid, cfg
  <2>2. phase' \in {"provider", "cache", "estimator", "ready"} => Valid
    <3>1. CASE Load
      BY <3>1 DEF Load, Starting
    <3>2. CASE MakeProvider \/ MakeCache \/ MakeEstimator
      BY <3>2 DEF MakeProvider, MakeCache, NewRedis, MakeEstimator, Starting, Checked, Passed
    <3>3. CASE Deferred \/ Fail \/ Serve(Next) \/ UNCHANGED processVars
      <4>1. phase' = phase
        BY <3>3 DEF Deferred, Fail, Serve, processVars, startVars
      <4>. QED BY <4>1 DEF Checked, Passed
    <3>. QED BY <3>1, <3>2, <3>3 DEF ProcessNext, Startup
  <2>. QED BY <2>1, <2>2 DEF Checked, Passed
<1>2. CASE env' = Base
  BY <1>2, BaseChecked DEF Checked, Passed
<1>3. env' = env \/ env' = Base
  BY DEF ProcessNext, Startup, Load, MakeProvider, MakeCache, NewRedis, MakeEstimator,
     Starting, Deferred, Fail, Serve, processVars, startVars
<1>. QED BY <1>1, <1>2, <1>3

LEMMA CheckedInit == ProcessInit => Checked
<1>. SUFFICES ASSUME ProcessInit PROVE Checked
  OBVIOUS
<1>1. PICK a \in Settings, b \in Settings :
        \E x \in Texts(a), y \in Texts(b) : env = [Base EXCEPT ![a] = x, ![b] = y]
  BY DEF ProcessInit
<1>2. PICK x \in Texts(a), y \in Texts(b) : env = [Base EXCEPT ![a] = x, ![b] = y]
  BY <1>1
<1>3. \A s \in Settings : Base[s] \in Texts(s)
  BY BaseTyped
<1>4. DOMAIN Base = Settings
  BY DEF Base
<1>5. EnvTyped
  BY <1>2, <1>3, <1>4 DEF EnvTyped
<1>. QED BY <1>5 DEF Checked, Passed, ProcessInit

\* What config.Load lets pass, no later layer refuses or changes, but for the
\* two cases that LayersAgree names.  (config.go:92-122, co2.go:43-55,
\* worker.go:43-51, sampler.go:30-38.)
THEOREM LayersNeverDisagree == ProcessSpec => []LayersAgree
<1>1. ASSUME Checked PROVE LayersAgree
  <2>. SUFFICES ASSUME Valid
                PROVE  /\ Estimable \/ AtMost(cfg["CO2_CARBON_INTENSITY"], 0)
                       /\ RateUsed = cfg["ECO_SAMPLE_RATE"]
                       /\ CountUsed = cfg["ECO_WORKER_COUNT"]
                       /\ BufferUsed # cfg["ECO_WORKER_BUFFER"] =>
                            cfg["ECO_WORKER_BUFFER"] = 0
    BY <1>1 DEF Checked, Passed, LayersAgree
  <2>1. \A s \in {"ECO_WORKER_COUNT", "ECO_WORKER_BUFFER"} :
          s \in Settings /\ Texts(s) = {Unset, Malformed, -1, 0, 1} /\ Default[s] \in Int
    BY DEF Settings, Texts, Floats, Default
  <2>2. \A s \in {"ECO_WORKER_COUNT", "ECO_WORKER_BUFFER"} : cfg[s] \in Int /\ cfg[s] # NaN
    <3>1. \A s \in {"ECO_WORKER_COUNT", "ECO_WORKER_BUFFER"} :
            cfg[s] = Default[s] \/ cfg[s] \in {-1, 0, 1}
      BY <1>1, <2>1 DEF Checked, EnvTyped, cfg
    <3>. QED BY <2>1, <3>1, TextsAssumption
  <2>3. Estimable \/ AtMost(cfg["CO2_CARBON_INTENSITY"], 0)
    BY DEF Valid, Estimable
  <2>4. RateUsed = cfg["ECO_SAMPLE_RATE"]
    BY DEF Valid, RateUsed
  <2>5. CountUsed = cfg["ECO_WORKER_COUNT"]
    BY <2>2 DEF Valid, CountUsed, Below
  <2>6. BufferUsed # cfg["ECO_WORKER_BUFFER"] => cfg["ECO_WORKER_BUFFER"] = 0
    BY <2>2 DEF Valid, BufferUsed, Below
  <2>. QED BY <2>3, <2>4, <2>5, <2>6
<1>2. Checked => LayersAgree
  BY <1>1
<1>. QED BY <1>2, CheckedInit, CheckedNext, PTL DEF ProcessSpec

------------------------------------------------------------------------------
(* Type correctness: no call is deferred twice. *)

LEMMA InjectiveAppend ==
  ASSUME NEW S, NEW s \in Seq(S), IsInjective(s), NEW x \in S, x \notin ToSet(s)
  PROVE  IsInjective(Append(s, x))
<1>1. /\ DOMAIN Append(s, x) = DOMAIN s \cup {Len(s) + 1}
      /\ Append(s, x)[Len(s) + 1] = x
      /\ \A i \in DOMAIN s : Append(s, x)[i] = s[i]
  OBVIOUS
<1>2. \A i \in DOMAIN s : s[i] # x
  BY DEF ToSet
<1>. QED BY ONLY <1>1, <1>2, IsInjective(s) DEF IsInjective

LEMMA InjectiveFront ==
  ASSUME NEW S, NEW s \in Seq(S), IsInjective(s), s # <<>>
  PROVE  IsInjective(Front(s))
<1>1. DOMAIN Front(s) \subseteq DOMAIN s /\ \A i \in DOMAIN Front(s) : Front(s)[i] = s[i]
  BY DEF Front
<1>. QED BY ONLY <1>1, IsInjective(s) DEF IsInjective

Phases == {"load", "provider", "cache", "estimator", "ready", "failed"}

DeferredOnce ==
  /\ phase \in Phases
  /\ IsInjective(deferred)
  /\ phase \in {"load", "provider"} => "provider" \notin ToSet(deferred)
  /\ phase \in {"load", "provider", "cache"} => "redis" \notin ToSet(deferred)
  /\ phase \in {"load", "provider", "cache", "estimator"} =>
       "cancelWorker" \notin ToSet(deferred)

LEMMA DeferredOnceNext ==
  DeferredOnce /\ DeferredInOrder /\ [ProcessNext]_processVars => DeferredOnce'
<1>. SUFFICES ASSUME DeferredOnce, DeferredInOrder, [ProcessNext]_processVars
              PROVE  DeferredOnce'
  OBVIOUS
<1>0. deferred \in Seq(Calls) /\ IsInjective(deferred) /\ Calls = Resources \cup {"cancelWorker"}
  BY DEF DeferredInOrder, DeferredOnce, Calls
<1>1. \A x \in {"provider", "redis", "cancelWorker"} :
        /\ x \notin ToSet(deferred) => IsInjective(Append(deferred, x))
        /\ ToSet(Append(deferred, x)) = ToSet(deferred) \cup {x}
  BY <1>0, InjectiveAppend, Appended DEF Resources
<1>2. CASE Load
  BY <1>2 DEF Load, Starting, DeferredOnce, Phases
<1>3. CASE MakeProvider
  <2>1. CASE phase' = "failed"
    BY <1>3, <2>1 DEF MakeProvider, Starting, DeferredOnce, Phases
  <2>2. CASE phase' # "failed"
    <3>1. phase = "provider" /\ phase' = "cache" /\ deferred' = Append(deferred, "provider")
      BY <1>3, <2>2 DEF MakeProvider, Starting
    <3>2. \A x \in {"provider", "redis", "cancelWorker"} : x \notin ToSet(deferred)
      BY ONLY <3>1, DeferredOnce DEF DeferredOnce
    <3>. QED BY ONLY <1>1, <3>1, <3>2 DEF DeferredOnce, Phases
  <2>. QED BY <2>1, <2>2
<1>4. CASE MakeCache
  <2>1. CASE deferred' = deferred
    BY <1>4, <2>1 DEF MakeCache, NewRedis, Starting, DeferredOnce, Phases
  <2>2. CASE deferred' # deferred
    <3>1. phase = "cache" /\ phase' = "estimator" /\ deferred' = Append(deferred, "redis")
      BY <1>4, <2>2 DEF MakeCache, NewRedis, Starting
    <3>2. \A x \in {"redis", "cancelWorker"} : x \notin ToSet(deferred)
      BY ONLY <3>1, DeferredOnce DEF DeferredOnce
    <3>. QED BY ONLY <1>1, <3>1, <3>2 DEF DeferredOnce, Phases
  <2>. QED BY <2>1, <2>2
<1>5. CASE MakeEstimator
  BY <1>0, <1>1, <1>5, Appended DEF MakeEstimator, Starting, DeferredOnce, Phases
<1>6. CASE Deferred
  <2>1. phase' = phase /\ phase \in {"ready", "failed"} /\ IsInjective(deferred')
    BY <1>0, <1>6, InjectiveFront DEF Deferred, Returning, DeferredInOrder, DeferredOnce, Phases
  <2>. QED BY <2>1 DEF DeferredOnce, Phases
<1>7. CASE Fail \/ UNCHANGED processVars
  BY <1>7 DEF Fail, startVars, processVars, DeferredOnce
<1>8. CASE Serve(Next)
  <2>1. phase = "ready" /\ phase' = "ready"
    BY <1>8 DEF Serve
  <2>2. IsInjective(deferred')
    <3>1. CASE main = "unwind" /\ main' = "unwound"
      <4>1. deferred' = Front(deferred) /\ deferred # <<>>
        BY <1>8, <2>1, <3>1 DEF Serve, DeferredInOrder, Underway
      <4>. QED BY <1>0, <4>1, InjectiveFront
    <3>2. CASE ~(main = "unwind" /\ main' = "unwound")
      BY <1>0, <1>8, <3>2 DEF Serve
    <3>. QED BY <3>1, <3>2
  <2>. QED BY <2>1, <2>2 DEF DeferredOnce, Phases
<1>. QED BY <1>2, <1>3, <1>4, <1>5, <1>6, <1>7, <1>8 DEF ProcessNext, Startup

\* Type correctness of the process: a setting keeps to its texts, and no call is
\* deferred twice.
THEOREM ProcessTypes == ProcessSpec => []ProcessTypeOK
<1>1. ProcessInit => DeferredOnce
  BY DEF ProcessInit, DeferredOnce, Phases, IsInjective, ToSet
<1>2. TypeOK /\ Checked /\ DeferredInOrder /\ DeferredOnce => ProcessTypeOK
  BY DEF Checked, EnvTyped, DeferredInOrder, DeferredOnce, Phases, ProcessTypeOK
<1>. QED BY <1>1, <1>2, DeferredOnceNext, DeferredInOrderInit, DeferredInOrderNext,
       CheckedInit, CheckedNext, ProcessRunsServer, ServerTypes, PTL DEF ProcessSpec
===============================================================================
