----------------------------- MODULE EcoProcess -----------------------------
(***************************************************************************)
(* cmd/server/main.go from end to end: run reads and validates its         *)
(* configuration, builds the parts of the server one after the other,      *)
(* defers what releases them, hands over to the server of EcoServer, and   *)
(* runs the deferred calls in reverse when it returns, with an error or    *)
(* not.                                                                    *)
(*                                                                         *)
(* The environment is chosen once.  A setting's text is not set, does not  *)
(* parse, or is the number it parses to; floats are in hundredths.  The    *)
(* buffer and the rate that EcoServer goes on with are its constants,      *)
(* which stand for any that startup lets pass.  External: the prometheus   *)
(* exporter and the Redis server, either of which may fail at startup.     *)
(***************************************************************************)
EXTENDS EcoServer, SequencesExt

CONSTANTS
  Unset, Malformed,    \* texts that are no number
  NaN                  \* the float that compares with nothing

ASSUME TextsAssumption == {Unset, Malformed, NaN} \cap Int = {}

VARIABLES
  env,        \* what os.Getenv finds, until the server is up
  phase,      \* how far run has come before it starts the worker
  deferred,   \* run's deferred calls, by what they release, the latest last
  open        \* what has been opened and not been released

startVars == <<env, phase, deferred, open>>

------------------------------------------------------------------------------
\* config.Load.

\* A length, floats, counts, and REDIS_ADDR (1 if there is one).
Settings == {"JWT_SECRET", "CO2_PUE", "CO2_TDP_WATTS", "CO2_CARBON_INTENSITY",
             "CO2_MEMORY_WATTS_PER_GB", "ECO_SAMPLE_RATE", "ECO_WORKER_BUFFER",
             "ECO_WORKER_COUNT", "REDIS_ADDR"}
Floats   == {"CO2_PUE", "CO2_TDP_WATTS", "CO2_CARBON_INTENSITY",
             "CO2_MEMORY_WATTS_PER_GB", "ECO_SAMPLE_RATE"}

Infinity == 1000000    \* what "Inf" parses to: above every bound there is

Default == [s \in Settings |->
  CASE s = "CO2_PUE" -> 120                   [] s = "CO2_TDP_WATTS" -> 400
    [] s = "CO2_CARBON_INTENSITY" -> 10000    [] s = "CO2_MEMORY_WATTS_PER_GB" -> 37
    [] s = "ECO_SAMPLE_RATE" -> 100           [] s = "ECO_WORKER_BUFFER" -> 512
    [] s = "ECO_WORKER_COUNT" -> 4            [] OTHER -> 0]

\* The texts a setting is tried with: around each bound of the code.
Texts(s) ==
  {Unset} \cup
  CASE s = "JWT_SECRET" -> {31, 32}
    [] s = "REDIS_ADDR" -> {1}
    [] s \in Floats     -> {Malformed, NaN, -1, 0, 1, 99, 100, 101, Infinity}
    [] OTHER            -> {Malformed, -1, 0, 1}

\* Everything is left to its default but the secret and two more settings.
Base == [s \in Settings |-> IF s = "JWT_SECRET" THEN 32 ELSE Unset]

\* envStr, envInt and envFloat.
cfg == [s \in Settings |-> IF env[s] \in {Unset, Malformed} THEN Default[s] ELSE env[s]]

\* Go's comparisons of floats: none holds of a NaN.
Below(v, bound)  == v # NaN /\ v < bound
AtMost(v, bound) == v # NaN /\ v <= bound
Above(v, bound)  == v # NaN /\ v > bound

\* validate joins all its errors; one is enough.
ValidNoCount ==                                                       \* mutant
  /\ ~Below(cfg["JWT_SECRET"], 32)
  /\ ~Below(cfg["CO2_PUE"], 100) /\ ~AtMost(cfg["CO2_TDP_WATTS"], 0)
  /\ ~Below(cfg["ECO_WORKER_BUFFER"], 0)
  /\ ~Below(cfg["ECO_SAMPLE_RATE"], 0) /\ ~Above(cfg["ECO_SAMPLE_RATE"], 100)

Valid ==
  /\ ~Below(cfg["JWT_SECRET"], 32)
  /\ ~Below(cfg["CO2_PUE"], 100) /\ ~AtMost(cfg["CO2_TDP_WATTS"], 0)
  /\ ~Below(cfg["ECO_WORKER_BUFFER"], 0) /\ ~Below(cfg["ECO_WORKER_COUNT"], 1)
  /\ ~Below(cfg["ECO_SAMPLE_RATE"], 0) /\ ~Above(cfg["ECO_SAMPLE_RATE"], 100)

\* estimator.New.
Estimable ==
  /\ ~AtMost(cfg["CO2_TDP_WATTS"], 0) /\ ~Below(cfg["CO2_PUE"], 100)
  /\ ~AtMost(cfg["CO2_CARBON_INTENSITY"], 0)

\* WorkerConfig.withDefaults and newSampler, which look at the values again.
BufferUsed == IF cfg["ECO_WORKER_BUFFER"] <= 0 THEN 512 ELSE cfg["ECO_WORKER_BUFFER"]
CountUsed  == IF cfg["ECO_WORKER_COUNT"] <= 0 THEN 4 ELSE cfg["ECO_WORKER_COUNT"]
RateUsed   == IF Below(cfg["ECO_SAMPLE_RATE"], 0) THEN 0
              ELSE IF Above(cfg["ECO_SAMPLE_RATE"], 100) THEN 100
              ELSE cfg["ECO_SAMPLE_RATE"]

------------------------------------------------------------------------------
Resources == {"provider", "redis"}
Calls     == Resources \cup {"cancelWorker"}

ProcessTypeOK ==
  /\ TypeOK
  /\ \A s \in Settings : env[s] \in Texts(s)
  /\ phase \in {"load", "provider", "cache", "estimator", "ready", "failed"}
  /\ deferred \in Seq(Calls) /\ IsInjective(deferred)
  /\ open \subseteq Resources

ProcessInit ==
  /\ Init
  /\ \E a, b \in Settings : \E x \in Texts(a), y \in Texts(b) :
       env = [Base EXCEPT ![a] = x, ![b] = y]
  /\ phase = "load"
  /\ deferred = <<>>
  /\ open = {}

------------------------------------------------------------------------------
\* run up to worker.Start.

Starting(from, to) == phase = from /\ phase' = to /\ UNCHANGED <<env, vars>>

Load ==
  /\ Starting("load", IF Valid THEN "provider" ELSE "failed")
  /\ UNCHANGED <<deferred, open>>

\* The exporter may fail before there is anything to release.
MakeProvider ==
  \/ Starting("provider", "failed") /\ UNCHANGED <<deferred, open>>
  \/ /\ Starting("provider", "cache")
     /\ deferred' = Append(deferred, "provider")
     /\ open' = open \cup {"provider"}

\* NewRedis makes a client, with its pool of connections, and then pings; when
\* the ping fails nobody closes it.
NewRedis ==
  /\ open' = open \cup {"redis"}
  /\ \/ Starting("cache", "failed") /\ UNCHANGED deferred
     \/ /\ Starting("cache", "estimator")
        /\ deferred' = Append(deferred, "redis")

MakeCache ==
  \/ /\ cfg["REDIS_ADDR"] = 0
     /\ Starting("cache", "estimator")
     /\ UNCHANGED <<deferred, open>>
  \/ cfg["REDIS_ADDR"] # 0 /\ NewRedis

\* defer cancelWorker() comes with the context, right before worker.Start.
MakeEstimator ==
  /\ Starting("estimator", IF Estimable THEN "ready" ELSE "failed")
  /\ deferred' = IF Estimable THEN Append(deferred, "cancelWorker") ELSE deferred
  /\ UNCHANGED open

------------------------------------------------------------------------------
\* The server, whose Boot starts the worker.

\* run returns: the server's part of it is over, or has never begun.
ReturningOnSignal == phase = "failed" \/ main \notin {"boot", "serving"}  \* mutant
Returning == phase = "failed" \/ main \in {"unwound", "exited"}

\* What the server does.  Its DeferredCancel is the first of the deferred calls;
\* os.Exit comes after the last.
Serve(action) ==
  /\ phase = "ready"
  /\ action
  /\ main' = "aborted" => deferred = <<>>
  /\ deferred' = IF main = "unwind" /\ main' = "unwound" THEN Front(deferred) ELSE deferred
  /\ env' = Base
  /\ UNCHANGED <<phase, open>>

\* The provider's Shutdown, rc.Close; cancelWorker does nothing the second time.
Deferred ==
  /\ Returning /\ deferred # <<>>
  /\ deferred' = Front(deferred)
  /\ open' = open \ {Last(deferred)}
  /\ UNCHANGED <<vars, env, phase>>

\* os.Exit(1) of a process that has not come to serve.
Fail ==
  /\ phase = "failed" /\ deferred = <<>>
  /\ BootFails \/ Gone
  /\ UNCHANGED startVars

Startup == Load \/ MakeProvider \/ MakeCache \/ MakeEstimator \/ Deferred \/ Fail

ProcessNext == Startup \/ Serve(Next)

processVars == <<startVars, vars>>

ProcessSpec == ProcessInit /\ [][ProcessNext]_processVars

\* Main, the listener and the workers are scheduled and the 15 s timer fires.
\* A handler owes nothing: it may hang forever.
FairProcessSpec ==
  /\ ProcessSpec
  /\ WF_processVars(Startup)
  /\ WF_processVars(Serve(Main))
  /\ WF_processVars(Serve(PostQuit))
  /\ \A w \in Workers : WF_processVars(Serve(WorkerStep(w)))

------------------------------------------------------------------------------
(* Properties *)

\* What config.Load lets pass, no later layer refuses or changes, but for a
\* carbon intensity of 0 or less, which estimator.New refuses, and a buffer of
\* 0, which withDefaults takes for 512: the checks of three packages agree.
\* (config.go:92-122, estimator co2.go:43-55, worker.go:43-51, sampler.go:30-38.)
LayersAgree ==
  phase \in {"provider", "cache", "estimator", "ready"} /\ main = "boot" =>
    /\ Estimable \/ AtMost(cfg["CO2_CARBON_INTENSITY"], 0)
    /\ RateUsed = cfg["ECO_SAMPLE_RATE"] /\ CountUsed = cfg["ECO_WORKER_COUNT"]
    /\ BufferUsed # cfg["ECO_WORKER_BUFFER"] => cfg["ECO_WORKER_BUFFER"] = 0

\* Once run has begun to release what it opened, no handler and no worker can use
\* it any more, or run returns an error and the workers have at least been told to
\* stop; and when the process is gone everything is released, but for the
\* connections of a Redis client whose ping failed, if it never served.
\* (The defers of main.go:108-141 against the order of main.go:224-235; redis.go:36-41.)
ReleaseDiscipline ==
  /\ phase = "ready" /\ "cancelWorker" \notin ToSet(deferred) =>
       \/ InFlight = {} /\ W!Running = {}
       \/ main \in {"unwound", "aborted"} /\ cancelled
  /\ ~Alive /\ deferred = <<>> =>
       open = {} \/ (open = {"redis"} /\ listener = "off")

\* A termination signal, or a listener that fails, ends the process, hanging
\* handlers or not, and with every deferred call made.  (main.go:213-238.)
ShutdownTerminates ==
  (quit = 1 \/ listener = "failing") ~> (~Alive /\ deferred = <<>>)
==============================================================================
