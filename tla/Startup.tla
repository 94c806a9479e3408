------------------------------ MODULE Startup ------------------------------
(***************************************************************************)
(* The start of a ShareTrip process: the configuration is read from the    *)
(* environment, then logs, traces and PostgreSQL are set up, the publisher *)
(* is started and the API listens; the first thing that fails ends it.     *)
(*                                                                         *)
(* Integers are scaled: MaxInt stands for the largest value of Go's int,   *)
(* int64 and time.Duration, Millisecond for the units of a time.Duration   *)
(* in a millisecond, MaxPort for 65535.  A variable that holds a text is   *)
(* either set or empty; one that holds a number may hold any text.         *)
(***************************************************************************)
EXTENDS Integers

CONSTANTS
  MaxInt, Millisecond, MaxPort,
  DefaultPort, DefaultTimeout, DefaultRetries,
  Empty,     \* an empty or missing variable
  Garbage    \* a text that is no number

ASSUME NumbersAssumption ==
  /\ MaxInt \in Nat /\ Millisecond \in Nat \ {0}
  /\ MaxPort \in 1 .. MaxInt /\ DefaultPort \in 1 .. MaxPort
  /\ DefaultTimeout \in Nat \ {0} /\ DefaultTimeout * Millisecond <= MaxInt
  /\ DefaultRetries \in 0 .. MaxInt
  /\ Empty \notin Int /\ Garbage \notin Int /\ Empty # Garbage

\* DB_HOST, DB_USER, DB_PASSWORD and DB_NAME; CONTRACT_SERVICE_BASE_URL;
\* KAFKA_BROKERS; KEYCLOAK_ISSUER and KEYCLOAK_CLIENT_SECRET.
Required == {"database", "contract", "kafka", "keycloak"}

\* A text that is a number may be one that no int holds.
Ints == -(MaxInt + 1) .. MaxInt
Texts == -(MaxInt + 2) .. MaxInt + 1 \cup {Empty, Garbage}

Environment == [port : Texts, timeout : Texts, retries : Texts, missing : SUBSET Required]

NoConfig == [port |-> 0, timeout |-> 0, retries |-> 0]

VARIABLES
  environment,
  pc,         \* what the process does next, "serving" or "exited"
  config,     \* the configuration, once it is read
  contacted,  \* what the process has set up or talked to
  publisher   \* the outbox publisher runs

vars == <<environment, pc, config, contacted, publisher>>

-----------------------------------------------------------------------------
(* The configuration *)

Env(text, fallback) == IF text = Empty THEN fallback ELSE text

\* time.Duration(ms) * time.Millisecond, in as many bits as an int has.
Duration(ms) == ((ms * Millisecond + MaxInt + 1) % (2 * (MaxInt + 1))) - (MaxInt + 1)

\* Mutant: nobody thinks of the overflow of that product.
Positive(ms) == ms > 0
TimeoutFits(ms) == ms > 0 /\ ms <= MaxInt \div Millisecond

\* strconv.Atoi takes the texts that are Ints.
Load(env) ==
  LET port == Env(env.port, DefaultPort)
      ms == Env(env.timeout, DefaultTimeout)
      retries == Env(env.retries, DefaultRetries)
  IN IF /\ port \in Ints /\ port >= 1 /\ port <= MaxPort
        /\ ms \in Ints /\ TimeoutFits(ms)
        /\ retries \in Ints /\ retries >= 0
        /\ env.missing = {}
     THEN [port |-> port, timeout |-> Duration(ms), retries |-> retries]
     ELSE NoConfig

-----------------------------------------------------------------------------
(* The process *)

Init ==
  /\ environment \in Environment
  /\ pc = "config" /\ config = NoConfig /\ contacted = {} /\ publisher = FALSE

\* A step of main takes on a dependency and goes on, or it ends the process.
Step(from, dependency, to) ==
  /\ pc = from
  /\ contacted' = contacted \cup {dependency}
  /\ pc' \in {to, "exited"}
  /\ UNCHANGED <<environment, config>>

ReadConfig ==
  /\ pc = "config"
  /\ config' = Load(environment)
  /\ pc' = IF config' = NoConfig THEN "exited" ELSE "logger"
  /\ UNCHANGED <<environment, contacted, publisher>>

NewLogger == Step("logger", "log", "tracing") /\ UNCHANGED publisher
NewProvider == Step("tracing", "traces", "pool") /\ UNCHANGED publisher

\* The pool is pinged before anything uses it.
NewPool == Step("pool", "PostgreSQL", "publisher") /\ UNCHANGED publisher

StartPublisher ==
  /\ pc = "publisher" /\ pc' = "listen"
  /\ publisher' = TRUE
  /\ UNCHANGED <<environment, config, contacted>>

\* Requests are served until the process is killed, or the address is taken and
\* the process ends with all it has started.
Listen ==
  /\ Step("listen", "address", "serving")
  /\ publisher' = (pc' = "serving")

Next == ReadConfig \/ NewLogger \/ NewProvider \/ NewPool \/ StartPublisher \/ Listen

Spec == Init /\ [][Next]_vars

-----------------------------------------------------------------------------
(* Properties *)

\* What README.md asks of the variables: the required ones are set, and those
\* that are numbers hold a port, a positive number of milliseconds that fits a
\* time.Duration, and a number of retries that is not negative; or nothing.
Documented(env) ==
  /\ env.missing = {}
  /\ env.port \in 1 .. MaxPort \cup {Empty}
  /\ env.retries \in 0 .. MaxInt \cup {Empty}
  /\ \/ env.timeout = Empty
     \/ env.timeout \in 1 .. MaxInt /\ env.timeout * Millisecond <= MaxInt

\* A process gets past its configuration exactly when the environment is as
\* README.md asks, and before it sets up or contacts anything; the time it then
\* gives a permission check is the one that was asked for, never one that an
\* overflow made of it.  One that serves requests has its publisher running and
\* has reached PostgreSQL before.
StartsAsDocumented ==
  /\ contacted # {} => Documented(environment)
  /\ pc = "exited" /\ contacted = {} => ~Documented(environment)
  /\ config # NoConfig =>
       config.timeout =
         Millisecond * (IF environment.timeout = Empty THEN DefaultTimeout ELSE environment.timeout)
  /\ pc = "serving" => publisher /\ "PostgreSQL" \in contacted
=============================================================================
