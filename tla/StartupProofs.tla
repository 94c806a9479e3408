--------------------------- MODULE StartupProofs ---------------------------
(***************************************************************************)
(* Theorems about Startup, for any widths, units, defaults and any         *)
(* environment.                                                            *)
(***************************************************************************)
EXTENDS Startup, TLAPS

\* A remainder of what is small enough.
LEMMA SmallRemainder ==
  ASSUME NEW x \in Nat, NEW m \in Nat, x < m
  PROVE x % m = x
OBVIOUS

\* A quotient is the largest number whose product is not too large.
LEMMA Quotient ==
  ASSUME NEW n \in Nat, NEW d \in Nat \ {0}, NEW k \in Nat
  PROVE k <= n \div d <=> k * d <= n
OBVIOUS

\* A timeout that fits is converted without loss.
LEMMA ExactDuration ==
  ASSUME NEW ms \in Int, TimeoutFits(ms)
  PROVE /\ ms * Millisecond <= MaxInt /\ ms \in 1 .. MaxInt
        /\ Duration(ms) = Millisecond * ms
<1>1. /\ MaxInt \in Nat /\ Millisecond \in Nat \ {0} /\ ms \in Nat \ {0}
      /\ ms <= MaxInt \div Millisecond
  BY NumbersAssumption DEF TimeoutFits
<1>2. ms * Millisecond <= MaxInt
  BY <1>1, Quotient
<1> DEFINE p == ms * Millisecond
<1>3. p \in Nat /\ p = Millisecond * ms /\ p <= MaxInt /\ ms <= p
  BY <1>1, <1>2
<1> HIDE DEF p
<1>4. (p + MaxInt + 1) % (2 * (MaxInt + 1)) = p + MaxInt + 1
  <2>1. p + MaxInt + 1 \in Nat /\ 2 * (MaxInt + 1) \in Nat /\ p + MaxInt + 1 < 2 * (MaxInt + 1)
    BY <1>1, <1>3
  <2> QED
    BY <2>1, SmallRemainder
<1>5. Duration(ms) = p
  <2>1. Duration(ms) = ((p + MaxInt + 1) % (2 * (MaxInt + 1))) - (MaxInt + 1)
    BY DEF Duration, p
  <2> QED
    BY <2>1, <1>1, <1>3, <1>4
<1> QED
  BY <1>1, <1>2, <1>3, <1>5 DEF p

\* A timeout that README.md allows fits.
LEMMA AllowedFits ==
  ASSUME NEW ms \in 1 .. MaxInt, ms * Millisecond <= MaxInt
  PROVE TimeoutFits(ms)
BY NumbersAssumption, Quotient DEF TimeoutFits

\* Load accepts what README.md asks for, and nothing else, and with the right time.
LEMMA LoadIsDocumented ==
  ASSUME NEW env \in Environment
  PROVE /\ Load(env) # NoConfig <=> Documented(env)
        /\ Load(env) # NoConfig =>
             Load(env).timeout =
               Millisecond * (IF env.timeout = Empty THEN DefaultTimeout ELSE env.timeout)
<1> DEFINE port == Env(env.port, DefaultPort)
           ms == Env(env.timeout, DefaultTimeout)
           retries == Env(env.retries, DefaultRetries)
           accepted == /\ port \in Ints /\ port >= 1 /\ port <= MaxPort
                       /\ ms \in Ints /\ TimeoutFits(ms)
                       /\ retries \in Ints /\ retries >= 0
                       /\ env.missing = {}
           c == [port |-> port, timeout |-> Duration(ms), retries |-> retries]
<1>1. Load(env) = IF accepted THEN c ELSE NoConfig
  BY DEF Load
<1>2. accepted => c # NoConfig
  BY NumbersAssumption DEF NoConfig, Ints
<1>3. /\ env.port \in Texts /\ env.timeout \in Texts /\ env.retries \in Texts
      /\ MaxInt \in Nat /\ MaxPort \in 1 .. MaxInt
  BY NumbersAssumption DEF Environment
<1>4. (port \in Ints /\ port >= 1 /\ port <= MaxPort) <=> env.port \in 1 .. MaxPort \cup {Empty}
  BY <1>3, NumbersAssumption DEF Env, Ints, Texts
<1>5. (retries \in Ints /\ retries >= 0) <=> env.retries \in 0 .. MaxInt \cup {Empty}
  BY <1>3, NumbersAssumption DEF Env, Ints, Texts
<1>6. (ms \in Ints /\ TimeoutFits(ms)) <=>
        \/ env.timeout = Empty
        \/ env.timeout \in 1 .. MaxInt /\ env.timeout * Millisecond <= MaxInt
  <2>1. CASE env.timeout = Empty
    <3>1. ms = DefaultTimeout /\ ms \in Nat \ {0} /\ ms * Millisecond <= MaxInt
      BY <2>1, NumbersAssumption DEF Env
    <3>2. ms <= ms * Millisecond
      BY <3>1, NumbersAssumption
    <3>3. ms \in 1 .. MaxInt
      <4> DEFINE p == ms * Millisecond
      <4>1. p \in Nat /\ ms <= p /\ p <= MaxInt
        BY <3>1, <3>2, NumbersAssumption
      <4> HIDE DEF p, ms
      <4> QED
        BY <4>1, <3>1, <1>3
    <3>4. TimeoutFits(ms)
      BY <3>1, <3>3, AllowedFits
    <3> QED
      BY <2>1, <3>3, <3>4, <1>3 DEF Ints
  <2>2. CASE env.timeout # Empty
    <3>1. ms = env.timeout
      BY <2>2 DEF Env
    <3>2. ms \in Ints /\ TimeoutFits(ms) => ms \in 1 .. MaxInt /\ ms * Millisecond <= MaxInt
      <4>1. ms \in Ints => ms \in Int
        BY <1>3 DEF Ints
      <4> HIDE DEF ms
      <4> QED
        BY <4>1, ExactDuration
    <3>3. ms \in 1 .. MaxInt /\ ms * Millisecond <= MaxInt => ms \in Ints /\ TimeoutFits(ms)
      <4> HIDE DEF ms
      <4> QED
        BY AllowedFits, <1>3 DEF Ints
    <3> QED
      BY <2>2, <3>1, <3>2, <3>3
  <2> QED
    BY <2>1, <2>2
<1>7. accepted <=> Documented(env)
  BY <1>4, <1>5, <1>6 DEF Documented
<1>8. accepted => c.timeout = Millisecond * ms
  <2>1. ms \in Ints => ms \in Int
    BY <1>3 DEF Ints
  <2> HIDE DEF ms
  <2> QED
    BY <2>1, ExactDuration
<1> HIDE DEF accepted, c
<1> QED
  BY <1>1, <1>2, <1>7, <1>8 DEF Env

-----------------------------------------------------------------------------
\* What main has done so far belongs to where it is.
Reached(step) == CASE step = "tracing" -> {"log"}
                   [] step = "pool" -> {"log", "traces"}
                   [] step \in {"publisher", "listen"} -> {"log", "traces", "PostgreSQL"}
                   [] step = "serving" -> {"log", "traces", "PostgreSQL", "address"}
                   [] OTHER -> {}

Inv ==
  /\ environment \in Environment
  /\ pc \in {"config", "logger", "tracing", "pool", "publisher", "listen", "serving", "exited"}
  /\ pc = "config" => config = NoConfig
  /\ pc \notin {"config", "exited"} => config # NoConfig
  /\ pc # "exited" => contacted = Reached(pc)
  /\ pc = "exited" => (contacted = {} <=> config = NoConfig)
  /\ config \in {NoConfig, Load(environment)}
  /\ pc = "exited" /\ config = NoConfig => Load(environment) = NoConfig
  /\ pc \in {"listen", "serving"} => publisher

LEMMA InvInit == Init => Inv
BY DEF Init, Inv, Reached

LEMMA InvNext == ASSUME Inv, [Next]_vars PROVE Inv'
<1>1. CASE ReadConfig
  BY <1>1 DEF Inv, ReadConfig, Reached
<1>2. CASE NewLogger
  BY <1>2 DEF Inv, NewLogger, Step, Reached
<1>3. CASE NewProvider
  BY <1>3 DEF Inv, NewProvider, Step, Reached
<1>4. CASE NewPool
  BY <1>4 DEF Inv, NewPool, Step, Reached
<1>5. CASE StartPublisher
  BY <1>5 DEF Inv, StartPublisher, Reached
<1>6. CASE Listen
  BY <1>6 DEF Inv, Listen, Step, Reached
<1>7. CASE UNCHANGED vars
  BY <1>7 DEF Inv, vars
<1> QED
  BY <1>1, <1>2, <1>3, <1>4, <1>5, <1>6, <1>7 DEF Next

LEMMA InvGivesStart == ASSUME Inv PROVE StartsAsDocumented
<1>1. environment \in Environment
  BY DEF Inv
<1>2. contacted # {} => config # NoConfig
  BY DEF Inv, Reached
<1>3. config # NoConfig => config = Load(environment)
  BY DEF Inv
<1>4. pc = "exited" /\ contacted = {} => Load(environment) = NoConfig
  BY DEF Inv
<1>5. pc = "serving" => publisher /\ "PostgreSQL" \in contacted
  BY DEF Inv, Reached
<1> QED
  BY <1>1, <1>2, <1>3, <1>4, <1>5, LoadIsDocumented DEF StartsAsDocumented

\* For any width of int and any environment, a process starts exactly with what
\* README.md asks for and with the very times it was given (config.go, Load).
THEOREM StartIsDocumented == Spec => []StartsAsDocumented
<1>1. Inv /\ [Next]_vars => Inv'
  BY InvNext
<1>2. Inv => StartsAsDocumented
  BY InvGivesStart
<1> QED
  BY InvInit, <1>1, <1>2, PTL DEF Spec
=============================================================================
