------------------------------- MODULE Config -------------------------------
(***************************************************************************)
(* internal/config: defaults, environment, flags, and what Validate lets   *)
(* through.  The other modules assume of Threshold and KeepMin what        *)
(* AcceptedPolicy says of them (Input_proof); main exits before it opens   *)
(* the database otherwise.                                                 *)
(***************************************************************************)
EXTENDS Integers

CONSTANTS Absent,         \* a variable or flag that is not set
          Empty,          \* ""
          DefaultAddr,    \* "127.0.0.1:8080"
          DefaultDb,      \* "audit.db"
          Hour            \* in units of time.Duration

Numbers == {"interval", "threshold", "keep_min", "max_age_days"}
Settings == Numbers \cup {"addr", "db", "token"}

\* config.Defaults.
Defaults == [addr |-> DefaultAddr, db |-> DefaultDb, token |-> Empty,
             interval |-> Hour, threshold |-> 10000, keep_min |-> 1000,
             max_age_days |-> 90]

\* setString, setInt, setDuration: an empty variable counts as not set.
EnvSets(env, s) == env[s] # Absent /\ env[s] # Empty

WithEnv(env) == [s \in Settings |-> IF EnvSets(env, s) THEN env[s] ELSE Defaults[s]]

\* Load: the flags have the values of the environment as their defaults; an
\* empty flag is a value.
Load(env, flags) ==
  [s \in Settings |-> IF flags[s] = Absent THEN WithEnv(env)[s] ELSE flags[s]]

\* strconv.Atoi, time.ParseDuration, flag.Parse: not a number.  A malformed
\* variable is an error even if a flag would replace it.
Malformed(env, flags) ==
  \E s \in Numbers : \/ EnvSets(env, s) /\ env[s] \notin Int
                     \/ flags[s] # Absent /\ flags[s] \notin Int

\* Config.Validate.
Validate(c) == /\ c["addr"] # Empty /\ c["db"] # Empty
               /\ c["interval"] > 0
               /\ c["threshold"] >= 1 /\ c["keep_min"] >= 1
               /\ c["keep_min"] < c["threshold"]
               /\ c["max_age_days"] >= 0

\* Load returns no error: main goes on.
Accepted(env, flags) == ~Malformed(env, flags) /\ Validate(Load(env, flags))

=============================================================================
