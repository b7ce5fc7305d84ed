----------------------------- MODULE NodeConfig -----------------------------
(***************************************************************************)
(* The configuration file of a node: how LoadFromFile reads it, which      *)
(* files it refuses, and what the values it accepts promise to the other   *)
(* components.  A file is a function from the keys to Absent, to Wrong (a  *)
(* value of another type, or out of the range of the type) or to a value.  *)
(* Ratios are percentages, a directory is the empty string or a name, and  *)
(* a word is taken up to its case.  Keys that are only copied are left out.*)
(***************************************************************************)
EXTENDS Integers

CONSTANTS Absent, Wrong, Refused,
          Word      \* 2^32 in the code: the modulus of an unsigned subtraction

\* The defaults of the times are words themselves.
ASSUME WordAssumption == Word \in Nat /\ 600 < Word

\* The keys that may be missing, with what they are then.
Defaults ==
  [heartbeat |-> 150, election_min |-> 300, election_max |-> 600, drift |-> 50,
   window |-> 16, batch |-> 64,
   initial_capacity |-> 100000, connectivity |-> 16, expansion_add |-> 128, expansion_search |-> 64,
   check_interval |-> 60, compact_ratio |-> 20, compact_interval |-> 604800, isolate_ratio |-> 10,
   dedup_window |-> 1000, retry_base |-> 50, retry_max |-> 2000, max_retry |-> 10,
   grpc_port |-> 7001, segment_mb |-> 64, metric |-> "ip", level |-> "info"]

Optional == DOMAIN Defaults

\* The keys that are read under a second name as well.
Aliased == {"dim", "dimension", "data_type", "scalar_kind"}

Keys == Optional \union Aliased \union {"node_id", "lease", "raft_log_dir", "snapshot_dir", "data_dir"}

\* A file as its parser hands it out: numbers are not negative, and times are words.
IsFile(file) ==
  /\ \A key \in Keys \ {"node_id", "metric", "data_type", "scalar_kind", "level", "raft_log_dir",
                        "snapshot_dir", "data_dir"} : file[key] \in {Absent, Wrong} \/ file[key] \in Nat
  /\ \A key \in {"election_min", "drift", "lease"} : file[key] \in {Absent, Wrong} \/ file[key] < Word

\* A value of the wrong type is an error, a missing one is not.
TryReadValue(file, key) == file[key] # Wrong

ReadRequiredValue(file, key) == file[key] # Absent /\ TryReadValue(file, key)

\* ReadOptionalValue, of a file without wrong values
Read(file, key, default) == IF file[key] = Absent THEN default ELSE file[key]

\* A wrong value of the second key is not seen when the first is there.
ReadRequiredValueWithAliases(file, key, alias) ==
  IF file[key] # Absent THEN file[key] ELSE file[alias]

dim(file) == ReadRequiredValueWithAliases(file, "dim", "dimension")

data_type(file) == ReadRequiredValueWithAliases(file, "data_type", "scalar_kind")

\* A directory that is not given lies below data_dir, if there is one.
Directory(file, key, default) ==
  IF file[key] # Absent THEN file[key]
  ELSE IF file["data_dir"] # Absent THEN "below data_dir" ELSE default

\* Mutant: a drift bound above the election timeout is let through.
ValidateLeaseConfigAnyDrift(c) ==
  /\ c.heartbeat # 0 /\ c.election_min # 0
  /\ c.election_max >= c.election_min /\ c.heartbeat < c.election_min
  /\ c.lease = (c.election_min - c.drift) % Word

\* Mutant: a lease may be as long as its file says.
ValidateLeaseConfigAnyLease(c) ==
  /\ c.heartbeat # 0 /\ c.election_min # 0
  /\ c.election_max >= c.election_min /\ c.heartbeat < c.election_min
  /\ c.drift < c.election_min

ValidateLeaseConfig(c) ==
  /\ c.heartbeat # 0 /\ c.election_min # 0
  /\ c.election_max >= c.election_min /\ c.heartbeat < c.election_min
  /\ c.drift < c.election_min
  /\ c.lease = (c.election_min - c.drift) % Word

ValidateVectorConfig(c) ==
  c.dim # 0 /\ c.initial_capacity # 0 /\ c.connectivity >= 2
            /\ c.expansion_add # 0 /\ c.expansion_search # 0
            /\ c.metric \in {"ip", "l2sq", "cos"} /\ c.data_type \in {"f32", "f16", "i8"}

ValidateIndexMaintenanceConfig(c) ==
  /\ c.check_interval # 0 /\ c.compact_interval # 0
  /\ c.compact_ratio \in 0 .. 100 /\ c.isolate_ratio \in 0 .. 100

ValidateClientConfig(c) ==
  /\ c.dedup_window # 0 /\ c.max_retry # 0
  /\ c.retry_base # 0 /\ c.retry_max # 0 /\ c.retry_base <= c.retry_max

ValidateStorageConfig(c) == c.raft_log_dir # "" /\ c.snapshot_dir # "" /\ c.segment_mb # 0

ValidateServerConfig(c) == c.grpc_port # 0

ValidateLoggingConfig(c) ==
  c.level \in {"trace", "debug", "info", "warn", "warning", "error", "err", "critical", "off"}

\* What the file says, before it is validated.  The lease that is not given is
\* subtracted without looking at the operands.
Parsed(file) ==
  [key \in Optional \union {"dim", "data_type", "lease", "raft_log_dir", "snapshot_dir"} |->
     CASE key \in Optional -> Read(file, key, Defaults[key])
       [] key = "dim"      -> dim(file)
       [] key = "data_type" -> data_type(file)
       [] key = "lease"    -> Read(file, key, (Read(file, "election_min", Defaults.election_min)
                                                - Read(file, "drift", Defaults.drift)) % Word)
       [] OTHER            -> Directory(file, key, "./data")]

\* Every key is read before the values are validated.
EnsureAllOk(file) == \A key \in Keys \ Aliased : TryReadValue(file, key)

LoadFromFile(file) ==
  LET c == Parsed(file)
  IN  IF /\ EnsureAllOk(file)
         /\ ReadRequiredValue(file, "node_id") /\ file["node_id"] # ""
         /\ dim(file) \notin {Absent, Wrong} /\ data_type(file) \notin {Absent, Wrong}
         /\ ValidateLeaseConfig(c) /\ ValidateVectorConfig(c)
         /\ ValidateIndexMaintenanceConfig(c) /\ ValidateClientConfig(c)
         /\ ValidateServerConfig(c) /\ ValidateStorageConfig(c) /\ ValidateLoggingConfig(c)
      THEN c ELSE Refused

\* What an accepted configuration promises.  The window and the batch are not
\* validated: both may be 0.
Usable(c) ==
  /\ 0 < c.lease /\ c.lease + c.drift = c.election_min
  /\ 0 < c.heartbeat /\ c.heartbeat < c.election_max
  /\ c.connectivity \notin {0, 1} /\ c.expansion_add > 0 /\ c.expansion_search > 0
  /\ c.metric \in {"ip", "l2sq", "cos"} /\ c.data_type \in {"f32", "f16", "i8"}
  /\ c.compact_interval > 0 /\ c.dedup_window > 0 /\ c.max_retry > 0 /\ c.segment_mb > 0
=============================================================================
