----------------------------- MODULE MCDBClient -----------------------------
(* Three nodes, and every file that differs from a plain one in one key. *)
EXTENDS DBClient, TLC

Plain ==
  [key \in Keys |-> CASE key = "node_id" -> "n"
                      [] key = "dim" -> 4
                      [] key = "data_type" -> "f32"
                      [] key = "heartbeat" -> 1
                      [] key = "election_min" -> 2
                      [] key = "election_max" -> 4
                      [] key = "drift" -> 1
                      [] key = "max_retry" -> 1
                      [] OTHER -> Absent]

Words == {"node_id", "raft_log_dir", "snapshot_dir", "data_dir", "metric", "data_type", "scalar_kind",
          "level"}

\* The values on both sides of every comparison.
MCFiles ==
  {Plain} \union
  {[Plain EXCEPT ![key] = v] : key \in Keys \ Words,
                               v \in {Absent, Wrong, 0, 1, 2, 3, 4, 100, 101}} \union
  {[Plain EXCEPT ![key] = v] : key \in Words, v \in {Absent, Wrong, "", "d", "l2sq", "i8", "warn"}} \union
  {[Plain EXCEPT !["data_type"] = v, !["scalar_kind"] = w] :
     v \in {Absent, Wrong, "i8"}, w \in {Absent, Wrong, "f16"}} \union
  {[Plain EXCEPT !["drift"] = d, !["lease"] = l] : d \in 0 .. 4, l \in {Absent} \union 0 .. 4}

MCStartFiles == {[Plain EXCEPT !["lease"] = l] : l \in {Absent} \union 0 .. 4}

\* Reads and writes without faults, and all kinds of calls with a fault.
MCBudgets ==
  {[writes |-> 1, faults |-> 0, kinds |-> {"search"}, caches |-> {FirstLeader}],
   [writes |-> 0, faults |-> 1, kinds |-> {"search", "write", "get"},
    caches |-> (Nodes \ {FirstLeader}) \union {None}]}

Others == Permutations(Nodes \ {FirstLeader})
=============================================================================
