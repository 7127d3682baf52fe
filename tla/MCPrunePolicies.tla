---------------------------- MODULE MCPrunePolicies ----------------------------
(***************************************************************************)
(* Instances of PrunePolicies for TLC: a volume under each of the policies.  *)
(* Two devices show that a policy counts by device.                         *)
(***************************************************************************)
EXTENDS PrunePolicies

Default ==
  [devices |-> {"disk1"}, policy |-> "never", backupPolicy |-> "daily",
   minInterval |-> 1, pruneAge |-> 2, minBackups |-> 2,
   decayStart |-> 1, decayWindow |-> 1, decayScale |-> 2, decayLimit |-> 17]

MCConfiguration ==
  {Default,
   [Default EXCEPT !.policy = "age"],
   [Default EXCEPT !.policy = "age", !.devices = {"disk1", "disk2"},
                   !.backupPolicy = "interval", !.minInterval = 5],
   [Default EXCEPT !.policy = "decay"],
   [Default EXCEPT !.policy = "decay", !.backupPolicy = "interval",
                   !.decayWindow = 2, !.decayLimit = 4,
                   !.minInterval = 1],
   [Default EXCEPT !.policy = "exec", !.backupPolicy = "interval",
                   !.minInterval = 4]}

DecayConfiguration == {[Default EXCEPT !.policy = "decay", !.decayLimit = 2]}
=============================================================================
