----------------------------- MODULE MCJobSetRun -----------------------------
(***************************************************************************)
(* A server and a worker: a step with no failure policy, one whose server  *)
(* must not be retried on code 42, and one that is retried for ever unless *)
(* the worker fails on anything but 1.                                     *)
(***************************************************************************)
EXTENDS JobSetRun

Rule(action, roles, codes, op) ==
  [action |-> action, target_roles |-> roles, codes |-> codes, operator |-> op]

All == [operator |-> "ALL", target_roles |-> {}]
Any(roles) == [operator |-> "ANY", target_roles |-> roles]

NoPolicy == [policy |-> FALSE, max_restarts |-> 0, rules |-> <<>>, success |-> All]

FatalCode ==
  [policy |-> TRUE, max_restarts |-> 1, success |-> Any({"server"}),
   rules |-> <<Rule("RESTART_JOB_SET", {"server", "worker"}, {}, "IN"),
               Rule("FAIL_JOB_SET", {"server"}, {42}, "IN")>>]

Stubborn ==
  [policy |-> TRUE, max_restarts |-> 0, success |-> All,
   rules |-> <<Rule("FAIL_JOB_SET", {"worker"}, {1}, "NOT_IN"),
               Rule("RESTART_JOB_SET_AND_IGNORE_MAX_RESTARTS", {"server", "worker"}, {}, "IN")>>]

Steps == {NoPolicy, FatalCode, Stubborn}
=============================================================================
