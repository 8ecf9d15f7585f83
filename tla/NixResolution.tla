---------------------------- MODULE NixResolution ----------------------------
(***************************************************************************)
(* What a submit does for its nix-mode roles (nix_resolution.py,           *)
(* nix_utils.py), and what comes of it in the cluster: every role is       *)
(* resolved to a closure, by a memo or by an evaluation; closures missing  *)
(* from their store get a build step, and the steps that need them wait    *)
(* for it.                                                                 *)
(* Submits run side by side.  They share the binary caches, the memos in   *)
(* them and, on one machine, the memo under the user's cache directory.    *)
(* The user may edit the code while a submit reads it, more than once.     *)
(***************************************************************************)
EXTENDS Naturals, Sequences, FiniteSets, FiniteSetsExt

CONSTANTS
  Submits,      \* the submits, one workflow each
  Machines, Machine,  \* the machines, and the one each submit runs on
  Workflows,    \* the workflows: a set of step names and a sequence of roles
  Sources,      \* filtered source trees, or their digests
  Targets,      \* <<expression, attr, system>>
  Closures,
  Outputs,      \* what nix evaluates <<source, target>> to
  Stores,       \* binary caches
  MemoStores,   \* those with a remote memo: s3:// and oci://
  ShortName,    \* the name _build_step_name gives <<closure, store>>; hashes
                \* are cut, so two pairs may share one
  Stock,        \* what a cache may hold at first: sets of <<closure, store>>
  MaxFaults     \* bound: calls that fail, and edits

None == "none"
Keys == Closures \X Stores
Roles == [step : UNION {w.steps : w \in Workflows},
          source : Sources, edited : Sources,  \* before and after an edit
          target : Targets, store : Stores,
          build : BOOLEAN,       \* nix.build
          valid : BOOLEAN,       \* expression under code.path, store usable
          complete : BOOLEAN]    \* the expression passes the source filters

ASSUME NixAssumption ==
  /\ Machine \in [Submits -> Machines]
  /\ \A w \in Workflows :
       /\ IsFiniteSet(w.steps) /\ w.roles \in Seq(Roles)
       /\ \A i \in DOMAIN w.roles : w.roles[i].step \in w.steps
  /\ Outputs \in [Sources \X Targets -> Closures]
  /\ MemoStores \subseteq Stores
  /\ \A k \in Stock : k \subseteq Keys
  /\ MaxFaults \in Nat
  /\ None \notin Closures

VARIABLES
  workflow,  \* what each submit resolves
  pc,        \* where each submit is
  edited,    \* the user has edited the code of the submit
  digest,    \* the fingerprint of the role in hand
  root,      \* the directory its sources were copied to, named by a digest
  found,     \* its closure
  staged,    \* each submit's staging directory: what lies under each digest
  keys,      \* role_to_key: the <<closure, store>> of the roles done so far
  needed,    \* needed_builds, in order: key, digest and role
  builds,    \* the build steps of a launched workflow, by name
  depends,   \* the build steps each step of the workflow waits for
  started,   \* the steps whose pods have started
  stored,    \* what the binary caches hold
  localMemo, remoteMemo,
  faults

reading == <<digest, root>>
submit == <<pc, edited, reading, found, staged, keys, needed>>
launched == <<workflow, builds, depends, started>>
memos == <<localMemo, remoteMemo>>
vars == <<submit, launched, stored, memos, faults>>

\* No entry of a memo is there at first, and nothing is staged.
Empty == [k \in Sources \X Targets |-> None]

Init ==
  /\ workflow \in [Submits -> Workflows]
  /\ pc = [s \in Submits |-> "role"]
  /\ edited = [s \in Submits |-> FALSE]
  /\ digest = [s \in Submits |-> None] /\ root = [s \in Submits |-> None]
  /\ found = [s \in Submits |-> None]
  /\ staged = [s \in Submits |-> [d \in {} |-> None]]
  /\ keys = [s \in Submits |-> <<>>]
  /\ needed = [s \in Submits |-> <<>>]
  /\ builds = [s \in Submits |-> [n \in {} |-> 0]]
  /\ depends = [s \in Submits |-> [x \in {} |-> {}]]
  /\ started = [s \in Submits |-> {}]
  /\ stored \in Stock
  /\ localMemo = [m \in Machines |-> Empty]
  /\ remoteMemo = [x \in MemoStores |-> Empty]
  /\ faults = MaxFaults

Goto(s, l) == pc' = [pc EXCEPT ![s] = l]
Fault == faults > 0 /\ faults' = faults - 1

Roles_(s) == workflow[s].roles
Role(s) == Roles_(s)[Len(keys[s]) + 1]

\* Mutant: the expression, its attribute and the system left out of the key.
MemoKey_source(s) == <<digest[s], CHOOSE t \in Targets : TRUE>>

MemoKey(s) == <<digest[s], Role(s).target>>

\* What code.path holds for the role.
Source(s) == IF edited[s] THEN Role(s).edited ELSE Role(s).source

\* The user edits the code while the submit resolves its roles.
Edit(s) ==
  /\ ~edited[s] /\ pc[s] \notin {"render", "launched", "raised"}
  /\ Fault
  /\ edited' = [edited EXCEPT ![s] = TRUE]
  /\ UNCHANGED <<pc, reading, found, staged, keys, needed, launched, stored, memos>>

\* A memo that is missing or holds no store path is no hit.
Usable(c) == c # None

-----------------------------------------------------------------------------
(* One role of a submit.                                                   *)

\* The containment of the expression and the store's URI are checked.  After the
\* last role the build steps are made.
NextRole(s) ==
  /\ pc[s] = "role"
  /\ IF Len(keys[s]) = Len(Roles_(s)) THEN Goto(s, "inject")
     ELSE Goto(s, IF Role(s).valid THEN "fingerprint" ELSE "raised")
  /\ UNCHANGED <<edited, reading, found, staged, keys, needed, launched, stored, memos, faults>>

fingerprint_nix_source_tree(s) ==
  /\ pc[s] = "fingerprint"
  /\ digest' = [digest EXCEPT ![s] = Source(s)]
  /\ found' = [found EXCEPT ![s] = None]
  /\ Goto(s, "lookup")
  /\ UNCHANGED <<edited, root, staged, keys, needed, launched, stored, memos, faults>>

_read_local_closure_memo(s) == localMemo[Machine[s]][MemoKey(s)]
_write_local_closure_memo(s, c) ==
  localMemo' = [localMemo EXCEPT ![Machine[s]][MemoKey(s)] = c]

HasRemote(s) == Role(s).store \in MemoStores
_read_remote_closure_memo(s) ==
  IF HasRemote(s) THEN remoteMemo[Role(s).store][MemoKey(s)] ELSE None

\* The local memo first; then the store's, whose answer is kept locally and
\* whose errors count as a miss.
lookup_cached_closure_path(s) ==
  /\ pc[s] = "lookup"
  /\ LET here == _read_local_closure_memo(s)
         there == _read_remote_closure_memo(s)
         Hit(c) == found' = [found EXCEPT ![s] = c] /\ Goto(s, "hit")
         Miss == Goto(s, "miss") /\ UNCHANGED <<found, localMemo>>
     IN  \/ /\ Usable(here)
            /\ Hit(here) /\ UNCHANGED <<localMemo, faults>>
         \/ /\ ~Usable(here) /\ Usable(there)
            /\ Hit(there) /\ _write_local_closure_memo(s, there) /\ UNCHANGED faults
         \/ /\ ~Usable(here) /\ ~Usable(there)
            /\ Miss /\ UNCHANGED faults
         \/ /\ ~Usable(here) /\ HasRemote(s)
            /\ Fault /\ Miss
  /\ UNCHANGED <<edited, reading, staged, keys, needed, launched, stored, remoteMemo>>

\* The source tree is fingerprinted once more, then copied to a directory of the
\* staging directory named by that digest, unless the directory is there.
Locate(s, next) ==
  /\ root' = [root EXCEPT ![s] = Source(s)]
  /\ Goto(s, IF Source(s) \in DOMAIN staged[s] THEN next ELSE "copy")
  /\ UNCHANGED <<edited, digest, staged, launched, stored, memos, faults>>

\* A memo miss.
Materialize(s) ==
  /\ pc[s] = "miss"
  /\ Locate(s, "staged")
  /\ UNCHANGED <<found, keys, needed>>

\* The copy is for an evaluation, or for the build of what a memo said.
copy_filtered(s) ==
  /\ pc[s] = "copy"
  /\ staged' = [staged EXCEPT ![s] =
       [d \in DOMAIN @ \union {root[s]} |-> IF d = root[s] THEN Source(s) ELSE @[d]]]
  /\ Goto(s, IF found[s] = None THEN "staged" ELSE "absent")
  /\ UNCHANGED <<edited, reading, found, keys, needed, launched, stored, memos, faults>>

\* The expression must be in the copy.
CheckStaged(s) ==
  /\ pc[s] = "staged"
  /\ Goto(s, IF Role(s).complete THEN "eval" ELSE "raised")
  /\ UNCHANGED <<edited, reading, found, staged, keys, needed, launched, stored, memos, faults>>

\* Best effort.
_write_remote_closure_memo(s, c) ==
  \/ /\ remoteMemo' = IF HasRemote(s)
                      THEN [remoteMemo EXCEPT ![Role(s).store][MemoKey(s)] = c]
                      ELSE remoteMemo
     /\ UNCHANGED faults
  \/ HasRemote(s) /\ Fault /\ UNCHANGED remoteMemo

\* In both memos, under the first fingerprint.
store_cached_closure_path(s, c) ==
  _write_local_closure_memo(s, c) /\ _write_remote_closure_memo(s, c)

eval_closure_path(s) == Outputs[<<staged[s][root[s]], Role(s).target>>]

Evaluate(s) ==
  /\ pc[s] = "eval"
  /\ found' = [found EXCEPT ![s] = eval_closure_path(s)]
  /\ store_cached_closure_path(s, eval_closure_path(s))
  /\ Goto(s, "evaluated")
  /\ UNCHANGED <<edited, reading, staged, keys, needed, launched, stored>>

\* Mutant: the builds are told apart by closure alone.
SameBuild_closure(k, l) == k[1] = l[1]

\* Two builds are one: the closure and the store are the same.
SameBuild(k, l) == k = l

Scheduled(s, k) == \E i \in DOMAIN needed[s] : SameBuild(needed[s][i].key, k)

\* The role's key is kept; a closure that its store lacks is built, once, if the
\* role allows it.
Collect(s, inStore) ==
  LET k == <<found[s], Role(s).store>>
  IN  /\ keys' = [keys EXCEPT ![s] = Append(@, k)]
      /\ \/ inStore /\ Goto(s, "role") /\ UNCHANGED needed
         \/ ~inStore /\ ~Role(s).build /\ Goto(s, "raised") /\ UNCHANGED needed
         \/ /\ ~inStore /\ Role(s).build
            /\ Goto(s, "role")
            /\ needed' = IF Scheduled(s, k) THEN needed
                         ELSE [needed EXCEPT ![s] =
                                 Append(@, [key |-> k, digest |-> digest[s], role |-> Role(s)])]

InStore(s) == <<found[s], Role(s).store>> \in stored

\* A memo hit: the store is asked; the tree is staged only for a build.
CheckHit(s) ==
  /\ pc[s] = "hit"
  /\ \/ /\ InStore(s)
        /\ Collect(s, TRUE)
        /\ UNCHANGED <<edited, reading, staged, launched, stored, memos, faults>>
     \/ ~InStore(s) /\ Locate(s, "absent") /\ UNCHANGED <<keys, needed>>
  /\ UNCHANGED found

CollectHit(s) ==
  /\ pc[s] = "absent"
  /\ Collect(s, FALSE)
  /\ UNCHANGED <<edited, reading, found, staged, launched, stored, memos, faults>>

\* After an evaluation: the store is asked; a tree no build needs is removed.
CheckEvaluated(s) ==
  /\ pc[s] = "evaluated"
  /\ Collect(s, InStore(s))
  /\ staged' = IF ~InStore(s) THEN staged
               ELSE [staged EXCEPT ![s] = [d \in DOMAIN @ \ {root[s]} |-> @[d]]]
  /\ UNCHANGED <<edited, reading, found, launched, stored, memos, faults>>

\* Something the submit reads, writes or asks for fails.  A copy that broke off
\* is removed.
Raise(s) ==
  /\ pc[s] \in {"fingerprint", "miss", "copy", "hit", "eval", "evaluated", "render"}
  /\ Fault
  /\ Goto(s, "raised")
  /\ UNCHANGED <<edited, reading, found, staged, keys, needed, launched, stored, memos>>

-----------------------------------------------------------------------------
(* The build steps.                                                        *)

\* Mutant: the name is not compared with the names of other steps.
Unused_any(name, taken) == <<name, 0>>

\* The name, or the name with the first suffix that is free.
Unused(name, taken) ==
  <<name, Min({i \in 0..Cardinality(taken) : <<name, i>> \notin taken})>>

\* The names of the build steps, in the order of needed_builds.
BuildNames(s) ==
  LET n == Len(needed[s])
      Taken(f, i) == workflow[s].steps \union {f[j] : j \in 1..(i - 1)}
  IN  CHOOSE f \in [1..n -> {ShortName[k] : k \in Keys} \X (0..(n + Cardinality(workflow[s].steps)))] :
        \A i \in 1..n : f[i] = Unused(ShortName[needed[s][i].key], Taken(f, i))

_make_build_step(n) ==
  [key |-> n.key, digest |-> n.digest, target |-> n.role.target,
   consent |-> n.role.build, status |-> "waiting"]

\* The builds of the <<closure, store>> of the step's roles.
Awaited(s, step, names) ==
  {names[n] : n \in {n \in DOMAIN names :
     \E i \in DOMAIN Roles_(s) : Roles_(s)[i].step = step /\ keys[s][i] = needed[s][n].key}}

\* The build steps are put in front, and every step waits for those of its roles.
_inject_build_steps(s) ==
  /\ pc[s] = "inject"
  /\ LET names == BuildNames(s)
         Needs(b) == CHOOSE n \in DOMAIN names : names[n] = b
     IN  /\ builds' = [builds EXCEPT ![s] =
              [b \in {names[n] : n \in DOMAIN names} |-> _make_build_step(needed[s][Needs(b)])]]
         /\ depends' = [depends EXCEPT ![s] =
              [x \in workflow[s].steps |-> Awaited(s, x, names)]]
  /\ Goto(s, "render")
  /\ UNCHANGED <<edited, reading, found, staged, keys, needed, workflow, started,
                 stored, memos, faults>>

\* The manifests name the closure each role was resolved to.  The store is asked
\* again for those that are not to be built.  The workflow is launched with the
\* staging directory as it is.
_resolve_nix_role(s) ==
  /\ pc[s] = "render"
  /\ LET Refused == \E i \in DOMAIN Roles_(s) : ~Roles_(s)[i].build /\ keys[s][i] \notin stored
     IN  Goto(s, IF Refused THEN "raised" ELSE "launched")
  /\ UNCHANGED <<edited, reading, found, staged, keys, needed, launched, stored, memos, faults>>

-----------------------------------------------------------------------------
(* The cluster, as the controller runs the steps.                          *)

\* A build step builds from the directory that was uploaded under its digest, and
\* pushes; it fails when the directory is not there, when something else than
\* the closure comes out, or for a reason of its own.
RunBuild(s, b) ==
  /\ pc[s] = "launched" /\ builds[s][b].status = "waiting"
  /\ LET build == builds[s][b]
         Ends(r) == builds' = [builds EXCEPT ![s][b].status = r]
         Sound == /\ build.digest \in DOMAIN staged[s]
                  /\ Outputs[<<staged[s][build.digest], build.target>>] = build.key[1]
     IN  \/ /\ Sound
            /\ Ends("succeeded")
            /\ stored' = stored \union {build.key}
            /\ UNCHANGED faults
         \/ ~Sound /\ Ends("failed") /\ UNCHANGED <<stored, faults>>
         \/ Sound /\ Ends("failed") /\ Fault /\ UNCHANGED stored
  /\ UNCHANGED <<submit, workflow, depends, started, memos>>

\* A step starts when the builds it waits for have succeeded.
StartStep(s, x) ==
  /\ pc[s] = "launched" /\ x \notin started[s]
  /\ \A b \in depends[s][x] : builds[s][b].status = "succeeded"
  /\ started' = [started EXCEPT ![s] = @ \union {x}]
  /\ UNCHANGED <<submit, workflow, builds, depends, stored, memos, faults>>

Next ==
  \E s \in Submits :
    \/ Edit(s) \/ NextRole(s) \/ fingerprint_nix_source_tree(s)
    \/ lookup_cached_closure_path(s) \/ Materialize(s) \/ copy_filtered(s)
    \/ CheckStaged(s) \/ Evaluate(s) \/ CheckHit(s) \/ CollectHit(s)
    \/ CheckEvaluated(s) \/ Raise(s) \/ _inject_build_steps(s) \/ _resolve_nix_role(s)
    \/ \E b \in DOMAIN builds[s] : RunBuild(s, b)
    \/ \E x \in workflow[s].steps : StartStep(s, x)

Spec == Init /\ [][Next]_vars

-----------------------------------------------------------------------------
(* Properties.                                                             *)

TypeOK ==
  /\ workflow \in [Submits -> Workflows]
  /\ pc \in [Submits -> {"role", "fingerprint", "lookup", "hit", "absent", "miss", "copy",
                         "staged", "eval", "evaluated", "inject", "render", "launched", "raised"}]
  /\ edited \in [Submits -> BOOLEAN]
  /\ digest \in [Submits -> Sources \union {None}] /\ root \in [Submits -> Sources \union {None}]
  /\ found \in [Submits -> Closures \union {None}]
  /\ \A s \in Submits :
       /\ staged[s] \in [DOMAIN staged[s] -> Sources] /\ DOMAIN staged[s] \subseteq Sources
       /\ keys[s] \in Seq(Keys) /\ Len(keys[s]) <= Len(Roles_(s))
       /\ pc[s] \in {"hit", "absent", "evaluated"} => found[s] # None
       /\ pc[s] = "eval" => root[s] \in DOMAIN staged[s]
       /\ \A i \in DOMAIN needed[s] : needed[s][i].key \in Keys /\ needed[s][i].role \in Roles
       /\ started[s] \subseteq workflow[s].steps
  /\ stored \subseteq Keys
  /\ localMemo \in [Machines -> [Sources \X Targets -> Closures \union {None}]]
  /\ remoteMemo \in [MemoStores -> [Sources \X Targets -> Closures \union {None}]]
  /\ faults \in 0..MaxFaults

\* When the pods of a step start, the closure each of its roles was resolved to
\* is in the store that role reads, wherever it came from and whatever was
\* edited meanwhile: chain-nix-init finds it.
ConsumersAreSupplied ==
  \A s \in Submits : \A i \in DOMAIN Roles_(s) :
    Roles_(s)[i].step \in started[s] => keys[s][i] \in stored

\* As long as nobody edits the code under a submit, every role is resolved to
\* what nix makes of its source and target, though the answer may come from a
\* memo that another submit wrote.
ClosuresAreTheirs ==
  (\A s \in Submits : ~edited[s]) =>
    \A s \in Submits : \A i \in DOMAIN keys[s] :
      LET r == Roles_(s)[i] IN keys[s][i] = <<Outputs[<<r.source, r.target>>], r.store>>

\* A launched workflow builds each <<closure, store>> at most once, under a name
\* no other step has, with the leave of the role it is built for; and every
\* build is waited for, by steps with a role that reads it from that store.
BuildsAreWired ==
  \A s \in Submits : pc[s] = "launched" =>
    /\ DOMAIN builds[s] \intersect workflow[s].steps = {}
    /\ Cardinality({needed[s][n].key : n \in DOMAIN needed[s]}) = Cardinality(DOMAIN builds[s])
    /\ \A b \in DOMAIN builds[s] :
         /\ builds[s][b].consent
         /\ \E x \in workflow[s].steps : b \in depends[s][x]
    /\ \A x \in workflow[s].steps : \A b \in depends[s][x] :
         \E i \in DOMAIN Roles_(s) : Roles_(s)[i].step = x /\ keys[s][i] = builds[s][b].key

=============================================================================
