--------------------------- MODULE MCNixResolution ---------------------------
(* Two submits of two machines over two binary caches; and the selection   *)
(* of their sources, over every pattern of at most three components.       *)
EXTENDS Staging

MCSources == {"old", "new"}
MCTargets == {"train", "serve"}
MCClosures == {"train1", "train2", "serve1"}
MCStores == {"x", "y"}

\* The change from old to new rebuilds train and leaves serve as it was.
MCOutputs == [k \in MCSources \X MCTargets |->
  IF k[2] = "serve" THEN "serve1" ELSE IF k[1] = "old" THEN "train1" ELSE "train2"]

\* The cut hashes of train2 and serve1 are the same.
MCShortName == [k \in MCClosures \X MCStores |->
  IF k[1] = "train1" THEN "nix-build-a" ELSE IF k[2] = "x" THEN "nix-build-b" ELSE "nix-build-c"]

ARole(step, source, target, store, build, valid, complete) ==
  [step |-> step, source |-> source,
   edited |-> IF source = "old" THEN "new" ELSE "old", target |-> target, store |-> store,
   build |-> build, valid |-> valid, complete |-> complete]
Good(step, source, target, store) == ARole(step, source, target, store, TRUE, TRUE, TRUE)

First == <<"one", 0>>
Second == <<"nix-build-b", 0>>   \* a user's step named as a build step

Pair(a, b) == [steps |-> {First, Second}, roles |-> <<a, b>>]
Refused(build, valid, complete) ==
  Pair(Good(First, "new", "train", "x"),
       ARole(Second, "old", "serve", "x", build, valid, complete))

MCWorkflows ==
  {Pair(Good(First, "new", "train", "x"), Good(Second, "new", u, "x")) : u \in MCTargets}
  \union
  {Refused(TRUE, TRUE, TRUE), Refused(FALSE, TRUE, TRUE),
   Refused(TRUE, FALSE, TRUE), Refused(TRUE, TRUE, FALSE)}
  \union
  {[steps |-> {First}, roles |-> <<Good(First, "new", "train", "x"), Good(First, "new", "train", "y")>>]}

MCStock == {{}, {<<"serve1", "x">>}}

MCMachine == [s \in Submits |-> IF s = "s1" THEN "m1" ELSE "m2"]

Tree ==
  {<<"main.py">>, <<"data">>, <<"src", "main.py">>, <<"src", "data">>, <<"lib", "main.py">>,
   <<"src", "lib", "main.py">>, <<"lib", "src", "main.py">>, <<"src", "lib", "lib", "data">>}
EditedTree ==
  (Tree \ {<<"data">>, <<"src", "lib", "main.py">>})
  \union {<<"src", "src", "lib", "main.py">>, <<"data", "src">>}
MCTrees == {Tree, EditedTree}

Written(parts) == {[anchored |-> a, dir |-> d, parts |-> parts] : a \in BOOLEAN, d \in BOOLEAN}
AllPatterns ==
  UNION {Written(q) : q \in UNION {[1..n -> {"src", "lib", "main.py"} \union Globs] : n \in 1..3}}

\* A directory is gone into for the sake of one pattern: lists of one tell all.
MCIncludes == {{}} \union {{p} : p \in AllPatterns}
MCExcludes ==
  {{}, Written(<<"src", "lib">>)} \union {{p} : p \in Written(<<"lib">>) \union Written(<<"*.py">>)}

MCCode == [s \in Submits |-> [e \in BOOLEAN |-> IF e THEN EditedTree ELSE Tree]]
=============================================================================
