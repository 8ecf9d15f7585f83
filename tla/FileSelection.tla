---------------------------- MODULE FileSelection ----------------------------
(***************************************************************************)
(* Which files of code.path a submit stages (symlink.py, glob_match.py):   *)
(* the same walk selects the files that are linked for the upload, those   *)
(* that are copied for nix, and those that are fingerprinted.              *)
(*                                                                         *)
(* A path is the sequence of its names.  A pattern is its components with  *)
(* what its slashes say.  A component is a name, or one of three globs;    *)
(* "*" stands for itself and for "**" where only globstar tells them apart *)
(***************************************************************************)
EXTENDS Naturals, Sequences

CONSTANTS
  Names,        \* of directories and files
  PythonNames,  \* those that "*.py" matches
  Trees,        \* what code.path may hold: sets of files
  Includes, Excludes  \* the lists of patterns looked at, as sets

Globs == {"*", "**", "*.py"}

Patterns ==
  [anchored : BOOLEAN,   \* begins with a slash
   dir : BOOLEAN,        \* ends with one
   parts : Seq(Names \union Globs) \ {<<>>}]

ASSUME SelectionAssumption ==
  /\ Names \intersect Globs = {} /\ PythonNames \subseteq Names
  /\ \A tree \in Trees : tree \subseteq Seq(Names) \ {<<>>}
  /\ UNION Includes \subseteq Patterns /\ UNION Excludes \subseteq Patterns

Name(path) == path[Len(path)]

\* What one component matches: fnmatch lets a star run over slashes.
Covers(c, path) ==
  \/ path = <<c>>
  \/ c \in {"*", "**"}
  \/ c = "*.py" /\ Name(path) \in PythonNames

\* The path falls into pieces, one for each component; ends[i] is where the
\* i-th one ends.
fnmatch(path, parts) ==
  \E ends \in [DOMAIN parts -> DOMAIN path] :
    LET Begin(i) == IF i = 1 THEN 1 ELSE ends[i - 1] + 1
    IN  /\ ends[Len(parts)] = Len(path)
        /\ \A i \in DOMAIN parts :
             Begin(i) <= ends[i] /\ Covers(parts[i], SubSeq(path, Begin(i), ends[i]))

\* Every "**" is a "*", or is not there.
_expand_globstar(parts) ==
  LET Places == DOMAIN parts
      InOrder(kept) == \A i, j \in DOMAIN kept : i < j => kept[i] < kept[j]
      KeepsTheRest(kept) == \A k \in Places : parts[k] = "**" \/ \E i \in DOMAIN kept : kept[i] = k
  IN  {[i \in DOMAIN kept |-> parts[kept[i]]] :
         kept \in {e \in UNION {[1..m -> Places] : m \in Places} : InOrder(e) /\ KeepsTheRest(e)}}

fnmatch_glob(path, parts) == \E v \in _expand_globstar(parts) : fnmatch(path, v)

-----------------------------------------------------------------------------

_matches_pattern(path, p) ==
  \/ ~p.anchored /\ fnmatch_glob(<<Name(path)>>, p.parts)
  \/ fnmatch_glob(path, p.parts)

\* The directories a path is in, itself left out.
Ancestors(path) == {SubSeq(path, 1, i) : i \in 1..(Len(path) - 1)}

\* An anchored pattern with a final slash is compared as it is written.
Within(dir, parts) == Len(parts) <= Len(dir) /\ SubSeq(dir, 1, Len(parts)) = parts

_dir_matches_exclude(dir, exclude) ==
  \E p \in exclude :
    \/ p.anchored /\ p.dir /\ Within(dir, p.parts)
    \/ p.anchored /\ ~p.dir /\ fnmatch(dir, p.parts)
    \/ ~p.anchored /\ fnmatch(<<Name(dir)>>, p.parts)

_is_in_excluded_directory(path, exclude) ==
  \E d \in Ancestors(path) : _dir_matches_exclude(d, exclude)

\* Of the patterns to include, only those with a final slash stand for
\* directories, and an anchored one only for those at the root.
_is_in_included_directory(path, include) ==
  \E d \in Ancestors(path), p \in include :
    p.dir /\ (p.anchored => Len(d) = 1) /\ fnmatch(<<Name(d)>>, p.parts)

MatchesFile(path, patterns) == \E p \in patterns : ~p.dir /\ _matches_pattern(path, p)

_should_include(path, include, exclude) ==
  /\ ~_is_in_excluded_directory(path, exclude)
  /\ ~MatchesFile(path, exclude)
  /\ \/ include = {}
     \/ _is_in_included_directory(path, include)
     \/ MatchesFile(path, include)

\* Mutant: the components below the directory are not left out.
_pattern_could_match_under_exact(dir, p) ==
  \/ ~p.anchored /\ Len(p.parts) = 1
  \/ fnmatch(dir, p.parts)

\* Component by component, as far as both go.
_pattern_could_match_under(dir, p) ==
  \/ ~p.anchored /\ Len(p.parts) = 1
  \/ \A i \in DOMAIN dir \intersect DOMAIN p.parts : fnmatch(<<dir[i]>>, <<p.parts[i]>>)

\* The walk goes into a directory unless it is excluded or nothing below it
\* can match.
Descends(dir, include, exclude) ==
  /\ ~_dir_matches_exclude(dir, exclude)
  /\ include = {} \/ \E p \in include : _pattern_could_match_under(dir, p)

_iter_included_files(tree, include, exclude) ==
  {f \in tree :
     /\ \A d \in Ancestors(f) : Descends(d, include, exclude)
     /\ _should_include(f, include, exclude)}

-----------------------------------------------------------------------------

(***************************************************************************)
(* The patterns for which pruning by components is right: those that stand *)
(* for directories, those without a slash, and names followed by nothing   *)
(* but stars, such as src/lib, src/* and src/**/*.  It is not for src/*.py *)
(* or src/*/lib, whose globs may run over a slash; nor for src/**, which   *)
(* selects every file called src besides.                                  *)
(***************************************************************************)
Stars == {"*", "**"}

Tame(p) ==
  \/ p.dir
  \/ ~p.anchored /\ Len(p.parts) = 1
  \/ /\ \A i \in DOMAIN p.parts :
          p.parts[i] \in Names \/ \A j \in i..Len(p.parts) : p.parts[j] \in Stars
     /\ p.anchored \/ \E i \in 2..Len(p.parts) : p.parts[i] # "**"

Exact(tree, include, exclude) ==
  _iter_included_files(tree, include, exclude)
    = {f \in tree : _should_include(f, include, exclude)}

\* The directories the walk does not go into hold no file that the rules
\* select, as long as every pattern to include is tame.
TameWalkIsExact ==
  [tree \in Trees |->
     \A include \in Includes, exclude \in Excludes :
       (\A p \in include : Tame(p)) => Exact(tree, include, exclude)]
=============================================================================
