---------------------------- MODULE MCTransplant -----------------------------
(* Model values for module Transplant.                                     *)
EXTENDS Transplant, TLC

CONSTANTS a, b

TwoNames == {a, b}

Root == <<>> :> Dir

\* what a name may stand for: nothing, a file, a directory with up to two files, or
\* one with a directory in it
Files(p) ==
  {<<>>, p :> 0, p :> IF Last(p) = a THEN 1 ELSE 2}
Directories(p) ==
  {(p :> Dir) @@ f @@ g : f \in Files(Append(p, a)), g \in Files(Append(p, b))}
    \cup {(p :> Dir) @@ (Append(p, a) :> Dir) @@ f : f \in Files(p \o <<a, b>>)}

SmallTrees ==
  {Root @@ f @@ g : f \in Files(<<a>>) \cup Directories(<<a>>),
                    g \in Files(<<b>>) \cup Directories(<<b>>)}

\* without empty files
FullTrees == {tree \in SmallTrees : \A p \in DOMAIN tree : tree[p] # 0}

\* nothing, an empty directory, or one with a file or a directory in the way
FewTargets ==
  {<<>>, Root, Root @@ (<<a>> :> 3), Root @@ (<<b>> :> Dir)}

=============================================================================
