------------------------------ MODULE Workspace ------------------------------
(***************************************************************************)
(* Paths: how what a model writes becomes the file the bridge names, and   *)
(* how the path it is shown for that file is used again.                   *)
(*                                                                         *)
(* A path is the segments between its slashes and what stands before them: *)
(* the workspace's root, any other root, or none.  An empty segment is a   *)
(* doubled or a trailing slash.  A resolved path, a target's key, is the   *)
(* sequence of its names, or Outside.                                      *)
(*                                                                         *)
(* Linux keeps a backslash in a name, and so do find, stat and the keys    *)
(* that a listing makes; workspaceRel and the bridge's relativePath read   *)
(* it as a slash.  What a model writes is taken as it is after that.       *)
(***************************************************************************)
EXTENDS Integers, FiniteSets, SequencesExt

CONSTANTS
  Names,        \* names of files and directories without a backslash
  Backslashed,  \* names with one
  Slashed,      \* what each of these is when its backslashes are slashes
  MaxSegments,  \* the bound on a path's length
  MaxCwd,       \* the bound on a working directory's length
  Outside       \* a path that is refused

Segments == Names \cup {"", ".", ".."}

ASSUME WorkspaceAssumption ==
  /\ (Names \cup Backslashed) \cap {"", ".", ".."} = {} /\ Names \cap Backslashed = {}
  /\ Slashed \in [Backslashed -> Seq(Segments)]
  /\ Outside \notin Seq(Names \cup Backslashed)

VARIABLES
  path,    \* the path in use
  cwd,     \* the working directory it is used in
  target   \* the key of the file that it stands for

vars == <<path, cwd, target>>

Roots == {"workspace", "elsewhere", "none"}

\* A path that begins with a slash has a root.
PathsUpTo(n) ==
  {p \in [root: Roots, segments: BoundedSeq(Segments, n)] :
     p.root = "none" /\ Len(p.segments) > 1 => p.segments[1] # ""}

Paths == PathsUpTo(MaxSegments)
Cwds  == PathsUpTo(MaxCwd)

WorkspaceRoot == <<"home", "rakazo">>

\* replaceAll("\\", "/")
Slashes(segments) ==
  FlattenSeq([i \in DOMAIN segments |->
                IF segments[i] \in Backslashed THEN Slashed[segments[i]] ELSE <<segments[i]>>])

\* Mutant: there is nothing above the root.
DescendClamped(rel, segment) ==
  CASE segment \in {"", "."} -> rel
    [] segment = ".." -> IF rel = <<>> THEN rel ELSE Front(rel)
    [] OTHER -> Append(rel, segment)

\* Mutant: a single dot is a name.
DescendThroughDot(rel, segment) ==
  IF rel = Outside THEN Outside
  ELSE CASE segment = ""   -> rel
         [] segment = ".." -> IF rel = <<>> THEN Outside ELSE Front(rel)
         [] OTHER          -> Append(rel, segment)

Descend(rel, segment) ==
  IF rel = Outside THEN Outside
  ELSE CASE segment \in {"", "."} -> rel
         [] segment = ".."        -> IF rel = <<>> THEN Outside ELSE Front(rel)
         [] OTHER                 -> Append(rel, segment)

\* Where the first n segments lead from the root.
Walk(segments) ==
  LET at[n \in 0..Len(segments)] ==
        IF n = 0 THEN <<>> ELSE Descend(at[n - 1], segments[n])
  IN at

Follow(segments) == Walk(segments)[Len(segments)]

\* An absolute path lies under the root; any other is joined to the base.
WorkspaceRel(p, base) ==
  CASE p.root = "elsewhere" -> Outside
    [] p.root = "workspace" -> Follow(Slashes(p.segments))
    [] OTHER -> Follow(base \o Slashes(p.segments))

\* A working directory outside the workspace counts as its root.
CwdBase(dir) ==
  LET rel == WorkspaceRel(dir, <<>>) IN IF rel = Outside THEN <<>> ELSE rel

Blank(p) == p.root = "none" /\ \A i \in DOMAIN p.segments : p.segments[i] = ""

Resolve(p, dir) == IF Blank(p) THEN Outside ELSE WorkspaceRel(p, CwdBase(dir))

\* The path as commands and the model see it.
DisplayPath(rel) == [root |-> "workspace", segments |-> rel]

\* posix.relative: up from the one to what both share, and down to the other.
Relative(from, to) ==
  LET shared == Len(LongestCommonPrefix({from, to}))
  IN [i \in 1..Len(from) - shared |-> ".."] \o SubSeq(to, shared + 1, Len(to))

\* Mutant: what begins with two dots goes up.
ContainsPathByDots(parent, child) ==
  LET way == Relative(parent, child) IN way = <<>> \/ way[1] \notin {"..", "..c"}

ContainsPath(parent, child) ==
  LET way == Relative(parent, child) IN way = <<>> \/ way[1] # ".."

\* filter(Boolean): the non-empty ones of the first n segments.
Kept(segments) ==
  LET kept[n \in 0..Len(segments)] ==
        CASE n = 0 -> <<>>
          [] n # 0 /\ segments[n] = "" -> kept[n - 1]
          [] OTHER -> Append(kept[n - 1], segments[n])
  IN kept

\* What a path begins with for a rule that has no root.
Leading(p) == IF p.root = "workspace" THEN WorkspaceRoot ELSE <<>>

\* Mutant: a backslash is part of a name.
PartsUnconverted(p) == SelectSeq(Leading(p) \o p.segments, LAMBDA part : part # "")

Parts(p) ==
  LET segments == Leading(p) \o Slashes(p.segments) IN Kept(segments)[Len(segments)]

\* Mutant: a dot segment is dropped like an empty one, a double dot too.
RelativePathDropping(p) == SelectSeq(Parts(p), LAMBDA part : part \notin {".", ".."})

\* The bridge's own rule.  It drops the slash before an absolute path.
RelativePath(p) ==
  IF \E i \in DOMAIN Parts(p) : Parts(p)[i] \in {".", ".."} THEN Outside ELSE Parts(p)
-----------------------------------------------------------------------------
TypeOK == path \in [root: Roots, segments: Seq(Segments \cup Backslashed)] /\ cwd \in Cwds
            /\ target \in Seq(Names \cup Backslashed) \cup {Outside}

\* The model names a file.
Init ==
  /\ path \in Paths /\ cwd \in Cwds
  /\ target = Resolve(path, cwd)

\* It takes up the path it was shown, from whatever directory.
UseShownPath ==
  /\ target # Outside
  /\ path' = DisplayPath(target)
  /\ cwd' \in Cwds
  /\ target' = Resolve(path', cwd')

\* It is shown an entry of a listing, whose name is as find prints it.
ListDir ==
  /\ target # Outside /\ Len(target) < MaxSegments
  /\ \E name \in Names \cup Backslashed : target' = Append(target, name)
  /\ path' = DisplayPath(target')
  /\ cwd' \in Cwds

Next == UseShownPath \/ ListDir

Spec == Init /\ [][Next]_vars
-----------------------------------------------------------------------------
(* What the two rules are worth.                                            *)

\* The reference: how deep a path is after its first i segments, and the
\* segments that no later ".." takes back.
IsName(segment) == segment \notin {"", ".", ".."}

Depth(segments, i) ==
  Cardinality({j \in 1..i : IsName(segments[j])}) - Cardinality({j \in 1..i : segments[j] = ".."})

Lasting(segments, i) ==
  /\ IsName(segments[i])
  /\ \A j \in i+1..Len(segments) : Depth(segments, j) >= Depth(segments, i)

\* The k-th name left is the one that the path went k deep by, and lasts.
Lexical(segments) ==
  IF \E i \in DOMAIN segments : Depth(segments, i) < 0 THEN Outside
  ELSE [k \in 1..Depth(segments, Len(segments)) |->
          segments[CHOOSE i \in DOMAIN segments :
                     Lasting(segments, i) /\ Depth(segments, i) = k]]

\* A path is refused exactly when it is blank, has another root, or goes above
\* the workspace at some point, even if it comes back; otherwise it names what
\* is left of the working directory and itself when every ".." took one name.
PathsResolveLexically ==
  LET way == Slashes(path.segments)
      below == CASE path.root = "workspace" \/ cwd.root = "elsewhere" -> <<>>
                 [] Lexical(cwd.segments) = Outside -> <<>>
                 [] OTHER -> cwd.segments
  IN Resolve(path, cwd) = IF Blank(path) \/ path.root = "elsewhere" THEN Outside
                          ELSE Lexical(below \o way)

\* A target without a backslash means one file everywhere: the bridge takes its
\* key as it is, and the path shown for it, also as an entry of a listing, leads
\* back to it from whatever directory.  A listed file with one in its name, or
\* in that of a directory above it, is reached neither way; but where the key is
\* not refused, it and the path mean the same other file.
TargetKeepsItsMeaning ==
  LET shown == Resolve(DisplayPath(target), cwd)
      sent  == RelativePath([root |-> "none", segments |-> target])
  IN target # Outside =>
       IF target \in Seq(Names) THEN shown = target /\ sent = target
       ELSE shown # target /\ sent \in {shown, Outside}

\* A directory contains itself and what is below it, nothing else, also where
\* a name begins with two dots.
ContainsIsBelow ==
  target # Outside =>
    (ContainsPath(CwdBase(cwd), target) <=> IsPrefix(CwdBase(cwd), target))

\* A path that the plugin's tools and the file provider both take is the same
\* file to both when it has no root, though only the provider follows "..".  One
\* in the workspace's root is another file to the bridge: it keeps the root as
\* the names of two directories.
BothRulesAgree ==
  LET rel == Resolve(path, DisplayPath(<<>>)) IN
  rel # Outside /\ RelativePath(path) # Outside => RelativePath(path) = Leading(path) \o rel
=============================================================================
