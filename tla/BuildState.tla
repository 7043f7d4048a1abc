----------------------------- MODULE BuildState -----------------------------
(***************************************************************************)
(* The build pipeline (Makefile, rules/*.make): every package goes through *)
(* stages, each a recipe that ends with touching a state file, and make    *)
(* runs the recipes whose state file is missing or older than one it       *)
(* depends on.  The packages end up in a feed, and from there, through an  *)
(* index of the feed, in the root file system.                             *)
(*                                                                         *)
(* What a recipe makes is the set of the sources it was made from, {} if   *)
(* it is not there or only half made.  Recipes fail, and everything may be *)
(* interrupted.  make without -j is meant: one recipe at a time, in the    *)
(* order of the prerequisites.  No two files have the same time, and of    *)
(* the times of files only what make compares is kept.                     *)
(***************************************************************************)
EXTENDS Naturals, FiniteSets, Sequences

CONSTANTS
  Pkg, Packages,  \* the packages, and PACKAGES, the order of their rules
  Uses,        \* [Pkg -> SUBSET Pkg]: packages to be built and installed before
  Commands,    \* the goals of make that the user calls for
  MaxVersion,  \* bound: the last version of any source archive
  MaxFaults    \* bound: failing recipes and interruptions

ASSUME BuildAssumption ==
  /\ \A p \in Pkg : \E i \in DOMAIN Packages : Packages[i] = p
  /\ Uses \in [Pkg -> SUBSET Pkg] /\ MaxVersion \in Nat \ {0} /\ MaxFaults \in Nat
  \* the rules have no circular dependencies
  /\ \A T \in SUBSET Pkg : T # {} => \E p \in T : Uses[p] \cap T = {}

VARIABLES
  there,      \* the source archives and state files that exist
  newer,      \* the pairs of a target and a prerequisite that is newer, both there
  src,        \* [Pkg -> version of the source archive]
  tree,       \* [Pkg -> what the build directory was extracted from]
  built,      \* [Pkg -> what is compiled in it]
  tools,      \* [Pkg -> what is installed for other packages to use]
  feed,       \* [Pkg -> what its .ipk is made of]
  index,      \* [Pkg -> what the feed's index points to]
  root,       \* [Pkg -> what is installed in the root file system]
  goal,       \* what make was called for
  considered, \* the files it is done with
  pc, target, \* the step it is at, and the target whose recipe runs
  todo,       \* what is still to be removed
  broken,     \* history: rootclean or clean was broken off, and no clean ended since
  finished,   \* history: the goal that was reached last, if nothing came after
  faults

products == <<tree, built, tools, feed, index, root>>
make == <<goal, considered, pc, target, todo>>
files == <<there, newer>>
vars == <<files, src, products, make, broken, finished, faults>>

Stages == {"get", "extract", "prepare", "compile", "install", "targetinstall",
           "imageinstall"}
Source(p) == <<p, "source">>
Stamp(p, stage) == <<p, stage>>
Feed == <<"virtual-image", "index">>
File == (Pkg \X (Stages \cup {"source"})) \cup {Feed}
Sources == {Source(p) : p \in Pkg}

\* rules/template: what the state file of every stage depends on
Prerequisites == [t \in File |->
  CASE t[2] \in {"source", "index"} -> {}
    [] t[2] = "get" -> {Source(t[1])}
    [] t[2] = "extract" -> {Stamp(t[1], "get")}
    [] t[2] = "prepare" -> {Stamp(t[1], "extract")}
    [] t[2] = "compile" -> {Stamp(t[1], "prepare")} \cup {Stamp(q, "install") : q \in Uses[t[1]]}
    [] t[2] \in {"install", "targetinstall"} -> {Stamp(t[1], "compile")}
    [] t[2] = "imageinstall" -> {Stamp(t[1], "targetinstall"), Feed}]

Stale(t) == t \notin there \/ \E d \in Prerequisites[t] : d \notin there \/ <<t, d>> \in newer

\* f is removed or made new; those that are there and depend on it are older
Without(removed) ==
  /\ there' = there \ removed
  /\ newer' = {e \in newer : e[1] \notin removed /\ e[2] \notin removed}
Touched(f) ==
  /\ there' = there \cup {f}
  /\ newer' = {e \in newer : e[1] # f}
                \cup {<<t, f>> : t \in {u \in there : f \in Prerequisites[u]}}

\* The order in which make comes to the goals and to the prerequisites of one
\* of them: stage by stage, and the packages in the order of PACKAGES.
StageOrder == <<"source", "get", "extract", "prepare", "compile", "install",
                "targetinstall", "index", "imageinstall">>
PlaceIn(seq, x) == CHOOSE i \in DOMAIN seq : seq[i] = x
Position == [f \in File |->
  (Len(Packages) + 1) * PlaceIn(StageOrder, f[2])
    + (IF f = Feed THEN 0 ELSE PlaceIn(Packages, f[1]))]
First(open) == CHOOSE f \in open : \A g \in open : Position[f] <= Position[g]

\* image: world first, then the packages of the image
World == Pkg \X {"targetinstall"}
Image == World \cup Pkg \X {"imageinstall"}
Goals(g) == CASE g = "get" -> Pkg \X {"get"} [] g = "world" -> World [] g = "image" -> Image
              [] OTHER -> {}

Targets == Pkg \X Stages \cup {Feed}
\* all that an image is made of
Parts == {Feed} \cup Pkg \X (Stages \ {"install"})
           \cup {Stamp(q, "install") : q \in UNION {Uses[p] : p \in Pkg}}

Init ==
  /\ there = Sources /\ newer = {} /\ src = [p \in Pkg |-> 1]
  /\ tree = [p \in Pkg |-> {}] /\ built = tree /\ tools = tree /\ feed = tree
  /\ index = tree /\ root = tree
  /\ goal = "none" /\ considered = {} /\ pc = "idle" /\ target = Feed /\ todo = << >>
  /\ broken = FALSE /\ finished = "none" /\ faults = 0

Idle == pc = "idle"
Stops == /\ pc' = "idle" /\ goal' = "none" /\ considered' = {} /\ todo' = << >>
         /\ finished' = "none" /\ UNCHANGED target

-----------------------------------------------------------------------------
(* make get, world and image.                                              *)
Start(g) ==
  /\ Idle /\ goal' = g /\ pc' = "make" /\ considered' = Sources
  /\ IF g = "get" THEN Without(Pkg \X {"get"}) ELSE UNCHANGED files  \* getclean
  /\ finished' = "none" /\ UNCHANGED <<src, products, target, todo, broken, faults>>

\* the first prerequisite of the first of a target's ... that make is not done with
Demand(top) ==
  LET Open(t) == Prerequisites[t] \ considered
      demand[t \in File] == IF Open(t) = {} THEN t ELSE demand[First(Open(t))]
  IN demand[top]
ToDo == Goals(goal) \ considered

UpToDate(t) ==
  /\ ~Stale(t) /\ considered' = considered \cup {t}
  /\ UNCHANGED <<files, src, products, goal, pc, target, todo, broken, finished, faults>>

\* every call of mkipkg removes the state file of the feed's index
KeptIndex(t) == UNCHANGED files                          \* mutant
XMKIPKG(t) == IF t[2] = "targetinstall" THEN Without({Feed}) ELSE UNCHANGED files

\* what a recipe makes is not there until it ends
Half(t, stage, product) == IF t[2] = stage THEN [product EXCEPT ![t[1]] = {}] ELSE product
Recipe(t) ==
  /\ Stale(t) /\ pc' = "recipe" /\ target' = t /\ XMKIPKG(t)
  /\ tree' = Half(t, "extract", tree)
  /\ built' = Half(t, "extract", Half(t, "compile", built))
  /\ tools' = Half(t, "install", tools) /\ feed' = Half(t, "targetinstall", feed)
  /\ root' = Half(t, "imageinstall", root)
  /\ index' = IF t = Feed THEN [p \in Pkg |-> {}] ELSE index
  /\ UNCHANGED <<src, goal, considered, todo, broken, finished, faults>>

\* the sources are there: make is done with them from the start
Considers ==
  /\ pc = "make" /\ ToDo # {}
  /\ \E t \in Targets \cap {Demand(First(ToDo))} : UpToDate(t) \/ Recipe(t)

\* what a recipe cannot do without
Needed(t) ==
  \/ t[2] \in {"get", "extract", "index"}
  \/ t[2] = "prepare" /\ tree[t[1]] # {}
  \/ t[2] = "compile" /\ tree[t[1]] # {} /\ \A q \in Uses[t[1]] : tools[q] # {}
  \/ t[2] \in {"install", "targetinstall"} /\ built[t[1]] # {}
  \/ t[2] = "imageinstall" /\ index[t[1]] # {}

\* what the stages make
Extracted(p) == tree' = [tree EXCEPT ![p] = {<<p, src[p]>>}]
                /\ UNCHANGED <<built, tools, feed, index, root>>
Compiled(p) == /\ built' = [built EXCEPT ![p] = tree[p] \cup UNION {tools[q] : q \in Uses[p]}]
               /\ UNCHANGED <<tree, tools, feed, index, root>>
Installed(p) == tools' = [tools EXCEPT ![p] = built[p]]
                /\ UNCHANGED <<tree, built, feed, index, root>>
Packaged(p) == feed' = [feed EXCEPT ![p] = built[p]]
               /\ UNCHANGED <<tree, built, tools, index, root>>
ImageInstalled(p) == root' = [root EXCEPT ![p] = index[p]]
                     /\ UNCHANGED <<tree, built, tools, feed, index>>
Indexed == index' = feed /\ UNCHANGED <<tree, built, tools, feed, root>>

Made(t) ==
  \/ t[2] = "index" /\ Indexed
  \/ t[2] \in {"get", "prepare"} /\ UNCHANGED products
  \/ t[2] = "extract" /\ Extracted(t[1])
  \/ t[2] = "compile" /\ Compiled(t[1])
  \/ t[2] = "install" /\ Installed(t[1])
  \/ t[2] = "targetinstall" /\ Packaged(t[1])
  \/ t[2] = "imageinstall" /\ ImageInstalled(t[1])

RecipeEnds ==
  /\ pc = "recipe" /\ Needed(target) /\ Made(target) /\ pc' = "touch"
  /\ UNCHANGED <<files, src, goal, considered, target, todo, broken, finished, faults>>

Touch ==
  /\ pc = "touch" /\ Touched(target) /\ pc' = "make"
  /\ considered' = considered \cup {target}
  /\ UNCHANGED <<src, products, goal, target, todo, broken, finished, faults>>

MakeEnds ==
  /\ pc = "make" /\ ToDo = {}
  /\ pc' = "idle" /\ goal' = "none" /\ considered' = {} /\ finished' = goal
  /\ UNCHANGED <<files, src, products, target, todo, broken, faults>>

NotThere == /\ pc = "recipe" /\ ~Needed(target) /\ Stops
            /\ UNCHANGED <<files, src, products, broken, faults>>

-----------------------------------------------------------------------------
(* Cleaning: what is removed, one command after the other.                 *)
Removes(what, of) == [what |-> what, of |-> of]

BuildFirst(p) == <<Removes("build", {p}), Removes("state", {p} \X Stages)>>    \* mutant
PackageClean(p) == <<Removes("state", {p} \X Stages), Removes("build", {p})>>
RootClean == <<Removes("root", Pkg), Removes("state", Pkg \X {"targetinstall"})>>
CleanAll == <<RootClean[1], RootClean[2], Removes("build", Pkg), Removes("state", Targets),
              Removes("feed", Pkg)>>

Cleans(name, removals) ==
  /\ Idle /\ pc' = "clean" /\ goal' = name /\ todo' = removals /\ finished' = "none"
  /\ UNCHANGED <<files, src, products, considered, target, broken, faults>>

Emptied(product, of) == [p \in Pkg |-> IF p \in of THEN {} ELSE product[p]]
\* the index that ipkg reads lies in the root file system
Removed(what, gone) ==
  /\ IF what = "state" THEN Without(gone) ELSE UNCHANGED files
  /\ IF what = "build" THEN tree' = Emptied(tree, gone) /\ built' = Emptied(built, gone)
     ELSE UNCHANGED <<tree, built>>
  /\ IF what = "root" THEN root' = Emptied(root, gone) /\ index' = Emptied(index, gone)
     ELSE UNCHANGED <<root, index>>
  /\ feed' = IF what = "feed" THEN Emptied(feed, gone) ELSE feed
  /\ UNCHANGED <<src, tools>>

CleanStep ==
  /\ pc = "clean"
  /\ IF todo = << >>
     THEN /\ Stops /\ broken' = (broken /\ goal # "all") /\ UNCHANGED <<files, src, products>>
     ELSE /\ Removed(Head(todo).what, Head(todo).of) /\ todo' = Tail(todo)
          /\ UNCHANGED <<goal, considered, pc, target, broken, finished>>
  /\ UNCHANGED faults

-----------------------------------------------------------------------------
(* What goes wrong, and what changes.                                      *)
Failing == faults < MaxFaults /\ faults' = faults + 1

RecipeFails == /\ pc = "recipe" /\ Failing /\ Stops
               /\ UNCHANGED <<files, src, products, broken>>

Kill ==
  /\ Failing /\ Stops
  /\ \/ pc \in {"make", "touch"} /\ UNCHANGED <<files, src, products, broken>>
     \/ pc = "recipe" /\ Needed(target) /\ Made(target) /\ UNCHANGED <<files, src, broken>>
     \/ /\ pc = "clean" /\ todo # << >> /\ broken' = (broken \/ goal # "package")
        /\ \E gone \in SUBSET (Head(todo).of \cap (there \cup Pkg)) :
             Removed(Head(todo).what, gone)

\* a new version of a source archive
NewSource(p) ==
  /\ Idle /\ (\A q \in Pkg : src[q] < MaxVersion) /\ src' = [src EXCEPT ![p] = @ + 1]
  /\ Touched(Source(p)) /\ finished' = "none"
  /\ UNCHANGED <<products, make, broken, faults>>

-----------------------------------------------------------------------------
Steps == Considers \/ RecipeEnds \/ Touch \/ MakeEnds
         \/ NotThere \/ CleanStep
User == \/ \E g \in {"get", "world", "image"} \cap Commands : Start(g)
        \/ \E p \in Pkg : NewSource(p) \/ Cleans("package", PackageClean(p))
        \/ Cleans("root", RootClean)
        \/ "all" \in Commands /\ Cleans("all", CleanAll)

Next == Steps \/ User \/ RecipeFails \/ Kill

\* What is started goes on.  Now and then the user makes an image, whatever
\* else they do.
Spec == Init /\ [][Next]_vars /\ WF_vars(Steps) /\ SF_vars(Start("image"))

-----------------------------------------------------------------------------
(* Newer than what depends on it is only what is there; make is at a       *)
(* target of its goal.                                                     *)
TypeOK ==
  /\ there \subseteq File /\ Sources \subseteq there
  /\ \A e \in newer : e[1] \in there /\ e[2] \in there /\ e[2] \in Prerequisites[e[1]]
  /\ src \in [Pkg -> 1..MaxVersion]
  /\ \A x \in {tree, built, tools, feed, index, root} :
       x \in [Pkg -> SUBSET (Pkg \X (1..MaxVersion))]
  /\ considered \subseteq File /\ target \in Targets /\ broken \in BOOLEAN
  /\ goal \in {"none", "get", "world", "image", "package", "root", "all"}
  /\ pc \in {"idle", "make", "recipe", "touch", "clean"}
  /\ pc \in {"recipe", "touch"} => target \notin considered

\* a package and all it is built with, directly or not
NeededBy == [p \in Pkg |->
  {q \in Pkg : \A S \in SUBSET Pkg : p \in S /\ (\A r \in S : Uses[r] \subseteq S) => q \in S}]
\* what a package is made of if all of it is new
Current(p) == {<<q, src[q]>> : q \in NeededBy[p]}

(* README:44: "state files (show in which state packages currently are     *)
(* during the compilation)": if no state file says that anything is to be  *)
(* done for an image, the root file system holds every package, made from  *)
(* the present sources of it and of all it uses, however often the build   *)
(* failed or was broken off before.  (Not so after a rootclean or clean    *)
(* that was broken off, until a clean ends.)                               *)
NothingToDoIsRight ==
  Idle /\ ~broken /\ (\A t \in Parts : ~Stale(t)) => \A p \in Pkg : root[p] = Current(p)

(* Makefile:170: an image leaves nothing to do: the index is made after    *)
(* the last package that removes its state file.                           *)
Settled == finished = "image" => \A t \in Parts : ~Stale(t)

(* Makefile: whatever was broken off, new sources came or was cleaned, the *)
(* images that follow are made to the end: no recipe misses for ever what  *)
(* an older state file vouches for, unless a rootclean or clean was broken *)
(* off and no clean ends after it.                                         *)
Recovers == []<>(finished = "image" \/ broken)

(* README:27: "Run 'make world' and you'll find a root tree in root/."     *)
WorldMakesRoot == finished = "world" => \A p \in Pkg : root[p] # {}
=============================================================================
