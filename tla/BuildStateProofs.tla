-------------------------- MODULE BuildStateProofs --------------------------
(***************************************************************************)
(* When the state files leave nothing to do, the root file system is       *)
(* complete and new, for any packages, goals, faults and interruptions.    *)
(*                                                                         *)
(* A state file that is there and older than nothing it depends on vouches *)
(* for what its recipe made: what it made is made of what is there now.    *)
(* That holds through the recipe too, because a target stays stale until   *)
(* it is touched; and touching it makes all stale that depend on it.       *)
(***************************************************************************)
EXTENDS BuildState, TLAPS

\* the targets that make would leave alone
Fresh == {t \in Targets : ~Stale(t)}

Sets == SUBSET (Pkg \X Nat)
Types ==
  /\ there \subseteq File /\ target \in Targets /\ src \in [Pkg -> Nat]
  /\ tree \in [Pkg -> Sets] /\ built \in [Pkg -> Sets] /\ tools \in [Pkg -> Sets]
  /\ feed \in [Pkg -> Sets] /\ index \in [Pkg -> Sets] /\ root \in [Pkg -> Sets]
  /\ broken \in BOOLEAN

\* what the state files of a package vouch for
Chain(p) == {Stamp(p, "extract"), Stamp(p, "prepare"), Stamp(p, "compile")}
TreeRight(p) ==
  Stamp(p, "get") \in Fresh /\ Stamp(p, "extract") \in Fresh => tree[p] = {<<p, src[p]>>}
BuiltRight(p) ==
  Chain(p) \subseteq Fresh /\ (\A q \in Uses[p] : Stamp(q, "install") \in Fresh)
    => built[p] = tree[p] \cup UNION {tools[q] : q \in Uses[p]}
ToolsRight(p) ==
  Chain(p) \subseteq Fresh /\ Stamp(p, "install") \in Fresh => tools[p] = built[p]
FeedRight(p) ==
  Chain(p) \subseteq Fresh /\ Stamp(p, "targetinstall") \in Fresh => feed[p] = built[p]
BuildRight(p) == TreeRight(p) /\ BuiltRight(p) /\ ToolsRight(p) /\ FeedRight(p)
IndexRight(p) ==
  Feed \in there /\ Stamp(p, "targetinstall") \in there => index[p] = feed[p]
RootRight(p) == Stamp(p, "imageinstall") \in Fresh => root[p] = index[p]

\* the removals between which the files vouch for what is gone
InRoot == pc = "clean" /\ goal # "package" /\ todo # << >> /\ Head(todo) = Removes("state", World)
InAll == pc = "clean" /\ goal # "package" /\ todo # << >> /\ Head(todo) = Removes("state", Targets)
Vouched ==
  broken \/ \A p \in Pkg : /\ InAll \/ BuildRight(p)
                           /\ InRoot \/ IndexRight(p)
                           /\ RootRight(p)

\* a target whose recipe runs is stale until it is touched, and then right
Running ==
  pc \in {"recipe", "touch"} =>
    target \notin Fresh /\ (target[2] = "targetinstall" => Feed \notin there)
Done ==
  pc = "touch" => \A p \in Pkg :
    /\ target = Stamp(p, "extract") => tree[p] = {<<p, src[p]>>}
    /\ target = Stamp(p, "compile") => built[p] = tree[p] \cup UNION {tools[q] : q \in Uses[p]}
    /\ target = Stamp(p, "install") => tools[p] = built[p]
    /\ target = Stamp(p, "targetinstall") => feed[p] = built[p]
    /\ target = Feed => index[p] = feed[p]
    /\ target = Stamp(p, "imageinstall") => root[p] = index[p]

\* what a clean target has still to remove, and what it has removed
Gone(removed) == removed \cap there = {}
CleanPackage ==
  \E p \in Pkg :
    \/ todo = PackageClean(p)
    \/ todo \in {<<Removes("build", {p})>>, << >>} /\ Gone({p} \X Stages)
CleanRoot == todo \in {RootClean, <<Removes("state", World)>>, << >>}
CleaningAll ==
  LET feeds == Removes("feed", Pkg)
      states == Removes("state", Targets)
      builds == Removes("build", Pkg)
  IN \/ todo = CleanAll
     \/ todo = <<Removes("state", World), builds, states, feeds>>
     \/ todo = <<builds, states, feeds>>
     \/ todo = <<states, feeds>>
     \/ todo \in {<<feeds>>, << >>} /\ Gone(Targets)
Cleaning ==
  pc = "clean" =>
    \/ goal = "package" /\ CleanPackage
    \/ goal = "root" /\ CleanRoot
    \/ goal = "all" /\ CleaningAll

Inv == Types /\ Vouched /\ Running /\ Done /\ Cleaning

-----------------------------------------------------------------------------
LEMMA StampsAreTargets ==
  ASSUME NEW p \in Pkg, NEW stage \in Stages
  PROVE  Stamp(p, stage) \in Targets /\ Stamp(p, stage) # Feed /\ Stamp(p, stage)[2] = stage
         /\ Stamp(p, stage)[1] = p
  BY DEF Stamp, Targets, Feed, Stages

LEMMA TargetKinds ==
  ASSUME NEW t \in Targets
  PROVE  \/ t = Feed /\ t[2] = "index"
         \/ \E p \in Pkg, stage \in Stages : t = Stamp(p, stage)
  BY DEF Stamp, Targets, Feed

\* what each state file depends on
LEMMA Depends ==
  ASSUME NEW p \in Pkg
  PROVE  /\ Source(p) \in Prerequisites[Stamp(p, "get")]
         /\ Stamp(p, "get") \in Prerequisites[Stamp(p, "extract")]
         /\ Stamp(p, "extract") \in Prerequisites[Stamp(p, "prepare")]
         /\ Stamp(p, "prepare") \in Prerequisites[Stamp(p, "compile")]
         /\ \A q \in Uses[p] : Stamp(q, "install") \in Prerequisites[Stamp(p, "compile")]
         /\ Stamp(p, "compile") \in Prerequisites[Stamp(p, "install")]
         /\ Stamp(p, "compile") \in Prerequisites[Stamp(p, "targetinstall")]
         /\ Stamp(p, "targetinstall") \in Prerequisites[Stamp(p, "imageinstall")]
         /\ Feed \in Prerequisites[Stamp(p, "imageinstall")]
<1>1. \A stage \in Stages : Stamp(p, stage) \in File
  BY DEF Stamp, File
<1>2. \A stage \in Stages : Stamp(p, stage)[1] = p /\ Stamp(p, stage)[2] = stage
  BY DEF Stamp
<1> QED
  BY <1>1, <1>2 DEF Prerequisites, Stages

LEMMA FeedDepends == Prerequisites[Feed] = {}
  BY DEF Prerequisites, Feed, File

LEMMA FreshIsThere ==
  ASSUME NEW t \in Fresh
  PROVE  t \in Targets /\ t \in there /\ Prerequisites[t] \subseteq there
  BY DEF Fresh, Stale

LEMMA FeedFresh == Feed \in Fresh <=> Feed \in there
  BY FeedDepends DEF Fresh, Stale, Targets

\* Removing files makes nothing fresh.
LEMMA RemovalKeepsStale ==
  ASSUME NEW removed, Without(removed)
  PROVE  Fresh' \subseteq Fresh /\ there' = there \ removed
<1> SUFFICES ASSUME NEW t \in Fresh' PROVE t \in Fresh
  BY DEF Without
<1>1. t \in Targets /\ t \in there' /\ \A d \in Prerequisites[t] : d \in there' /\ <<t, d>> \notin newer'
  BY DEF Fresh, Stale
<1>2. \A d \in Prerequisites[t] : <<t, d>> \notin newer
  <2> SUFFICES ASSUME NEW d \in Prerequisites[t], <<t, d>> \in newer PROVE FALSE
    OBVIOUS
  <2>1. t \notin removed /\ d \notin removed
    BY <1>1 DEF Without
  <2> QED
    BY <1>1, <2>1 DEF Without
<1> QED
  BY <1>1, <1>2 DEF Fresh, Stale, Without

\* Touching a file makes nothing else fresh, and stale what depends on it.
LEMMA TouchKeepsStale ==
  ASSUME NEW f \in File, Touched(f)
  PROVE  /\ \A t \in Fresh' : t = f \/ (t \in Fresh /\ f \notin Prerequisites[t])
         /\ there' = there \cup {f}
<1> SUFFICES ASSUME NEW t \in Fresh', t # f PROVE t \in Fresh /\ f \notin Prerequisites[t]
  BY DEF Touched
<1>1. t \in Targets /\ t \in there' /\ \A d \in Prerequisites[t] : d \in there' /\ <<t, d>> \notin newer'
  BY DEF Fresh, Stale
<1>2. t \in there
  BY <1>1 DEF Touched
<1>3. f \notin Prerequisites[t]
  <2> SUFFICES ASSUME f \in Prerequisites[t] PROVE FALSE
    OBVIOUS
  <2>1. <<t, f>> \in newer'
    BY <1>2 DEF Touched
  <2> QED
    BY <1>1, <2>1
<1>4. \A d \in Prerequisites[t] : d \in there /\ <<t, d>> \notin newer
  <2> SUFFICES ASSUME NEW d \in Prerequisites[t] PROVE d \in there /\ <<t, d>> \notin newer
    OBVIOUS
  <2>1. d # f
    BY <1>3
  <2>2. d \in there
    BY <1>1, <2>1 DEF Touched
  <2>3. <<t, d>>[1] # f
    OBVIOUS
  <2>4. <<t, d>> \in newer => <<t, d>> \in newer'
    BY <2>3 DEF Touched
  <2> QED
    BY <1>1, <2>2, <2>4
<1> QED
  BY <1>1, <1>2, <1>3, <1>4 DEF Fresh, Stale

\* What is not removed and not made anew is as right as it was.
KeepsFresh ==
  \A p \in Pkg :
    /\ Stamp(p, "get") \in Fresh' => src'[p] = src[p]
    /\ Stamp(p, "extract") \in Fresh' => tree'[p] = tree[p]
    /\ Chain(p) \subseteq Fresh' => built'[p] = built[p]
    /\ Stamp(p, "install") \in Fresh' => tools'[p] = tools[p]
    /\ Stamp(p, "targetinstall") \in Fresh' => feed'[p] = feed[p]
    /\ Feed \in there' /\ Stamp(p, "targetinstall") \in there'
         => index'[p] = index[p] /\ feed'[p] = feed[p]
    /\ Stamp(p, "imageinstall") \in Fresh' => root'[p] = root[p] /\ index'[p] = index[p]

LEMMA Preserved ==
  ASSUME KeepsFresh, BuildAssumption, Fresh' \subseteq Fresh, there' \cap Targets \subseteq there,
         NEW p \in Pkg
  PROVE  /\ BuildRight(p) => BuildRight(p)'
         /\ IndexRight(p) => IndexRight(p)'
         /\ RootRight(p) => RootRight(p)'
<1>1. TreeRight(p) => TreeRight(p)'
  BY DEF KeepsFresh, TreeRight
<1>2. BuiltRight(p) => BuiltRight(p)'
  <2> SUFFICES ASSUME BuiltRight(p), (Chain(p) \subseteq Fresh)',
                      \A q \in Uses[p] : Stamp(q, "install") \in Fresh'
               PROVE  built'[p] = tree'[p] \cup UNION {tools'[q] : q \in Uses[p]}
    BY DEF BuiltRight
  <2>1. \A q \in Uses[p] : q \in Pkg /\ tools'[q] = tools[q]
    BY DEF KeepsFresh, BuildAssumption
  <2>2. {tools'[q] : q \in Uses[p]} = {tools[q] : q \in Uses[p]}
    BY <2>1
  <2>3. built'[p] = built[p] /\ tree'[p] = tree[p]
    BY DEF KeepsFresh, Chain
  <2> QED
    BY <2>2, <2>3 DEF BuiltRight, Chain
<1>3. ToolsRight(p) => ToolsRight(p)'
  BY DEF KeepsFresh, ToolsRight, Chain
<1>4. FeedRight(p) => FeedRight(p)'
  BY DEF KeepsFresh, FeedRight, Chain
<1>5. IndexRight(p) => IndexRight(p)'
  BY StampsAreTargets DEF KeepsFresh, IndexRight, Stages, Targets
<1>6. RootRight(p) => RootRight(p)'
  BY DEF KeepsFresh, RootRight
<1> QED
  BY <1>1, <1>2, <1>3, <1>4, <1>5, <1>6 DEF BuildRight

LEMMA VouchedStays ==
  ASSUME KeepsFresh, BuildAssumption, Fresh' \subseteq Fresh, there' \cap Targets \subseteq there,
         Vouched, ~InAll, ~InRoot, broken' = broken
  PROVE  Vouched'
  BY Preserved DEF Vouched

LEMMA SameFiles ==
  ASSUME UNCHANGED files
  PROVE  Fresh' = Fresh /\ there' = there
  BY DEF files, Fresh, Stale

\* The steps of make and its user that leave all products alone.
LEMMA QuietStep ==
  ASSUME Inv, BuildAssumption, pc # "clean", pc' \notin {"recipe", "touch"},
         Fresh' \subseteq Fresh, there' \subseteq there,
         UNCHANGED <<src, products, broken, target>>
  PROVE  Types' /\ Vouched' /\ Running' /\ Done'
<1>1. Types'
  BY DEF Inv, Types, products
<1>2. KeepsFresh
  BY DEF KeepsFresh, products
<1>3. Vouched'
  BY <1>2, VouchedStays DEF Inv, InAll, InRoot
<1> QED
  BY <1>1, <1>3 DEF Running, Done

-----------------------------------------------------------------------------
\* a recipe changes what its target stands for, and nothing else
OnlyOf(t) ==
  \A p \in Pkg :
    /\ t # Stamp(p, "extract") => tree'[p] = tree[p]
    /\ t # Stamp(p, "extract") /\ t # Stamp(p, "compile") => built'[p] = built[p]
    /\ t # Stamp(p, "install") => tools'[p] = tools[p]
    /\ t # Stamp(p, "targetinstall") => feed'[p] = feed[p]
    /\ t # Feed => index'[p] = index[p]
    /\ t # Stamp(p, "imageinstall") => root'[p] = root[p]

LEMMA OnlyStale ==
  ASSUME NEW t \in Targets, OnlyOf(t), t \notin Fresh',
         t[2] = "targetinstall" => Feed \notin there', src' = src
  PROVE  KeepsFresh
<1> SUFFICES ASSUME NEW p \in Pkg
             PROVE  /\ Stamp(p, "get") \in Fresh' => src'[p] = src[p]
                    /\ Stamp(p, "extract") \in Fresh' => tree'[p] = tree[p]
                    /\ (Chain(p) \subseteq Fresh)' => built'[p] = built[p]
                    /\ Stamp(p, "install") \in Fresh' => tools'[p] = tools[p]
                    /\ Stamp(p, "targetinstall") \in Fresh' => feed'[p] = feed[p]
                    /\ Feed \in there' /\ Stamp(p, "targetinstall") \in there'
                         => index'[p] = index[p] /\ feed'[p] = feed[p]
                    /\ Stamp(p, "imageinstall") \in Fresh'
                         => root'[p] = root[p] /\ index'[p] = index[p]
  BY DEF KeepsFresh, Chain
<1>1. (Chain(p) \subseteq Fresh)' => built'[p] = built[p]
  BY DEF OnlyOf, Chain
<1>2. Feed \in there' => t # Feed
  BY FeedDepends DEF Fresh, Stale
<1>3. Feed \in there' => t # Stamp(p, "targetinstall")
  BY DEF Stamp
<1>4. Stamp(p, "imageinstall") \in Fresh' => Feed \in there'
  BY Depends DEF Fresh, Stale
<1> QED
  BY <1>1, <1>2, <1>3, <1>4 DEF OnlyOf

LEMMA HalfMade ==
  ASSUME NEW t \in Targets, NEW stage \in Stages, NEW product \in [Pkg -> Sets]
  PROVE  /\ Half(t, stage, product) \in [Pkg -> Sets]
         /\ \A p \in Pkg : t # Stamp(p, stage) => Half(t, stage, product)[p] = product[p]
<1>1. CASE t = Feed
  BY <1>1 DEF Half, Feed, Stages
<1>2. CASE t # Feed
  <2>1. PICK q \in Pkg, s \in Stages : t = <<q, s>>
    BY <1>2 DEF Targets
  <2> QED
    BY <2>1 DEF Half, Stamp, Sets
<1> QED
  BY <1>1, <1>2

LEMMA RecipeInv ==
  ASSUME Inv, BuildAssumption, pc = "make", NEW t \in Targets, Recipe(t)
  PROVE  Inv'
<1> USE DEF Inv
<1>1. Fresh' \subseteq Fresh /\ there' \subseteq there
        /\ (t[2] = "targetinstall" => Feed \notin there')
  BY SameFiles, RemovalKeepsStale DEF Recipe, XMKIPKG
<1>2. t \notin Fresh /\ t \notin Fresh'
  BY <1>1 DEF Recipe, Fresh
<1>3. Types'
  <2>1. index' \in [Pkg -> Sets]
    BY DEF Recipe, Types, Sets
  <2> QED
    BY <1>1, <2>1, HalfMade DEF Recipe, Types, Stages
<1>4. OnlyOf(t)
  <2> SUFFICES ASSUME NEW p \in Pkg
               PROVE  /\ t # Stamp(p, "extract") => tree'[p] = tree[p]
                      /\ t # Stamp(p, "extract") /\ t # Stamp(p, "compile") => built'[p] = built[p]
                      /\ t # Stamp(p, "install") => tools'[p] = tools[p]
                      /\ t # Stamp(p, "targetinstall") => feed'[p] = feed[p]
                      /\ t # Feed => index'[p] = index[p]
                      /\ t # Stamp(p, "imageinstall") => root'[p] = root[p]
    BY DEF OnlyOf
  <2>1. Half(t, "compile", built) \in [Pkg -> Sets]
    BY HalfMade DEF Types, Stages
  <2> QED
    BY <2>1, HalfMade DEF Types, Stages, Recipe
<1>5. KeepsFresh
  BY <1>1, <1>2, <1>4, OnlyStale DEF Recipe
<1>6. Vouched'
  BY <1>1, <1>5, VouchedStays DEF InAll, InRoot, Recipe
<1> QED
  BY <1>1, <1>2, <1>3, <1>6 DEF Running, Done, Cleaning, Recipe

\* what a recipe makes is right, and the rest is as it was
LEMMA MadeRight ==
  ASSUME Types, BuildAssumption, Made(target), UNCHANGED <<src, target>>
  PROVE  /\ OnlyOf(target)
         /\ \A x \in {tree', built', tools', feed', index', root'} : x \in [Pkg -> Sets]
         /\ (pc = "touch")' => Done'
<1> USE DEF Types
<1>1. CASE target = Feed
  <2>1. Indexed
    BY <1>1 DEF Made, Feed
  <2>2. OnlyOf(target)
    BY <1>1, <2>1 DEF OnlyOf, Indexed
  <2>3. (pc = "touch")' => Done'
    BY <1>1, <2>1, StampsAreTargets DEF Done, Indexed, Stages
  <2> QED
    BY <2>1, <2>2, <2>3 DEF Indexed
<1>2. ASSUME NEW p \in Pkg, NEW stage \in Stages, target = <<p, stage>>
      PROVE  /\ OnlyOf(target)
             /\ \A x \in {tree', built', tools', feed', index', root'} : x \in [Pkg -> Sets]
             /\ (pc = "touch")' => Done'
  <2>0. target[1] = p /\ target[2] = stage /\ target # Feed
        /\ \A q \in Pkg, s \in Stages : target = Stamp(q, s) <=> q = p /\ s = stage
    BY <1>2 DEF Stamp, Feed, Stages
  <2>1. CASE stage \in {"get", "prepare"}
    <3>1. UNCHANGED products
      BY <2>0, <2>1 DEF Made
    <3> QED
      BY <2>0, <2>1, <3>1 DEF OnlyOf, Done, products, Stages
  <2>2. CASE stage = "extract"
    <3>1. Extracted(p)
      BY <2>0, <2>2 DEF Made
    <3>2. {<<p, src[p]>>} \in Sets
      BY DEF Sets
    <3> QED
      BY <2>0, <2>2, <3>1, <3>2 DEF OnlyOf, Done, Extracted, Stages
  <2>3. CASE stage = "compile"
    <3>1. Compiled(p)
      BY <2>0, <2>3 DEF Made
    <3>2. tree[p] \cup UNION {tools[q] : q \in Uses[p]} \in Sets
      <4>1. \A q \in Uses[p] : tools[q] \in Sets
        BY DEF BuildAssumption
      <4> QED
        BY <4>1 DEF Sets
    <3>3. \A q \in Uses[p] : q \in Pkg
      BY DEF BuildAssumption
    <3> QED
      BY <2>0, <2>3, <3>1, <3>2, <3>3 DEF OnlyOf, Done, Compiled, Stages
  <2>4. CASE stage = "install"
    <3>1. Installed(p)
      BY <2>0, <2>4 DEF Made
    <3> QED
      BY <2>0, <2>4, <3>1 DEF OnlyOf, Done, Installed, Stages
  <2>5. CASE stage = "targetinstall"
    <3>1. Packaged(p)
      BY <2>0, <2>5 DEF Made
    <3> QED
      BY <2>0, <2>5, <3>1 DEF OnlyOf, Done, Packaged, Stages
  <2>6. CASE stage = "imageinstall"
    <3>1. ImageInstalled(p)
      BY <2>0, <2>6 DEF Made
    <3> QED
      BY <2>0, <2>6, <3>1 DEF OnlyOf, Done, ImageInstalled, Stages
  <2> QED
    BY <2>1, <2>2, <2>3, <2>4, <2>5, <2>6 DEF Stages
<1>3. target = Feed \/ \E p \in Pkg, stage \in Stages : target = <<p, stage>>
  BY DEF Targets
<1> QED
  BY <1>1, <1>2, <1>3

\* a recipe that ends, broken off before its state file is touched or not
LEMMA MadeVouched ==
  ASSUME Inv, BuildAssumption, pc = "recipe", Made(target),
         UNCHANGED <<files, src, broken, target>>
  PROVE  Types' /\ Vouched' /\ ((pc = "touch")' => Done')
<1> USE DEF Inv
<1>1. Fresh' = Fresh /\ there' = there
  BY SameFiles
<1>2. OnlyOf(target) /\ ((pc = "touch")' => Done')
      /\ \A x \in {tree', built', tools', feed', index', root'} : x \in [Pkg -> Sets]
  BY MadeRight
<1>3. target \in Targets /\ target \notin Fresh' /\ (target[2] = "targetinstall" => Feed \notin there')
  BY <1>1 DEF Running, Types
<1>4. KeepsFresh
  BY <1>2, <1>3, OnlyStale
<1>5. Vouched'
  BY <1>1, <1>4, VouchedStays DEF InAll, InRoot
<1> QED
  BY <1>1, <1>2, <1>5 DEF Types

LEMMA RecipeEndsInv ==
  ASSUME Inv, BuildAssumption, RecipeEnds
  PROVE  Inv'
<1>1. Types' /\ Vouched' /\ Done'
  BY MadeVouched DEF RecipeEnds
<1>2. Running' /\ Cleaning'
  BY SameFiles DEF RecipeEnds, Running, Cleaning, Inv
<1> QED
  BY <1>1, <1>2 DEF Inv

\* Touching the state file makes it vouch for its recipe, and no other file
\* for anything it did not vouch for before.
LEMMA TouchInv ==
  ASSUME Inv, BuildAssumption, Touch
  PROVE  Inv'
<1> USE DEF Inv
<1>1. target \in Targets /\ target \in File /\ pc = "touch" /\ pc' = "make" /\ ~InAll /\ ~InRoot
      /\ UNCHANGED <<tree, built, tools, feed, index, root, src, target, broken>>
  BY DEF Touch, Types, Targets, File, InAll, InRoot, products
<1>2. /\ \A t \in Fresh' : t = target \/ (t \in Fresh /\ target \notin Prerequisites[t])
      /\ there' = there \cup {target}
  BY <1>1, TouchKeepsStale DEF Touch
<1>3. target[2] = "targetinstall" => Feed \notin there
  BY <1>1 DEF Running
<1>4. ASSUME NEW p \in Pkg, BuildRight(p), IndexRight(p), RootRight(p)
      PROVE  BuildRight(p)' /\ IndexRight(p)' /\ RootRight(p)'
  <2>0. \A s \in Stages, r \in Stages : s # r => Stamp(p, s) # Stamp(p, r)
    BY DEF Stamp
  <2>1. TreeRight(p)'
    <3>1. CASE target = Stamp(p, "extract")
      BY <1>1, <3>1 DEF TreeRight, Done
    <3>2. CASE target # Stamp(p, "extract")
      BY <1>1, <1>2, <3>2, Depends, <1>4 DEF TreeRight, BuildRight
    <3> QED
      BY <3>1, <3>2
  <2>2. (Chain(p) \subseteq Fresh)' =>
          /\ target # Stamp(p, "extract") /\ target # Stamp(p, "prepare")
          /\ \A q \in Uses[p] : target = Stamp(q, "install") => target = Stamp(p, "compile")
          /\ target # Stamp(p, "compile") => Chain(p) \subseteq Fresh
    BY <1>2, <2>0, Depends DEF Chain, Stages
  <2>3. BuiltRight(p)'
    <3>1. CASE target = Stamp(p, "compile")
      BY <1>1, <3>1 DEF BuiltRight, Done
    <3>2. CASE target # Stamp(p, "compile")
      <4> SUFFICES ASSUME (Chain(p) \subseteq Fresh)', \A q \in Uses[p] : Stamp(q, "install") \in Fresh'
                   PROVE  built[p] = tree[p] \cup UNION {tools[q] : q \in Uses[p]}
        BY <1>1 DEF BuiltRight
      <4>1. Chain(p) \subseteq Fresh
        BY <2>2, <3>2
      <4>2. \A q \in Uses[p] : Stamp(q, "install") \in Fresh
        BY <1>2, <2>2, <3>2
      <4> QED
        BY <4>1, <4>2, <1>4 DEF BuiltRight, BuildRight
    <3> QED
      BY <3>1, <3>2
  <2>4. ToolsRight(p)'
    <3>1. CASE target = Stamp(p, "install")
      BY <1>1, <3>1 DEF ToolsRight, Done
    <3>2. CASE target # Stamp(p, "install")
      BY <1>1, <1>2, <2>2, <3>2, <1>4, Depends DEF ToolsRight, BuildRight, Chain
    <3> QED
      BY <3>1, <3>2
  <2>5. FeedRight(p)'
    <3>1. CASE target = Stamp(p, "targetinstall")
      BY <1>1, <3>1 DEF FeedRight, Done
    <3>2. CASE target # Stamp(p, "targetinstall")
      BY <1>1, <1>2, <2>2, <3>2, <1>4, Depends DEF FeedRight, BuildRight, Chain
    <3> QED
      BY <3>1, <3>2
  <2>6. IndexRight(p)'
    <3>1. CASE target = Feed
      BY <1>1, <3>1 DEF IndexRight, Done
    <3>2. CASE target = Stamp(p, "targetinstall")
      <4>1. Feed \notin there'
        BY <1>2, <1>3, <3>2 DEF Stamp, Feed
      <4> QED
        BY <4>1 DEF IndexRight
    <3>3. CASE target # Feed /\ target # Stamp(p, "targetinstall")
      BY <1>1, <1>2, <3>3, <1>4 DEF IndexRight
    <3> QED
      BY <3>1, <3>2, <3>3
  <2>7. RootRight(p)'
    <3>1. CASE target = Stamp(p, "imageinstall")
      BY <1>1, <3>1 DEF RootRight, Done
    <3>2. CASE target # Stamp(p, "imageinstall")
      BY <1>1, <1>2, <3>2, <1>4 DEF RootRight
    <3> QED
      BY <3>1, <3>2
  <2> QED
    BY <2>1, <2>3, <2>4, <2>5, <2>6, <2>7 DEF BuildRight
<1>5. Vouched'
  BY <1>1, <1>4 DEF Vouched
<1>6. Types'
  BY <1>1, <1>2 DEF Types
<1> QED
  BY <1>1, <1>5, <1>6 DEF Running, Done, Cleaning

LEMMA NewSourceInv ==
  ASSUME Inv, BuildAssumption, NEW p \in Pkg, NewSource(p)
  PROVE  Inv'
<1> USE DEF Inv
<1>1. Source(p) \in File /\ Source(p) \notin Targets
  BY DEF Source, File, Targets, Stages, Feed
<1>2. /\ \A t \in Fresh' : t \in Fresh /\ Source(p) \notin Prerequisites[t]
      /\ there' = there \cup {Source(p)}
  BY <1>1, TouchKeepsStale DEF NewSource, Fresh
<1>3. KeepsFresh
  <2>1. \A q \in Pkg : Stamp(q, "get") \in Fresh' => q # p
    BY <1>2, Depends
  <2>2. \A q \in Pkg : q # p => src'[q] = src[q]
    BY DEF NewSource, Types
  <2> QED
    BY <2>1, <2>2 DEF KeepsFresh, NewSource, products
<1>4. Vouched'
  BY <1>1, <1>2, <1>3, VouchedStays DEF NewSource, Idle, InAll, InRoot
<1>5. Types'
  BY <1>1, <1>2 DEF Types, NewSource, products, make
<1> QED
  BY <1>4, <1>5 DEF NewSource, Idle, make, Running, Done, Cleaning

-----------------------------------------------------------------------------
LEMMA CleanAllIs ==
  CleanAll = <<Removes("root", Pkg), Removes("state", World), Removes("build", Pkg),
               Removes("state", Targets), Removes("feed", Pkg)>>
  BY DEF CleanAll, RootClean, World, Removes

LEMMA EmptiedIs ==
  ASSUME NEW product \in [Pkg -> Sets], NEW gone
  PROVE  /\ Emptied(product, gone) \in [Pkg -> Sets]
         /\ \A p \in Pkg : Emptied(product, gone)[p] = IF p \in gone THEN {} ELSE product[p]
  BY DEF Emptied, Sets

LEMMA RemovedTypes ==
  ASSUME Types, NEW what, NEW gone, Removed(what, gone), UNCHANGED target, broken' \in BOOLEAN
  PROVE  Types'
<1>1. there' \subseteq there
  BY RemovalKeepsStale DEF Removed, files
<1> QED
  BY <1>1, EmptiedIs DEF Types, Removed

\* Removing state files, or what no state file of the package vouches for,
\* leaves right what is right.
LEMMA StatesRemoved ==
  ASSUME NEW gone, Removed("state", gone)
  PROVE  /\ KeepsFresh /\ Fresh' \subseteq Fresh /\ there' = there \ gone
         /\ UNCHANGED <<tree, built, tools, feed, index, root, src>>
<1>1. /\ Fresh' \subseteq Fresh /\ there' = there \ gone
      /\ UNCHANGED <<tree, built, tools, feed, index, root, src>>
  BY RemovalKeepsStale DEF Removed
<1> QED
  BY <1>1 DEF KeepsFresh

LEMMA BuildRemoved ==
  ASSUME Types, NEW p \in Pkg, NEW gone \in SUBSET {p}, Removed("build", gone), Gone({p} \X Stages)
  PROVE  KeepsFresh /\ Fresh' = Fresh /\ there' = there
<1>1. /\ Fresh' = Fresh /\ there' = there
      /\ UNCHANGED <<tools, feed, index, root, src>>
      /\ \A q \in Pkg : q # p => tree'[q] = tree[q] /\ built'[q] = built[q]
  BY SameFiles, EmptiedIs DEF Removed, Types
<1>2. Stamp(p, "extract") \notin Fresh
  BY FreshIsThere DEF Gone, Stamp, Stages
<1> QED
  BY <1>1, <1>2 DEF KeepsFresh, Chain

LEMMA PackageCleanInv ==
  ASSUME Inv, BuildAssumption, pc = "clean", goal = "package", CleanStep
  PROVE  Inv'
<1> USE DEF Inv
<1>1. ~InAll /\ ~InRoot /\ CleanPackage
  BY DEF InAll, InRoot, Cleaning
<1>2. CASE todo = << >>
  <2>1. /\ UNCHANGED <<files, src, products, broken, target>> /\ pc' = "idle"
    BY <1>2 DEF CleanStep, Stops, Types
  <2>2. Fresh' = Fresh /\ there' = there
    BY <2>1, SameFiles
  <2>3. KeepsFresh
    BY <2>1 DEF KeepsFresh, products
  <2>4. Vouched'
    BY <1>1, <2>1, <2>2, <2>3, VouchedStays
  <2> QED
    BY <2>1, <2>4 DEF Types, files, products, Running, Done, Cleaning
<1>3. ASSUME NEW p \in Pkg, todo = PackageClean(p)
      PROVE  Inv'
  <2>1. /\ Removed("state", {p} \X Stages) /\ todo' = <<Removes("build", {p})>>
        /\ UNCHANGED <<goal, pc, target, broken>>
    <3>1. todo # << >> /\ Head(todo) = Removes("state", {p} \X Stages)
          /\ Tail(todo) = <<Removes("build", {p})>>
      BY <1>3 DEF PackageClean
    <3>2. Head(todo).what = "state" /\ Head(todo).of = {p} \X Stages
      BY <3>1 DEF Removes
    <3> QED
      BY <3>1, <3>2 DEF CleanStep
  <2>2. KeepsFresh /\ Fresh' \subseteq Fresh /\ there' = there \ ({p} \X Stages)
    BY <2>1, StatesRemoved
  <2>3. Vouched'
    BY <1>1, <2>1, <2>2, VouchedStays
  <2>4. Types'
    BY <2>1, RemovedTypes DEF Types
  <2>5. CleanPackage'
    <3>1. todo' = <<Removes("build", {p})>> /\ Gone({p} \X Stages)'
      BY <2>1, <2>2 DEF Gone
    <3> QED
      BY <3>1 DEF CleanPackage
  <2> QED
    BY <2>1, <2>3, <2>4, <2>5 DEF Running, Done, Cleaning
<1>4. ASSUME NEW p \in Pkg, todo = <<Removes("build", {p})>>, Gone({p} \X Stages)
      PROVE  Inv'
  <2>1. /\ Removed("build", {p}) /\ todo' = << >>
        /\ UNCHANGED <<goal, pc, target, broken>>
    <3>1. todo # << >> /\ Head(todo) = Removes("build", {p}) /\ Tail(todo) = << >>
      BY <1>4
    <3>2. Head(todo).what = "build" /\ Head(todo).of = {p}
      BY <3>1 DEF Removes
    <3> QED
      BY <3>1, <3>2 DEF CleanStep
  <2>2. KeepsFresh /\ Fresh' = Fresh /\ there' = there
    BY <2>1, <1>4, BuildRemoved
  <2>3. Vouched'
    BY <1>1, <2>1, <2>2, VouchedStays
  <2>4. Types'
    BY <2>1, RemovedTypes DEF Types
  <2>5. CleanPackage'
    BY <2>1, <2>2, <1>4 DEF CleanPackage, Gone
  <2> QED
    BY <2>1, <2>3, <2>4, <2>5 DEF Running, Done, Cleaning
<1> QED
  BY <1>1, <1>2, <1>3, <1>4 DEF CleanPackage

\* rootclean, alone or at the start of clean, step by step
LEMMA RootRemoved ==
  ASSUME Types, Vouched, ~InAll, ~InRoot, UNCHANGED broken, Removed("root", Pkg), InRoot'
  PROVE  Vouched'
<1>1. /\ Fresh' = Fresh /\ there' = there
      /\ UNCHANGED <<src, tree, built, tools, feed>>
      /\ \A p \in Pkg : root'[p] = {} /\ index'[p] = {}
  BY SameFiles, EmptiedIs DEF Removed, Types
<1>2. ASSUME NEW p \in Pkg, BuildRight(p) PROVE BuildRight(p)' /\ RootRight(p)'
  <2>1. BuildRight(p)'
    BY <1>1, <1>2 DEF BuildRight, TreeRight, BuiltRight, ToolsRight, FeedRight, Chain
  <2> QED
    BY <1>1, <2>1 DEF RootRight
<1> QED
  BY <1>2 DEF Vouched

LEMMA WorldRemoved ==
  ASSUME Vouched, BuildAssumption, ~InAll, UNCHANGED broken, Removed("state", World)
  PROVE  Vouched'
<1>1. KeepsFresh /\ Fresh' \subseteq Fresh /\ there' = there \ World
  BY StatesRemoved
<1>2. ASSUME NEW p \in Pkg
      PROVE  IndexRight(p)'
  BY <1>1 DEF IndexRight, World, Stamp
<1>3. ASSUME NEW p \in Pkg, BuildRight(p), RootRight(p)
      PROVE  BuildRight(p)' /\ RootRight(p)'
  BY <1>1, <1>3, Preserved
<1> QED
  BY <1>2, <1>3 DEF Vouched

LEMMA RootCleanInv ==
  ASSUME Inv, BuildAssumption, pc = "clean", goal = "root", CleanStep
  PROVE  Inv'
<1> USE DEF Inv
<1>1. ~InAll /\ CleanRoot
  <2>1. CleanRoot
    BY DEF Cleaning
  <2>2. World # Targets
    <3>1. Feed \in Targets /\ Feed \notin World
      BY DEF World, Targets, Feed
    <3> QED
      BY <3>1
  <2> QED
    BY <2>1, <2>2 DEF InAll, CleanRoot, RootClean, Removes
<1>2. CASE todo = << >>
  <2>1. /\ UNCHANGED <<files, src, products, broken, target>> /\ pc' = "idle" /\ ~InRoot
    BY <1>2 DEF CleanStep, Stops, Types, InRoot
  <2>2. Fresh' = Fresh /\ there' = there
    BY <2>1, SameFiles
  <2>3. KeepsFresh
    BY <2>1 DEF KeepsFresh, products
  <2>4. Vouched'
    BY <1>1, <2>1, <2>2, <2>3, VouchedStays
  <2> QED
    BY <2>1, <2>4 DEF Types, files, products, Running, Done, Cleaning
<1>3. CASE todo = RootClean
  <2>1. /\ Removed("root", Pkg) /\ todo' = <<Removes("state", World)>> /\ ~InRoot
        /\ UNCHANGED <<goal, pc, target, broken>>
    BY <1>3 DEF CleanStep, RootClean, Removes, World, InRoot
  <2>2. Vouched'
    BY <1>1, <2>1, RootRemoved DEF InRoot
  <2>3. Types'
    BY <2>1, RemovedTypes DEF Types
  <2> QED
    BY <2>1, <2>2, <2>3 DEF Running, Done, Cleaning, CleanRoot
<1>4. CASE todo = <<Removes("state", World)>>
  <2>1. /\ Removed("state", World) /\ todo' = << >>
        /\ UNCHANGED <<goal, pc, target, broken>>
    BY <1>4 DEF CleanStep, Removes
  <2>2. Vouched'
    BY <1>1, <2>1, WorldRemoved
  <2>3. Types'
    BY <2>1, RemovedTypes DEF Types
  <2> QED
    BY <2>1, <2>2, <2>3 DEF Running, Done, Cleaning, CleanRoot
<1> QED
  BY <1>1, <1>2, <1>3, <1>4 DEF CleanRoot

\* without any state file, nothing is vouched for
LEMMA NothingVouched == Gone(Targets) => Vouched
<1> SUFFICES ASSUME Gone(Targets) PROVE Vouched
  OBVIOUS
<1>1. Fresh = {}
  BY FreshIsThere DEF Gone
<1>2. \A p \in Pkg : Feed \notin there
  BY DEF Gone, Targets
<1> QED
  BY <1>1, <1>2 DEF Vouched, BuildRight, TreeRight, BuiltRight, ToolsRight, FeedRight, Chain,
                    IndexRight, RootRight

LEMMA AllCleanInv ==
  ASSUME Inv, BuildAssumption, pc = "clean", goal = "all", CleanStep
  PROVE  Inv'
<1> USE DEF Inv
<1> DEFINE feeds == Removes("feed", Pkg)
           states == Removes("state", Targets)
           builds == Removes("build", Pkg)
           worlds == Removes("state", World)
<1>0. CleaningAll /\ World # Targets
  <2>1. Feed \in Targets /\ Feed \notin World
    BY DEF World, Targets, Feed
  <2> QED
    BY <2>1 DEF Cleaning
<1>1. CASE todo = CleanAll
  <2>1. /\ Removed("root", Pkg) /\ todo' = <<worlds, builds, states, feeds>>
        /\ UNCHANGED <<goal, pc, target, broken>> /\ ~InRoot /\ ~InAll
    BY <1>1, CleanAllIs DEF CleanStep, Removes, InRoot, InAll
  <2>2. Vouched'
    BY <2>1, RootRemoved DEF InRoot
  <2>3. Types'
    BY <2>1, RemovedTypes DEF Types
  <2> QED
    BY <2>1, <2>2, <2>3 DEF Running, Done, Cleaning, CleaningAll
<1>2. CASE todo = <<worlds, builds, states, feeds>>
  <2>1. /\ Removed("state", World) /\ todo' = <<builds, states, feeds>>
        /\ UNCHANGED <<goal, pc, target, broken>> /\ ~InAll
    BY <1>0, <1>2 DEF CleanStep, Removes, InAll
  <2>2. Vouched'
    BY <2>1, WorldRemoved
  <2>3. Types'
    BY <2>1, RemovedTypes DEF Types
  <2> QED
    BY <2>1, <2>2, <2>3 DEF Running, Done, Cleaning, CleaningAll
<1>3. CASE todo = <<builds, states, feeds>>
  <2>1. /\ Removed("build", Pkg) /\ todo' = <<states, feeds>>
        /\ UNCHANGED <<goal, pc, target, broken>> /\ ~InRoot
    BY <1>3 DEF CleanStep, Removes, InRoot
  <2>2. InAll'
    BY <2>1 DEF InAll
  <2>3. /\ Fresh' = Fresh /\ there' = there /\ UNCHANGED <<feed, index, root>>
    BY <2>1, SameFiles DEF Removed
  <2>4. Vouched'
    BY <2>1, <2>2, <2>3 DEF Vouched, IndexRight, RootRight
  <2>5. Types'
    BY <2>1, RemovedTypes DEF Types
  <2> QED
    BY <2>1, <2>4, <2>5 DEF Running, Done, Cleaning, CleaningAll
<1>4. CASE todo = <<states, feeds>>
  <2>1. /\ Removed("state", Targets) /\ todo' = <<feeds>>
        /\ UNCHANGED <<goal, pc, target, broken>>
    BY <1>4 DEF CleanStep, Removes
  <2>2. Gone(Targets)'
    BY <2>1, StatesRemoved DEF Gone, Targets
  <2>3. Vouched'
    BY <2>2, NothingVouched, PTL
  <2>4. Types'
    BY <2>1, RemovedTypes DEF Types
  <2> QED
    BY <2>1, <2>2, <2>3, <2>4 DEF Running, Done, Cleaning, CleaningAll
<1>5. CASE todo = <<feeds>> /\ Gone(Targets)
  <2>1. /\ Removed("feed", Pkg) /\ todo' = << >>
        /\ UNCHANGED <<goal, pc, target, broken>>
    BY <1>5 DEF CleanStep, Removes
  <2>2. Gone(Targets)'
    BY <1>5, <2>1, SameFiles DEF Gone, Removed, Targets
  <2>3. Vouched'
    BY <2>2, NothingVouched, PTL
  <2>4. Types'
    BY <2>1, RemovedTypes DEF Types
  <2> QED
    BY <2>1, <2>2, <2>3, <2>4 DEF Running, Done, Cleaning, CleaningAll
<1>6. CASE todo = << >> /\ Gone(Targets)
  <2>1. /\ UNCHANGED <<files, src, products, target>> /\ pc' = "idle" /\ broken' = FALSE
    BY <1>6 DEF CleanStep, Stops, Types
  <2>2. Gone(Targets)'
    BY <1>6, <2>1, SameFiles DEF Gone, Targets
  <2>3. Vouched'
    BY <2>2, NothingVouched, PTL
  <2> QED
    BY <2>1, <2>3 DEF Types, files, products, Running, Done, Cleaning
<1> QED
  BY <1>0, <1>1, <1>2, <1>3, <1>4, <1>5, <1>6 DEF CleaningAll

-----------------------------------------------------------------------------
LEMMA StartInv ==
  ASSUME Inv, BuildAssumption, NEW g, Start(g)
  PROVE  Inv'
<1>1. Fresh' \subseteq Fresh /\ there' \subseteq there
  BY SameFiles, RemovalKeepsStale DEF Start
<1> QED
  BY <1>1, QuietStep DEF Start, Idle, Inv, Cleaning

LEMMA CleansInv ==
  ASSUME Inv, BuildAssumption, NEW name, NEW removals, Cleans(name, removals),
         \/ name = "package" /\ \E p \in Pkg : removals = PackageClean(p)
         \/ name = "root" /\ removals = RootClean
         \/ name = "all" /\ removals = CleanAll
  PROVE  Inv'
<1>1. Types' /\ Vouched' /\ Running' /\ Done'
  BY SameFiles, QuietStep DEF Cleans, Idle
<1>2. Cleaning'
  BY DEF Cleans, Cleaning, CleanPackage, CleanRoot, CleaningAll
<1> QED
  BY <1>1, <1>2 DEF Inv

LEMMA QuietInv ==
  ASSUME Inv, BuildAssumption, pc # "clean", pc' \in {"idle", "make"},
         UNCHANGED <<files, src, products, broken, target>>
  PROVE  Inv'
  BY SameFiles, QuietStep DEF Inv, Cleaning

LEMMA KillInv ==
  ASSUME Inv, BuildAssumption, Kill
  PROVE  Inv'
<1> USE DEF Inv
<1>1. pc' = "idle" /\ target' = target
  BY DEF Kill, Stops
<1>2. CASE pc \in {"make", "touch"} /\ UNCHANGED <<files, src, products, broken>>
  BY <1>1, <1>2, QuietInv
<1>3. CASE pc = "recipe" /\ Made(target) /\ UNCHANGED <<files, src, broken>>
  BY <1>1, <1>3, MadeVouched DEF Running, Done, Cleaning
<1>4. ASSUME pc = "clean", todo # << >>, broken' = (broken \/ goal # "package"),
             NEW gone \in SUBSET (Head(todo).of \cap (there \cup Pkg)),
             Removed(Head(todo).what, gone)
      PROVE  Inv'
  <2>1. Types'
    BY <1>1, <1>4, RemovedTypes DEF Types
  <2>2. Vouched'
    <3>1. CASE goal # "package"
      BY <1>4, <3>1 DEF Vouched
    <3>2. CASE goal = "package"
      <4>1. CleanPackage /\ ~InAll /\ ~InRoot /\ broken' = broken
        BY <1>4, <3>2 DEF Cleaning, InAll, InRoot, Types
      <4>2. ASSUME NEW p \in Pkg, todo = PackageClean(p)
            PROVE  Vouched'
        <5>1. Head(todo).what = "state"
          BY <4>2 DEF PackageClean, Removes
        <5>2. KeepsFresh /\ Fresh' \subseteq Fresh /\ there' = there \ gone
          BY <1>4, <5>1, StatesRemoved
        <5> QED
          BY <4>1, <5>2, VouchedStays
      <4>3. ASSUME NEW p \in Pkg, todo = <<Removes("build", {p})>>, Gone({p} \X Stages)
            PROVE  Vouched'
        <5>1. Head(todo).what = "build" /\ Head(todo).of = {p}
          BY <4>3 DEF Removes
        <5>2. gone \in SUBSET {p} /\ Removed("build", gone)
          BY <1>4, <5>1
        <5>3. KeepsFresh /\ Fresh' = Fresh /\ there' = there
          BY <4>3, <5>2, BuildRemoved
        <5> QED
          BY <4>1, <5>3, VouchedStays
      <4> QED
        BY <1>4, <4>1, <4>2, <4>3 DEF CleanPackage
    <3> QED
      BY <3>1, <3>2
  <2> QED
    BY <1>1, <2>1, <2>2 DEF Running, Done, Cleaning
<1> QED
  BY <1>2, <1>3, <1>4 DEF Kill

LEMMA InvInit ==
  ASSUME Init, BuildAssumption
  PROVE  Inv
<1>1. Gone(Targets)
  BY DEF Init, Gone, Targets, Sources, Source, Stages, Feed
<1>2. Types
  <2>1. [p \in Pkg |-> {}] \in [Pkg -> Sets]
    BY DEF Sets
  <2>2. src \in [Pkg -> Nat]
    BY DEF Init
  <2>3. there \subseteq File /\ target \in Targets
    BY DEF Init, File, Sources, Source, Targets
  <2> QED
    BY <2>1, <2>2, <2>3 DEF Init, Types
<1> QED
  BY <1>1, <1>2, NothingVouched DEF Init, Inv, Running, Done, Cleaning

LEMMA InvNext ==
  ASSUME Inv, BuildAssumption, [Next]_vars
  PROVE  Inv'
<1>1. CASE UNCHANGED vars
  <2>1. UNCHANGED <<files, src, products, make, broken>>
    BY <1>1 DEF vars
  <2>2. Fresh' = Fresh /\ there' = there
    BY <2>1, SameFiles
  <2>3. /\ UNCHANGED <<src, tree, built, tools, feed, index, root>>
        /\ UNCHANGED <<goal, pc, target, todo, broken>>
    BY <2>1 DEF products, make
  <2>4. KeepsFresh
    BY <2>3 DEF KeepsFresh
  <2>5. \A p \in Pkg : /\ BuildRight(p) => BuildRight(p)'
                       /\ IndexRight(p) => IndexRight(p)'
                       /\ RootRight(p) => RootRight(p)'
    BY <2>2, <2>4, Preserved
  <2>6. Vouched'
    BY <2>3, <2>5 DEF Inv, Vouched, InAll, InRoot
  <2>7. Running' /\ Types'
    BY <2>2, <2>3 DEF Inv, Running, Types
  <2>8. Done'
    BY <2>3 DEF Inv, Done
  <2>9. Cleaning'
    BY <2>2, <2>3 DEF Inv, Cleaning, CleanPackage, CleanRoot, CleaningAll, Gone, Targets
  <2> QED
    BY <2>6, <2>7, <2>8, <2>9 DEF Inv
<1>2. ASSUME Considers PROVE Inv'
  <2>1. PICK t \in Targets : UpToDate(t) \/ Recipe(t)
    BY <1>2 DEF Considers
  <2>2. pc = "make"
    BY <1>2 DEF Considers
  <2>3. CASE UpToDate(t)
    BY <2>2, <2>3, QuietInv DEF UpToDate
  <2> QED
    BY <2>1, <2>2, <2>3, RecipeInv
<1>3. ASSUME MakeEnds \/ NotThere \/ RecipeFails PROVE Inv'
  BY <1>3, QuietInv DEF MakeEnds, NotThere, RecipeFails, Stops
<1>4. ASSUME CleanStep PROVE Inv'
  BY <1>4, PackageCleanInv, RootCleanInv, AllCleanInv DEF CleanStep, Inv, Cleaning
<1>5. ASSUME User PROVE Inv'
  BY <1>5, StartInv, CleansInv, NewSourceInv DEF User
<1> QED
  BY <1>1, <1>2, <1>3, <1>4, <1>5, RecipeEndsInv, TouchInv, KillInv DEF Next, Steps

-----------------------------------------------------------------------------
(* A state file vouches for what its recipe made, at all times.            *)
THEOREM StateFilesVouch == Spec => []Inv
<1>1. Init => Inv
  BY InvInit, BuildAssumption
<1>2. Inv /\ [Next]_vars => Inv'
  BY InvNext, BuildAssumption
<1> QED
  BY <1>1, <1>2, PTL DEF Spec

-----------------------------------------------------------------------------
\* A set of packages that holds what each of them uses
Closed(S) == \A r \in S : Uses[r] \subseteq S

LEMMA NeededByIs ==
  ASSUME NEW p \in Pkg
  PROVE  NeededBy[p] = {q \in Pkg : \A S \in SUBSET Pkg : p \in S /\ Closed(S) => q \in S}
  BY DEF NeededBy, Closed

LEMMA NeedsItself ==
  ASSUME NEW p \in Pkg
  PROVE  p \in NeededBy[p]
  BY NeededByIs

LEMMA NeedsWhatItUses ==
  ASSUME BuildAssumption, NEW p \in Pkg, NEW q \in Uses[p]
  PROVE  q \in Pkg /\ NeededBy[q] \subseteq NeededBy[p]
<1>1. q \in Pkg
  BY DEF BuildAssumption
<1> SUFFICES ASSUME NEW r \in NeededBy[q], NEW S \in SUBSET Pkg, p \in S, Closed(S)
             PROVE  r \in Pkg /\ r \in S
  BY <1>1, NeededByIs
<1>2. q \in S
  BY DEF Closed
<1> QED
  BY <1>1, <1>2, NeededByIs

\* If every package is made of its own source and of what the packages it
\* uses are made of, it is made of the sources of all it needs.
LEMMA MadeOfAllItNeeds ==
  ASSUME BuildAssumption,
         \A p \in Pkg : built[p] = {<<p, src[p]>>} \cup UNION {built[q] : q \in Uses[p]}
  PROVE  \A p \in Pkg : built[p] = Current(p)
<1>1. \A p \in Pkg : Uses[p] \subseteq Pkg
  BY DEF BuildAssumption
<1>2. ASSUME NEW p \in Pkg PROVE Current(p) \subseteq built[p]
  <2> DEFINE S == {q \in Pkg : built[q] \subseteq built[p]}
  <2>1. p \in S /\ S \in SUBSET Pkg
    OBVIOUS
  <2>2. Closed(S)
    <3> SUFFICES ASSUME NEW r \in S, NEW q \in Uses[r] PROVE q \in S
      BY DEF Closed
    <3>1. q \in Pkg
      BY <1>1
    <3>2. built[q] \subseteq built[r]
      OBVIOUS
    <3> QED
      BY <3>1, <3>2
  <2>3. NeededBy[p] \subseteq S
    BY <2>1, <2>2, NeededByIs
  <2>4. \A q \in Pkg : <<q, src[q]>> \in built[q]
    OBVIOUS
  <2> QED
    BY <2>3, <2>4 DEF Current
<1>3. ASSUME NEW p \in Pkg PROVE built[p] \subseteq Current(p)
  <2> DEFINE T == {r \in Pkg : ~(built[r] \subseteq Current(r))}
  <2> SUFFICES ASSUME T # {} PROVE FALSE
    OBVIOUS
  <2>1. PICK r \in T : Uses[r] \cap T = {}
    BY DEF BuildAssumption
  <2>2. ASSUME NEW q \in Uses[r] PROVE built[q] \subseteq Current(r)
    <3>1. q \in Pkg /\ built[q] \subseteq Current(q)
      BY <1>1, <2>1
    <3>2. Current(q) \subseteq Current(r)
      BY NeedsWhatItUses DEF Current
    <3> QED
      BY <3>1, <3>2
  <2>3. <<r, src[r]>> \in Current(r)
    BY NeedsItself DEF Current
  <2>4. built[r] \subseteq Current(r)
    BY <2>2, <2>3
  <2> QED
    BY <2>4
<1> SUFFICES ASSUME NEW p \in Pkg PROVE built[p] = Current(p)
  OBVIOUS
<1>4. built[p] \subseteq Current(p) /\ Current(p) \subseteq built[p]
  BY <1>2, <1>3
<1> QED
  BY <1>4

LEMMA FreshPartsAreRight ==
  ASSUME Inv, BuildAssumption, Idle, ~broken, \A t \in Parts : ~Stale(t)
  PROVE  \A p \in Pkg : root[p] = Current(p)
<1> USE DEF Inv
<1>1. Parts \subseteq Fresh
  <2>1. Parts \subseteq Targets
    BY DEF Parts, Targets, Stamp, Stages, BuildAssumption
  <2> QED
    BY <2>1 DEF Fresh
<1>2. Feed \in Fresh /\ \A p \in Pkg, stage \in Stages \ {"install"} : Stamp(p, stage) \in Fresh
  BY <1>1 DEF Parts, Stamp
<1>3. \A p \in Pkg : \A q \in Uses[p] : q \in Pkg /\ Stamp(q, "install") \in Fresh
  BY <1>1 DEF Parts, BuildAssumption
<1>4. \A p \in Pkg : BuildRight(p) /\ IndexRight(p) /\ RootRight(p)
  BY DEF Vouched, InAll, InRoot, Idle
<1>5. ASSUME NEW p \in Pkg PROVE Chain(p) \subseteq Fresh
  BY <1>2 DEF Chain, Stages
<1>6. ASSUME NEW p \in Pkg PROVE root[p] = built[p]
  <2>1. root[p] = index[p] /\ index[p] = feed[p]
    BY <1>2, <1>4, FreshIsThere DEF RootRight, IndexRight, Stages
  <2>2. feed[p] = built[p]
    BY <1>2, <1>4, <1>5 DEF BuildRight, FeedRight, Stages
  <2> QED
    BY <2>1, <2>2
<1>7. ASSUME NEW p \in Pkg
      PROVE  built[p] = {<<p, src[p]>>} \cup UNION {built[q] : q \in Uses[p]}
  <2>1. tree[p] = {<<p, src[p]>>}
    BY <1>2, <1>4 DEF BuildRight, TreeRight, Stages
  <2>2. \A q \in Uses[p] : tools[q] = built[q]
    BY <1>3, <1>4, <1>5 DEF BuildRight, ToolsRight
  <2>3. {tools[q] : q \in Uses[p]} = {built[q] : q \in Uses[p]}
    BY <2>2
  <2>4. built[p] = tree[p] \cup UNION {tools[q] : q \in Uses[p]}
    BY <1>3, <1>4, <1>5 DEF BuildRight, BuiltRight
  <2> QED
    BY <2>1, <2>3, <2>4
<1> QED
  BY <1>6, <1>7, MadeOfAllItNeeds

(* If no state file says that anything is to be done for an image, the     *)
(* root file system holds every package, made from the present sources of  *)
(* it and of all it uses.                                                  *)
THEOREM NothingToDoHolds == Spec => []NothingToDoIsRight
<1>1. Inv => NothingToDoIsRight
  BY FreshPartsAreRight, BuildAssumption DEF NothingToDoIsRight
<1> QED
  BY <1>1, StateFilesVouch, PTL
=============================================================================
