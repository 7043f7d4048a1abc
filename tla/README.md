# Formal models of pdaXrom-builder

pdaXrom-builder is PTXdist with the packages and images of pdaXrom: one
`make` builds a cross toolchain, some hundred packages, an ipkg feed and a
flashable root file system for ARM, SH and x86 hand-helds.  Everything it does is
steered by one configuration file that a Linux-style Kconfig program writes.

This directory holds TLA+ models of the parts of it with state worth
checking, the configurations TLC checks them with, and theorems TLAPS proves.

    tlc -workers 2 -config MCKSymbolTri.cfg MCKSymbolTri
    tlapm KSymbolProofs.tla

Seven parts are modelled: the configuration engine with its files, its expressions and
its three C front ends, the dialog program below them, the build pipeline, the
feed's index, the package manager of the target, and the installer that writes the flash.

## The system

| part | files | state | operations | what makes it correct |
|---|---|---|---|---|
| Kconfig symbol engine | `scripts/kconfig/symbol.c` | per symbol: the user's answer, `SYMBOL_NEW`, the cached value, visibility and reverse dependency, `SYMBOL_VALID`, `SYMBOL_WRITE`; `sym_change_count` | `sym_calc_value`, `sym_calc_choice`, `sym_set_tristate_value`, `sym_set_string_value`, `sym_clear_all_valid` | a value marked valid is the one the settings determine; accepted answers are honoured; a choice has one member; a value stays between its selects and its dependencies; every calculation returns |
| Configuration file | `scripts/kconfig/confdata.c` | the settings above, the `.config` file | `conf_read`, `conf_write` | a save writes every symbol that matters, a load shows what was saved, no saved file is unreadable |
| Expressions | `scripts/kconfig/expr.c` | none (trees, rewritten while menus are parsed) | `expr_calc_value`, `expr_transform`, `expr_eliminate_eq`, `expr_trans_compare` | rewriting keeps the value |
| Menus and parser | `scripts/kconfig/menu.c`, `zconf.y`, `zconf.l` | the symbol table | `conf_parse`, `menu_finalize` | dependencies of parents and choices reach every entry |
| Text front end | `conf.c` | what is left of the walk, the question at hand | ask, answer, walk again | oldconfig ends, asks everything and keeps old answers |
| Menu front end | `mconf.c` | the recursion of windows, what is unfolded | keys, radio lists, load, save | whatever can be set is found; every key acts |
| GTK front end | `gconf.c` | a copy of the menus, marks of what changed, the view | clicks, views, load, save, close | the copy follows the settings |
| Qt front end | `qconf.cc` | the same with other widgets | the same | the same; not modelled |
| Build pipeline | `Makefile`, `rules/*.make`, `rules-ipk/*.make` | stage files in `state/`, the feed, the image stamp | get, extract, prepare, compile, install, targetinstall, imageinstall, the clean targets | a stage runs after those it needs; an interrupted build resumes; the image holds the current packages |
| ipkg | `scripts/bin/ipkg` | status database, file lists, pending packages, the root | update, install, remove, upgrade | dependencies are installed, files have owners, a failure leaves a recoverable state |
| Feed tools | `scripts/bin/mkipkg`, `mkPackages`, ... | the feed | pack, index | the index lists the newest packages, none of them is deleted |
| Dialog widgets | `scripts/lxdialog/*.c` | selection, scroll offset, a buffer on a file, a text, what the terminal shows | keys | the screen shows what the keys act on |
| Flash installer | `config/pdaXrom/installer/updater.sh.src` | flash partitions | write, format, back up, restore | a failure is noticed |

The front ends call the engine; the engine calls nothing back.  `conf_read` and
`conf_write` use the engine and share its flags.  The Makefile includes the
`.config` file, so it is the interface between the two halves: a symbol that is
missing from the file switches packages off.  The rules call `mkipkg`, which
removes the image stamp, and `ipkg`, which fills the image from the feed.

`mconf` starts `lxdialog` anew for every window and reads its exit status and output;
what `lxdialog` leaves in `lxdialog.scrltmp` is read by its next start.  The feed is filled by
the rules, indexed by `mkPackages` and read by `ipkg`, on the build host for the
image and later on the device.  `updater.sh` writes that image to the device.

Everything else in the repository is data: patches, kernel and busybox
configurations, images, the package rules (instances of one template), the
shipped output of bison and gperf.  `PROJECT.json` lists each part with
its status and the hazards that led to the properties.

## The modules

| module | models | notes |
|---|---|---|
| `Tristate` | the logic n/m/y and the value of an expression (`expr.h`, `expr_calc_value`) | operators |
| `KconfigFile` | a finalized Kconfig file as constants; the pure part of a calculation | operators, the assumptions on the file |
| `KSymbol` | the symbol engine and the front ends' calls of its setters | state machine |
| `KValues` | what the engine promises: settings, and values that are calculated from them anew each time | the abstract specification of `KSymbol` and of the front ends |
| `KConfData` | loading, saving, restarting; extends `KSymbol` | state machine |
| `KSave` | the temporary file, the backup and the renames of `conf_write`, several processes | state machine |
| `KTree`, `KExpr` | the trees of conditions, and their rewriting while menus are finalized | state machine over expression trees |
| `KMenu` | the menu tree: visibility, prompts, the entries below an entry | operators, extends `KValues` |
| `KConf` | `conf.c`: config, oldconfig and the modes that answer by themselves | extends `KMenu` |
| `KMconf` | `mconf.c`: windows, keys, radio lists, load, save | extends `KMenu` |
| `KGconf` | `gconf.c`: rows, marks, three views, clicks, load, save, close | extends `KMenu` |
| `ListCursor` | a cursor in a list, with hot keys and buttons | abstract specification of both lists |
| `LxMenu`, `LxCheck` | `menubox.c`; `checklist.c` as check list and as radio list | implement `ListCursor` |
| `TextPager` | a window on the lines of a text | abstract specification |
| `LxText` | `textbox.c` | implements `TextPager` |
| `LineEditor` | a text that grows and shrinks at its end | abstract specification |
| `LxDialog` | `inputbox.c`, `yesno.c`, `msgbox.c` | implements `LineEditor` |
| `BuildState` | stages, state files, feed, index, image, clean targets | state machine |
| `FeedIndex` | `mkPackages` while packages are built | state machine |
| `Ipkg` | install, upgrade, remove | state machine |
| `Updater` | `updater.sh`: flash, version blocks, backups | state machine |
| `EncSh` | `encsh.c`: its table and its options | state machine |
| `KUncached` | the engine with the order in which `KValues` calculates: states the refinement | extends `KSymbol` |
| `Packages` | the feed's index beside the package manager | extends `Ipkg`, holds `FeedIndex` as an instance |
| `KconfigProofs` | facts about expressions, visibility and the values along `Order` that the next two modules share | lemmas |
| `KSymbolProofs` | the cache is coherent, a choice is exclusive, values are bounded, requests honoured; the engine with its cache is the engine that calculates every value anew | proofs |
| `KConfProofs` | conf asks everything, keeps old answers, allyesconfig leaves nothing at n; conf makes requests of `KValues` only | proofs |
| `LxdialogProofs` | the screen of the menu box, of the check and radio list and the field of the input box are right; the lists are plain cursors, the input box is a line editor | proofs |
| `KSaveProofs` | no configuration is lost or put half written | proofs |
| `BuildStateProofs` | when the state files leave nothing to do, the root file system is complete and new | proofs |
| `PackagesProofs` | the index lists the newest files, none of them is deleted; what ipkg is done with is whole, what its status file calls installed has its files | proofs |
| `UpdaterProofs` | what the installer announces is there, version blocks are right | proofs |
| `MCKSymbolTri`, `MCKSymbolChoice`, `MCKSymbolMod`, `MCKConfBool`, `MCKFiles`, `MCConf`, `MCMenus`, `MCLxdialog`, `MCBuild`, `MCPackages`, `MCFlash`, `MCRecovery` | small instances for TLC | see below |

Some instances hold several systems next to each other: a variable `kind`, fixed by `Init`, says
which one moves, and the variables of the others keep their first value.  So one run asks one
question (does the screen show what the keys act on?) of several programs or example
files; it is no composition.  `MCRecovery`, for example, puts four machines with a fault model
beside each other and asks of each that it comes through.

Abstract specifications and what implements them (a `PROPERTY` of the runs):

| abstract | detailed | refinement mapping |
|---|---|---|
| `KValues!ValuesSpec` | `KSymbol` (`KUncached!IsUncached`), `KConfData` in `MCKFiles` | the settings; values of settled symbols are those of `Values` |
| `KValues!ValuesSpec` | `KMconf`, `KGconf` and `KConf` (`OnlyRequests` of each; proved of `KConf`) | the settings change by requests the engine accepts for symbols that are shown, or by a load |
| `ListCursor!Spec` | `LxMenu` (`IsCursor`), `LxCheck` (in `BoxesAsPromised`) | the cursor is `scroll + choice`; window, screen and arrows are hidden |
| `TextPager!Spec` | `LxText` (the same) | the top line; buffer, offsets and flags are hidden |
| `LineEditor!Spec` | `LxDialog` (the same) | the array up to its first NUL; field and scrolling are hidden |

### How the code appears in the model

#### The engine and its files

*Expressions.* The C code holds trees of `&&`, `||`, `!` and comparisons.  With
min, max and `2-x` every tree has the value of its disjunctive normal form, so in all
modules but `KExpr` an
expression is a set of clauses of literals, evaluated by `EvalExpr`.  C evaluates
both operands of `&&` and `||` always, so the symbols an evaluation asks for
(`ExprSyms`) are those of the tree.

*Symbol values.* `curr[s]` and `user[s]` are C's `struct symbol_value`:
`tri` for booleans and tristates, `val` for the string of a string, int or hex
symbol and for the member a choice holds.  A string is a model value; which strings
are valid and in range for a symbol is a constant (`ValidStr`, `Allowed`), so int,
hex and string are one type.  The `0x` prefix that a hex answer receives and
ranges that depend on a condition are left out.

*The finalized file.* Choice members depend on their choice (`VisExpr`), selects
and the mandatory choice enter the reverse dependency (`RevDepExpr`), as
`menu_finalize` arranges it.

*Recursion.* `sym_calc_value` calls itself through every expression it evaluates.
The model has one activation per symbol (a symbol is marked valid before its
calculation starts, so a second one cannot begin): `phase` says how far it has
come (its visibility, its value, the member of a choice), `at` is the index of the
loop over defaults or candidates, `caller` the activation it returns to, `top` the
one that runs.  `Wants` is the set of symbols whose value the next piece of code asks
for; `Call` enters one that is not valid; when all are valid the piece runs as one
action.  C evaluates operands from left to right, the model in any order.

*Flags.* `valid`, `isNew`, `write` are the sets of symbols with
`SYMBOL_VALID`, `SYMBOL_NEW`, `SYMBOL_WRITE`; `dirty` is `sym_change_count # 0`.
`SYMBOL_CHANGED` only tells a GUI what to redraw; it is in `KGconf`.

*Front ends as the engine sees them.* Between two calculations (`AtRest`) a front end shows
a symbol (`menu_is_visible`) or, once it has been shown, sets it.  The guards are those of
`conf_sym`, `conf_string` and the keys of menuconfig; a symbol that may not be
changed is set to the value it has, which `conf` does.

*The uncached engine.* `KValues` has the settings only (`user`, `isNew`);
`Values(user, isNew)` calculates every symbol in an order of dependency (`Order`).  A setter
is a function from settings to settings.  `KSymbol` implements it, so the front ends
can be built on `KValues` without carrying the cache along.

*Files.* In `KConfData`, `disk` gives every symbol the value on its line, `NoVal` without a
line.  `conf_read` takes the lines in one step and then visits the symbols in the order of
the hash table (`HashOrder`), each visit calculating what is not valid;
`conf_write` visits the menu entries (`MenuOrder`).  A process may end
anywhere (`Restart`).  Here the rename to `.old` and the final one are one step.
`KSave` splits them and forgets the content: a configuration is the number of the save
it was made for, `temp`, `old` and `file` hold one, a part of one, or nothing; opening,
writing, each rename and each kill is a step of one process.

*Rewriting.* In `KExpr` a tree is a record; a pointer into it, which
`expr_eliminate_dups` and `expr_eliminate_eq` replace while their callers hold others,
is the path from the root.  The stages are the calls of `menu_finalize`: what the
parser hands over, `expr_transform`, joining with the menu's condition, eliminating
duplicates, and the test that puts an entry below the one before it
(`expr_trans_compare`, `expr_contains_symbol`, `expr_eliminate_eq`).

#### The front ends

*`KConf`.* `todo` is what remains of the recursive walk: the calls still to
be made, the next one first, with `check_conf`'s passes behind `conf`'s.  Each question is
an action whose input is the line typed.  An answer that makes the program ask the
same again is left out, except the `?` that a string takes for its value.
The end of the input and the modes with their fall-through (yes, mod, no, random) are there.

*`KMconf`.* `windows` is the recursion of `conf`, `conf_choice` and the input
boxes, the innermost last; it holds no copy of any setting, as in the code.  Which entry is
an item, a title or folded is calculated by `Items`, as `build_conf` does, and every key
of `lxdialog`'s exit status is an action.

*`KGconf`.* `tree1` and `tree2` are the rows of the left and the right frame; each row is
a record made by `fill_row` at some moment, so that it can be out of date.
`update_tree` is a recursive operator over the list of entries and the rows left,
with the position `child2` and the early return of line 1436.  `changed` is
the set of symbols with `SYMBOL_CHANGED`: the engine adds, each look at a symbol while
drawing takes away.  `fresh` is a history variable: false after the updates
that use the wrong root and the load that doubles the rows (see below), after
which nothing is promised of the rows until they are drawn anew.

#### The dialog program

*`LxMenu`, `LxCheck`.* What the terminal shows (`screen`, `arrows`) is state of its
own: each key repaints two rows, or shifts all and repaints one, and nothing else.  `scroll` and
`choice` are those of the code.  Between two starts the list changes at will, and
`scrltmp` stands for the file `lxdialog.scrltmp`.

*`LxText`.* A byte is its offset in the file, so that `screen` says which bytes it shows.
`pos` has the code's file position, `bytes_read`, `page` and the flags
`begin_reached`, `end_reached`; `get_line` and `back_lines` are functions on it that
read the buffer again as the code does, forwards by `BUF_SIZE`, backwards by half of it.
A read that fails, or a position outside the buffer, sets `failed`.

*`LxDialog`.* The text is a fixed array that ends at its first NUL, with `input_x` and
`scroll`; `field` holds the cells that were painted, each by the piece of code that paints it.

#### From source to device

*`BuildState`.* Of the times of files only what make compares is kept: `there` is the set of
source archives and state files that exist, `newer` the pairs of a target and a prerequisite
of it that is newer.  What a recipe makes is the set of the sources it was made
from, empty while it runs.  make considers the prerequisites of a goal depth first in their
order; a recipe is three steps (it starts and spoils its product, it ends, `touch`), each
of which may be the last.  A clean target is a list of removals, and the one at hand may be
broken off with any part of it done.  `broken` is a history variable: it becomes true when `rootclean` or
`clean` is broken off, which the state files do not survive (see below), and false when a `clean` ends.

*`FeedIndex`.* Files have times of whole seconds.  `mkPackages` compares pairs of files
of one package, deletes older ones and lists the rest, while packages are
built.  `Put` adds a file in one step, where `mkipkg` (143) writes over an old file of the same name, compresses it
under another and renames that: an index made in between may miss the package.

*`Ipkg`.* `status` and `inst_ver` are the status file, `list` the file lists,
`onDisk` the names of the files in the root.  A command is a list of packages
(`args`, `pkgs`) and a position `pc` in the script; each command of the shell that
changes something is a step that may fail or, with `CanKill`, be killed.  What is called in a
condition or before `|| true`, which is all of an installation, does not end at a command that
failed unless its result is looked at: with a full disk `StatusIsShort` installs a status file that has lost any
of its paragraphs (499), `AppendFails` announces a package that has none (522), `ListIsShort` leaves a list with
some of the files, because a pipeline has the result of its last command (758), and each time the script goes on.
The history variable `lost` has the packages whose paragraph or list was lost in this way, and `begun` those
of which an unpacking or a removal was broken off and that were not installed since.  A removal, and
the marks that `upgrade` sets, are under `set -e` and end the script (`StepFails`, `MarkFails`).
`upgrade` goes through what is installed after it has dealt with what is wanted, and looks at each package's
version when its turn comes.

Simplified are: a paragraph that was cut in the middle counts as lost; any paragraphs may be lost, not only the
last ones of the file; files can always be created and renamed; what is wanted or to be upgraded is gone through
in one order.  `ipkg_depends`
lists the dependencies level by level and sorts each level by name; packages are model values
without an order, so the model takes any order within a level.

*`Updater`.* Flash is written in `Chunks`; a chunk holds a release or `Blank`.
`block` are the two version blocks, `vtmp` the copies of them that are read before
and written after an image.  `pc = "off"` is a power failure, after which only
flash, blocks, user data and card remain, and the card may be another.

*`EncSh`.* One byte through the tables of `encsh.c`, in both directions.

### Bounds

The Kconfig files of the instances have two to ten symbols, chosen so that every kind
of dependency
occurs: a chain, a default taken from another symbol, a select against a
dependency, a comparison, a choice with a hidden member, a choice that may be m, a
string hidden by a boolean, a number with an invalid, a rejected and two accepted
values, a loop; entries that show others before and after them, submenus, a symbol
with a submenu.  No run has a state constraint: every counter is bounded by a
guard or by the length of the list it indexes.

| instance | bounds | what they let happen |
|---|---|---|
| `MCFlash`, kind `conditions` | all trees of two levels over four terms, of one level over sixteen, four conditions above, with and without a menu condition | every pair of rules that meet at one operator, with an `m` and a negation below |
| `MCKFiles`, kind `processes` | `MaxSaves` 3, two processes, two names | two saves to one name overlap, a third comes after a kill |
| `MCMenus`, kinds `rows`, `members` | `MaxRows`: nothing is loaded on top of more rows | a load doubles the rows and could be repeated for ever |
| `MCLxdialog`, kind `menu` | lists of 1, 2, 3, 5 and 7 items in 3 rows; `scrltmp` -1, 1, 9 or none | lists shorter than, equal to, and more than twice the window; a saved position before, inside and behind the list; two items with one hot key and one with a button's key |
| kinds `check`, `radio` | 1 to 5 items in 3 rows, any of them on | the same for the keys of the check list |
| kind `text` | all texts of 0, 3, 4, 5 and 9 bytes, `BUF_SIZE` 4, 3 rows, 2 columns, `MAX_LEN` 3 | the buffer is read again several times in both directions, lines longer than buffer half, row and `MAX_LEN` |
| kind `ask` | texts of up to 6 characters of two kinds, a field of 3 cells | the field scrolls twice, the array is full |
| `MCBuild` | two packages, one built with the other; `MaxVersion` 2, `MaxFaults` 1; make world, image, package clean, rootclean and clean | a new source after a complete build, a fault at every step of every command |
| `MCPackages`, kind `feed` | two packages, two versions, `MaxTime` 3 | files of the same second, a build during the index |
| kind `ipkg` | an application that depends on a library and a misspelt name, two versions with different files; `CanKill`; `MaxFaults` 2 | a failure or a kill, noticed or not, and another one in the same command or in the one that recovers; an upgrade broken off over the installed version |
| `MCFlash` | two releases, two chunks, two backups, `MaxFaults` 2 | a failure, and another one while it is repaired |
| `MCRecovery` | three symbols in a loop; one package in the build, a chain of three in ipkg; one release | the last fault comes at any step, and what follows it has to come through |

The theorems hold for every instance that meets their assumptions.

### Fairness

Nothing is assumed where nothing has to happen: `LxMenu`, `KMconf`, `KGconf` and the
other specifications without a liveness property state none.

* `KSymbol` (`CalculationEnds`): weak fairness of `Engine`.  A calculation is straight C code
  without waiting.
* `KConf` (`Ends`): weak fairness of `Steps`, the steps of the walk and an answer to a question
  that the program accepts: sooner or later the user answers acceptably.  Questions that have no
  acceptable answer are excepted by name (`Stuck`).  The input may also end at any time
  (`CanEnd`).
* `BuildState` (`BuildRecovers`): weak fairness of make's steps, strong fairness of `make image`,
  which is called again and again.  Faults are bounded by `MaxFaults`: the property is about what
  follows the last one.  It excepts runs that stay `broken`.
* `Ipkg` (`WantedIsInstalled`): weak fairness of the script's steps, strong fairness of `Retry`:
  the user now and then calls for an installation and agrees to install what is still
  wanted, for which the script asks.  Faults are bounded.
* `Updater` (`Finishes`): the device is switched on again, the script goes on, and the user now
  and then chooses to install (strong, since the menu comes and goes).

`CHECK_DEADLOCK FALSE` is set for `MCKFiles` only, where the number of saves is bounded and the
processes end.  Everywhere else a state without a step is reported; programs that end have a
step `Ended` that changes nothing.

## The runs

`PROJECT.json` has the properties of each run and, for each property, a change to a definition that
breaks it.  Runs that must hold:

| run | config | properties | shows |
|---|---|---|---|
| `symbol_tristate` | `MCKSymbolTri.cfg` | `TypeOK`, `CacheCoherent`, `RequestHonoured`, `WithinBounds`, `IsUncached` | tristate symbols with a dependency chain, a default, a select and a comparison, MODULES switched on and off: no cached value is stale, what the user sets is what is shown, values stay within their limits |
| `symbol_choice` | `MCKSymbolChoice.cfg` | `CacheCoherent`, `ChoiceExclusive`, `IsUncached` | a choice with a default and a member that comes and goes with a dependency, and a string: no cached value is stale, a choice that is y has exactly one member, requests are answered as if every value were calculated from the settings |
| `files` | `MCKFiles.cfg` | `LastIsKept`, `EngineRight`, `NothingElse`, `IsUncached`, `SavedAndReloaded` | the engine with a choice that may be m, one with a hidden member and strings that depend on each other; loading, saving and failing saves with booleans, a choice and strings; and two processes that save to two names, with failing calls and kills between any two steps: no value is stale, no configuration is lost, none is put half written or under a wrong name |
| `conf` | `MCConf.cfg` | `EverythingAsked`, `YesToAll`, `OldAnswersKept`, `Ends` | every mode of conf with answers that show and hide entries before and behind the walk, with a choice that may be m, a symbol selected at m, a string that has a default only sometimes, and an input that ends at any time: everything is asked, old answers stay, allyesconfig leaves nothing at n, the walks end |
| `menus` | `MCMenus.cfg` | `WindowsRight`, `SpaceActs`, `RowsRight`, `OnlyRequests` | menuconfig's windows and the GTK front end's rows, each over two files, with submenus, choices, edits, loads and saves in any order: everything that can be set is reached and acts, no window opens one above it, the rows follow the settings, only what is shown is set |
| `lxdialog` | `MCLxdialog.cfg` | `ScreenRight`, `BoxesRight`, `IsCursor`, `BoxesAsPromised` | menu boxes, check and radio lists in three rows, texts read through a buffer of four bytes and an input field of three cells: what the box shows after its partial repainting is right, every box is a plain cursor, window or editor, a menu that a toggle closed comes back unchanged |
| `build` | `MCBuild.cfg` | `NothingToDoIsRight` | an application and a library it is built with, with failing and interrupted stages, clean targets, whole and broken off, and new sources: when the state files leave nothing to do, the root file system is complete and made from the present sources |
| `packages` | `MCPackages.cfg` | `NewestListed`, `DoneIsWhole`, `InstalledIsThere` | packages are listed in the feed's index while others are built, and installed with dependencies, upgraded and removed by a script that fails, noticed or not, or is killed: the index lists the newest files, what ipkg is done with is whole but for what a full disk just lost, what the status file calls installed has its files |
| `flash` | `MCFlash.cfg` | `InstalledIsWhole`, `ComesBack`, `MeaningKept`, `NestedIsReachable`, `VersionIsWritten`, `EachTurnShrinks` | the whole installer with two releases, two backups and two power failures or failing writes of the root file system: what is announced is there, version blocks are right; all bytes through encsh in both directions; and every condition of two levels over four terms and of one level over sixteen, in a menu with and without a condition, below entries with four conditions: rewriting keeps every y and n, ends, and moves an entry only below one that lets it be reached |
| `recovery` | `MCRecovery.cfg` | `CalculationEnds`, `BuildRecovers`, `WantedIsInstalled`, `Finishes` | calculations over dependencies that form a loop return; after the last failure, kill or power cut a build that is tried again ends, ipkg installs what is wanted, and the installer is carried through |

Runs in which the code does not do what its texts say:

| run | config | violates | shows |
|---|---|---|---|
| `choice_under_m` | `MCKSymbolMod.cfg` | `ChoiceExclusive` | a boolean choice whose members depend on a symbol that is m: the chosen member is shown but stays n |
| `save_retry` | `MCKConfBoolRetry.cfg` | `SaveComplete` | a save whose rename fails is tried again and writes an empty configuration |

The modules state more than the runs repeat: a type invariant `TypeOK` each, the parts the
joined properties are made of (`Reachable` and `Descends` in `KMconf`, `EndsKnown` and `NoInternalError` in `LxText`), and the properties of the next section.  To check one, name it in a `.cfg`.

## What the code gets wrong

Two of these are runs of their own; the others were met while the modules were written
and are named here with the property or constant that shows them.

| where | what happens | shown by |
|---|---|---|
| `symbol.c:251` | a choice member has the choice's answer only if its visibility is y *before* m is promoted to y (274): members of a boolean choice that depend on a symbol at m keep their own n | run `choice_under_m` |
| `confdata.c:328` | `conf_write` clears `SYMBOL_WRITE` while it writes; after a rename that failed, the next save calculates nothing, finds no symbol to write and installs a file without lines | run `save_retry` |
| `confdata.c:391` | a visible number without default and answer is saved as an empty assignment, on which `conf_read` exits (194) | `SavedIsReadable` with a `PORT` without default |
| `symbol.c:544` | `sym_set_string_value` compares with the old answer although `SYMBOL_NEW` says there is none: typing the answer that a file had for a hidden symbol leaves the default shown | `RequestHonoured` with a stored answer (`ProperLoaded` excludes it) |
| `confdata.c:412` | results of `fprintf` and `fclose` are not looked at: with a full disk a part of the configuration is renamed into place | `NothingElse` with `DiskFull = TRUE` |
| `expr.c:478` | the comment says `(a!=m) && (a!=n) -> a=m`; the code makes it `a=y`, which is right | `KExpr!JoinedAsCommented` |
| `conf.c:178` | `?` for a string is taken as its value, since the line still ends with a newline | `KConf!HelpIsNoValue` with a string that takes any text |
| `mconf.c:793` | the result of the last save is ignored; the good-bye is the same | `KMconf!EndMeansSaved` |
| `mconf.c:381` | Enter does nothing on the chosen member of a choice, also when `--->` is printed behind it | `KMconf!EnterOpens` |
| `gconf.c:1436` | `update_tree` returns when the row it removes is the last of its menu and passes over entries behind it that have just become visible | `KGconf!NoneMissing` |
| `gconf.c:967` | a click that toggles, and a load, do not set `config_changed`: the window closes without asking | `KGconf!AskedFirst` |
| `gconf.c:972`, `814` | NULL is walked through: a click in the split view before a menu was chosen; Back after the single view was chosen again | `KGconf!KeepsRunning` |
| `gconf.c:965` | a click tries the next value and y, never n: an option limited to m stays at m | `KGconf!ClickActs` |
| `ipkg:499` | the status file is written again without one package, renamed into place and appended to, and nobody looks at the results: a full disk, or a kill between, forgets this package, and a full disk others, too | `StatusIsShort`, `AppendFails`, `StatusRemove` with `Kill`: `DoneIsWhole` without its `lost` |
| `ipkg:758` | the result of the pipeline that makes the list is that of `sed`: a package whose archive cannot be read again is installed with a short list, and its removal leaves files without owner | `ListIsShort`: `DoneIsWhole` without its `lost` |
| `ipkg:611` | the test for an unknown package can never be true, so its entry is never removed and every later "install wanted" ends at it | `Fetched`, `NotFound` |
| `Makefile:168` | `world` ends with the feed; the README says it makes `root/`, which `image` does | `BuildState!WorldMakesRoot` |
| `Makefile:303` | `rootclean` empties `root/` before it removes the state files, and never those of imageinstall: broken off in between, make finds nothing to do | `NothingToDoIsRight` without its `~broken` |
| `updater.sh.src:71` | the result of `nandlogical` is thrown away: a kernel that was not written gets its version recorded | `VersionIsWritten` with `Silent = TRUE` |
| `updater.sh.src:335` | files missing on the card are passed over: a card with a kernel only, after a resize, ends in "Congratulation!!!" | `InstalledIsWhole` with such a card in `Cards` |
| `updater.sh.src:135` | neither mount nor tar nor gzip is asked how it went: with a full card a backup is cut short, also one that replaces a good one, and looks like any other | the saving step with `Silent = TRUE` |
| `encsh.c:59` | `strcmp` the wrong way round: `-d` encodes | `EncSh!DecodeDecodes` |

Smaller observations, none of which contradicts a text of the repository:

* *Expressions.* Rewriting keeps y and n (`MeaningKept`) and may change m; `expr_trans_bool`
  makes y of m on purpose.  An entry moved below another can be reached wherever
  the condition is boolean (`NestedIsReachable`).
* *conf.* allnoconfig ("New minimal config", `Makefile-orig:55`) does not leave everything as low as it
  could be.  A tristate selected at m cannot be n, and the answer falls through to a random one (136).  A
  symbol that is y and cannot be changed when the walk passes it, since a symbol further down
  has the default y and selects it, is stored as y (77); when that other symbol becomes n, the first keeps
  its y and is not new any more.  So there is a `YesToAll` but no such property for n.
* *conf.* Entries below a choice member are asked for the first member only (`conf.c:392`);
  `check_conf` passes over a choice that is not m; at the end of the input a new choice and a number
  whose default is not accepted are asked for ever (`Stuck`).
* *confdata.* A number that `conf_read` rejects as out of range stays in the cache until the next
  clearing (line 242).
* *menuconfig.* A comment inside a choice is offered by the radio list and handed to the
  setter without a symbol (`mconf.c:635`).
* *gconf.* Editing in the single and the split view updates the right frame as if it held the whole
  tree (909), a load doubles rows (610), hidden strings can be edited under Show All.  `fresh`
  in `KGconf` becomes false there.
* *Build.* Packages that ipkg pulled in as dependencies are not installed again when they
  are rebuilt; with `make -j` the index is removed and made in any order.
* *Feed.* Two files of one package with the same second are both listed.
* *ipkg.* An upgrade leaves files of the old version without owner; a package is configured before
  its dependencies; a failing `postrm` leaves an "installed" package without files.  All this is allowed
  by `InstalledIsThere`: the first concerns files of no installed version, the last one is in `begun`.
* *Updater.* After a power failure the two version blocks may differ; kernel and root file system
  may be of different releases; a second installation in one start writes nothing.

## The proofs

TLAPS proves these theorems, for every value of the constants:

| theorem | says | assumes |
|---|---|---|
| `KSymbolProofs!TypeCorrect` | `Spec => []TypeOK` | any file |
| `KSymbolProofs!CacheIsCoherent` | `Spec => []CacheCoherent` | `Acyclic(Rank)`, `PlainChoices`, `ProperLoaded` |
| `KSymbolProofs!ChoiceIsExclusive` | `Spec => []ChoiceExclusive` | the same |
| `KSymbolProofs!ValuesAreBounded` | `Spec => []WithinBounds` | the same |
| `KSymbolProofs!RequestsAreHonoured` | `Spec => []RequestHonoured` | the same and `RequiredChoices` |
| `KSymbolProofs!EngineIsUncached` | `Spec => IsUncached`, the refinement of `KValues` | `Sorted`, `PlainChoices`, `ProperLoaded` |
| `KConfProofs!EverythingIsAsked` | `Spec => []EverythingAsked` | `TreeAssumption` |
| `KConfProofs!OldAnswersStay` | `Spec => OldAnswersKept` | the same, `PlainChoices`, `ChoicesSorted`, `LoadedAnswers` |
| `KConfProofs!YesReachesAll` | `Spec => []YesToAll` | the same, `RequiredChoices`, `DependenciesSorted`, `MembersBelowChoice` |
| `KConfProofs!ConfMakesRequests` | `Spec => OnlyRequests`: conf implements `KValues` | `TreeAssumption`, `ChoicesSorted`, `LoadedAnswers`, `Fresh \in Loaded` |
| `LxdialogProofs!ScreenIsRight` | `Spec => []ScreenRight` | any lists, window height and saved positions |
| `LxdialogProofs!MenuIsCursor` | `Spec => IsCursor`, the refinement of `ListCursor` | every item has a hot key (`DOMAIN Hot = Item`) |
| `LxdialogProofs!CheckScreenIsRight` | `Check!Spec => []Check!ScreenRight`, check list and radio list | the same, `TagsDiffer` |
| `LxdialogProofs!CheckIsCursor` | `Check!Spec => Check!IsCursor`, the refinement of `ListCursor` | the same |
| `LxdialogProofs!FieldIsRight` | `Box!Spec => []Box!FieldRight` | `InputAssumption` |
| `LxdialogProofs!InputIsEditor` | `Box!Spec => Box!IsEditor`, the refinement of `LineEditor` | the same |
| `KSaveProofs!SavedIsKept` | `Spec => []LastIsKept` | `DiskFull = FALSE` |
| `KSaveProofs!SavedIsWhole` | `Spec => NothingElse` | `DiskFull = FALSE` |
| `BuildStateProofs!NothingToDoHolds` | `Spec => []NothingToDoIsRight` | `BuildAssumption` |
| `PackagesProofs!IndexListsNewest` | `Index!Spec => []NewestListed` | any packages, versions and times |
| `PackagesProofs!NewestIsKept` | `Index!Spec => Index!NewestKept` | the same |
| `PackagesProofs!DoneStaysWhole` | `Spec => []DoneIsWhole`, with and without kills | `IpkgAssumption` |
| `PackagesProofs!InstalledStaysThere` | `Spec => []InstalledIsThere`, with and without kills | the same, `DistinctFiles` |
| `UpdaterProofs!InstalledMeansWhole` | `Spec => []InstalledIsWhole` | `Silent = FALSE`, `CompleteCards` |
| `UpdaterProofs!VersionsAreWritten` | `Spec => VersionIsWritten` | `Silent = FALSE` |

`StateFilesVouch` (`BuildStateProofs`), `ScanIsRight` and `WholeHolds`
(`PackagesProofs`) and `InvHolds` (`UpdaterProofs`) are the invariants behind the theorems about
the build, the packages and the installer.

### The engine

**Assumptions.**  `FileAssumption` and `TypesAssumption` (`KconfigFile`) say what
the parser guarantees of a file, `LoadedAssumption` (`KSymbol`) gives the type of the
settings; TLC evaluates them on the instances.  The other theorems about the engine
assume more, and name it in the theorem.  `Acyclic(Rank)`: symbols have ranks
that fall along every dependency.  `PlainChoices`: choices are boolean, their members
are boolean without defaults and no literal of a member's prompt is ever m; the
menus of this repository have no others.  `ProperLoaded`: a choice was told of one of
its own members, and a string without an answer has none stored.
`Sorted`, for the refinement: the sequence `Order` names every symbol once and after all it
depends on, so that positions in it are ranks.  `RequiredChoices`, for the requests only: no choice is `optional`.  An optional choice set to y
whose members are all hidden becomes n, so that the request is not honoured; no menu of this
repository has an optional choice.
`MCKSymbolTri`, `MCKSymbolChoice` and `MCKFiles` have TLC check that their files meet all of them
(`TheoremsApply`; `Sorted` in the first two, where `Order` is given).  The assumptions are needed: `choice_under_m` breaks
`ChoiceExclusive` without the second, stored answers of new strings break coherence
without the third (`symbol.c:544` above), and with a loop a value depends on who asked first.

**Type correctness.**  `TypeOK` alone is not inductive: the member that a choice
takes is looked up at index `at`, so `TypeInv` adds that only a choice is in
phase "choice" and that its index is at least 1.

**Coherence.**  `CacheCoherent` speaks about settled symbols; it follows from
`Coherent(Rank)`, the conjunction of

* `Chain(Rank)`: the running activation has the lowest rank and every activation
  ranks below its caller.  Hence what an activation asks for is never itself
  an activation, and `Wants(s) \subseteq valid` means that all of it is *settled*.
* `Calculated`: each settled symbol is `Sound`, an activation that knows its
  visibility is `ValueSound`, a choice that tries its members is `TryingSound`.
  `Sound` does not say that the value equals the true one.  It says that the value follows
  from settled symbols only (the conditions of the defaults tried, the value of the
  one taken, the candidates seen).  A calculation changes only the value of
  its own symbol, which is not settled before, so soundness is kept by `Footprint`:
  an expression depends on the symbols in it and on nothing else.
* `Settings`: members have no reverse dependency, no boolean is m, answers of
  choices are members and new strings hold no answer.

The hard steps are the setters that do *not* clear the flags, because the
symbol has the value it is set to (`symbol.c:389-394`, `532-551`).  They may still
change the answer, remove `SYMBOL_NEW` and store a member in the choice.  Each cached
value must be what the new settings give: limiting a limited value changes
nothing (`SetTristate`), the member chosen again is now the first candidate and
was visible (`ChooseAgain`, `SetMember`, `SetChoice`), and a new string that receives an
answer always clears the flags, since it had none stored.

**Bounds.**  `WithinBounds` compares a value with the visibility and the reverse dependency
that `sym_calc_value` stored beside it.  `Limits` says that these are still what the settled
values determine, also for a choice that is trying its members; `Coherent` does not say so, since
no value is calculated from what was stored.  With both, the bounds are a fact about the pure
calculation (`BaseBounded`: whatever answer, choice or default it starts from, what comes out lies
between them).

**Requests.**  `RequestHonoured` speaks about the next time a symbol is settled, which may be many
calculations after the request.  `Promise` carries it there.  `Pledged(s, w, U, N, C, K)`: every
sound calculation with the settings `U`, `N` that finds the symbols of `K` as they are in `C` gives
`s` the value `w`.  `Fixed`: the symbols of `K` depend on each other only, so that no later
calculation finds them otherwise (`SoundUnique`: sound calculations agree where they overlap).  The
setter makes the promise with what was settled when it accepted the value, `K` being what the
symbol depends on; calculations keep it, the next request replaces it.  For a member of a choice
the promise is about the choice that reads the setting: the member set to y is the first
candidate, and it is visible.

**The cache hides.**  `KValues` has no cache: `Values` calculates all symbols along `Order` from the
settings.  `EngineIsUncached` shows that every step of the engine is one of `KValues` or changes
nothing that can be seen:

* `Values` is a recursive function along `Order`.  That it exists and is what its equations say
  (`ValuesAre`) takes an induction over positions, done as a least counterexample (`LeastNat`,
  from the library's well-foundedness of the natural numbers).  A symbol is calculated
  after all it depends on and never again (`CalculationStays`), so the result is a sound calculation of
  *all* symbols (`ValuesSound`).
* A cached value is sound as well (`Coherent`), for the settled symbols.  `ShownIs`: the two
  agree where a symbol is settled.  Otherwise take a symbol of least rank where they differ; all it was
  calculated from ranks lower and agrees, so `SoundUnique` gives a contradiction.
* Hence the limits agree too (`LimitsShown`), and what a setter accepts,
  rejects or limits is what `KValues` accepts, rejects or limits with the true values: the request of
  the engine is a request of `KValues` (`TristateRequest`, `StringRequest`).  Calculations and clearings leave the settings alone and
  map to stutters.

`SoundTrue` gets the value of a calculation from scratch from `Sound`;
`CoherentExclusive` gets exclusiveness from the soundness of the choice and of its
members.

### conf

**Assumptions.**  `TreeAssumption` (`KMenu`) says that the entries are a tree.  `ChoicesSorted` and
`DependenciesSorted` (`KValues`) say that `Order` is an order of calculation, `LoadedAnswers` that a choice was
told of one of its own members, `MembersBelowChoice` (`KMenu`) that members are listed below their choice
only.  `Fresh \in Loaded`: to start from nothing is to have read an empty file.  `MCMenus` has TLC check that
its last file meets all the assumptions of `YesReachesAll` at once, so that they do not exclude each other.
`MCConf` meets all but `PlainChoices`, since its choice may be m: there the run asks more than the theorem.

**Everything is asked.**  The walk that ends the program (`check_conf` without a question) looks at each entry
once, so it must find every new symbol although it keeps no record of where it was.  `NothingNew` says that
while such a walk goes on there is a set `S` of passed entries (`Passed`): none of them is new and settable, what
is listed below an entry of `S` is in `S` or still to be called, and nothing changes a value meanwhile, because
the first question sets `conf_cnt` and another walk follows.  When nothing is left to be called, `S` is closed under
going down from the root, so it holds everything that can be reached.

**Old answers.**  A symbol that is not new and is not asked is set to the value it has.  `OldAnswersStay` compares two
calculations along `Order`, one from the old settings and one from those with that value as answer,
position by position (a least one at which they differ): limiting a limited value changes
nothing, a member that is y is the one its choice took, and the member chosen again is again the first candidate.
A question for a choice is about the one member offered (`OnlyOne`) or the one that is chosen.

**allyesconfig.**  Two facts are combined.  `Held` contains `AskedInTime`: whenever a question is next, its entry was found
visible by the step before, so that nothing changed in between.  `AnsweredYes`: every ordinary
symbol that is not new has an answer above n.  It is kept since the answer to a visible symbol is
above n in each way it may come about: y or m is in the range, or the symbol cannot be changed and is visible,
and then it is selected above n or is kept on the screen because it is above n; the members of a plain choice are not asked, and a
required choice can never be set.  At the end nothing settable is new (`NothingNew`), so all that is
settable has an answer above n, and its visibility lets it show.  The corresponding statement for n is
false (see above), which is why there is none.

**Requests.**  `KValues` allows a request only for a symbol that is visible or above n at that moment.  A question asked by
`conf` is such a request by `AskedInTime`; the member of a choice is one that is offered, the value typed one
that the engine accepts.

### The dialog program

`ScreenRight` is not inductive: a row is repainted at `choice`, and nothing in it says that
`choice` is inside the window or that `scroll` leaves the window inside the list.  `InWindow`
adds both, once a list is up, and the types they need.  Each key is then one of
four: it moves inside the window (two rows repainted), scrolls by one (all shifted, one
repainted), pages (all repainted) or moves a button.  `IsCursor` needs the same invariant: the
mapped cursor `scroll + choice` moves as `ListCursor` says only if both stay in range; a hot
key is found in the same order in both.

The check list and the radio list are an instance `Check` with variables of their own, for either value of
`Radio`.  `CheckInv` is the same invariant, and the list that is up is one of `Lists`: the marks are a set
of items, space repaints the row of the highlighted item only, and the first item that is on opens the list,
so both need that no item is twice in a list (`TagsDiffer`; the run assumes it of its
lists, too).  A radio list repaints all rows after it has moved its mark, and none when the
item was on already.

The input box is an instance `Box`.  `InputInv` is `FieldRight` with the types, and outside the box nothing is
scrolled.  An array that holds NULs from `n` on is the text of its first `n` cells (`TextIs`),
so a key that writes at `scroll + input_x` appends, one that clears the cell before it deletes.
Scrolling back is the step `Reveal`: it changes no character, and brings the cursor off the left edge, so the
next backspace is not lost; that the cells it paints behind the text are empty is `FieldRight`.

### The files

`LastIsKept` (the configuration saved last is in the file or, while there is none, in the
backup) is strengthened by `OwnWhole`: a process between its last write and its rename has
its *whole* configuration in its own temporary file.  It holds because temporary names contain
the process number (`TmpName` is injective), so that no other process can open it; with one name
for all, both theorems fail (the mutant `OneForAll`).  `DiskFull = FALSE` is needed, see above.

### The build

A target is `Fresh` if make would leave it alone.  The invariant says what a package's fresh
state files vouch for (`Vouched`): "extract" for a tree of the present source, "compile" (with all
below it) for a build from that tree and the installed libraries, "install" and "targetinstall" for
copies of that build, the index for the feed, "imageinstall" for the root.  Each of these is
about one recipe and its direct prerequisites only, so that it can be kept step by step:

* A recipe spoils what it makes, and its target is stale from the first command to the `touch`
  (`Running`): whatever is half made, nothing vouches for it, and an interruption changes nothing
  (`OnlyStale`).  After the last command the product is right (`Done`), and touching the target
  makes it vouch for that.
* Touching a file makes stale what depends on it (`TouchKeepsStale`), so a new library makes the
  builds with it stale, and a new source its package; removing files makes nothing fresh
  (`RemovalKeepsStale`).
* A clean target removes products that files still vouch for, or the files first.  `Cleaning`
  says how far it has come, and `InRoot` and `InAll` name the two moments at which the files vouch
  for what is gone.  Breaking off there is what `broken` excepts; `PackageClean` has no such moment.
  A `clean` that ends leaves no state file, so all is right again whatever was before.

What the root file system holds then follows from the files that an image needs all being fresh:
`built[p]` is made of the source of `p` and of what it uses is made of.
`MadeOfAllItNeeds` turns that equation into `Current(p)`; one half uses that `BuildAssumption`
excludes cycles (make drops circular dependencies, so the order would not be what the rules say):
a smallest package that has too much would have to use another that has.

### The feed

`mkPackages` deletes files while it still compares others with what is left, in any order.
That the older files are found nevertheless is `Outlived`: of every package with a file at the start one as
new as that file is still there, because a file goes only for a newer one.  With it a file
is deleted if and only if it was not one of the newest (`DeletedAreOld`), and `Scanned` says so of
all files the loop has come to.  No maximum is taken, so no induction over the times is needed.
`NewestIsKept` also covers runs with builds in between; it needs only that no file has the time
that stands for an absent one.

### The package manager

`DoneIsWhole` is about the packages a command is done with; a package becomes one of them by the
last of six steps.  `Written` therefore follows the package at hand: behind the unpacking its files
are on the disk, behind the listing its list is right if it was not lost.  `Progress` says which packages a command is
about at each step (the batch is empty outside an installation; the package at hand is the first
of `pkgs`).  What stays to show is that no step, failed or not, touches a package other than the one at hand
without counting it in `lost` (`NextComplete`).  Nothing of it needs `CanKill = FALSE`, since a killed command
forgets its batch; what it leaves is the business of the second theorem.

`InstalledIsThere` is about all packages between and during all commands.  A paragraph says installed only after
`StatusAppend`, behind the unpacking (`Written`), and a status file that is written again has nothing new that
is installed (`StatusFileKeeps`).  Files go by an unpacking that fails, which may cut one short that it replaces, and
by a removal, which takes what the list has.  Both touch only files of their own package if the lists name no
others (`OwnLists`, which a short list keeps) and packages have no file in common, which is `DistinctFiles`:
ipkg does not look for such files, and two packages that share one lose it with either.

### The installer

`Silent = FALSE` says that a failing command shows in its exit status, which the code relies on
(`updater.sh.src:71` above).  The invariant is `UpdaterInv`: for the flash, the chunks before
`pos` are written (`ChunksRight`), the version blocks to be written differ from those in the flash
in the part at hand only (`BlocksRight`), a part the script has dealt with since the start is whole
(`PartsRight`), and the files it has passed are not on the card or their part is taken
(`PassedRight`); for the user's files, what is restored comes from a backup or the device
(`FromRight`).  `CompleteCards` says that a card
has the kernel and a root file system.

### Only model-checked

The refinement `IsUncached` with loads between requests and with choices that may be m
and `EngineRight` (`MCKFiles`), the content of files (`KConfData`), files with loops, choices that may be m; the text box; `ComesBack` (`encsh`, a table of 256 entries).  Three things are out of the prover's reach:

* liveness under fairness and `ENABLED`: `Ends`, and all of the run `recovery`;
* induction over data, such as expression trees: `MeaningKept`, `NestedIsReachable` and `EachTurnShrinks` (`KExpr`);
* modules with `RECURSIVE` operators: `KExpr`, `LxText`, and the two front ends whose code draws the tree recursively, `KMconf`
  (`WindowsRight`, `SpaceActs`) and `KGconf` (`RowsRight`), with their `OnlyRequests`.

## What is not modelled

* `qconf.cc`: the Qt front end.  Its `ConfigList` keeps rows as `gconf.c` does, but updates them through Qt's list view.
* The lexer and the parser, and how `menu_finalize` builds the tree: their result is the constant of `KconfigFile` and `KMenu`.  What they do to conditions is in `KExpr`.
* `.config.cmd`, `autoconf.h`, lengths of lines (1024) and names (128) in `confdata.c`.
* Option parsing, help texts and the ncurses and GTK drawing below the rows and cells.
* `make -j`, file times of one second, the cross compiler, native headers, boot disk and vendor rules.
* The package rules: about 400 instances of one template, which is `BuildState`.
* ipkg's package files and addresses as arguments, offline and pending packages, configuration files, several
  destinations and the queries.  The other feed scripts convert text and archives and keep no state.
* In the installer, the console shell, signals, partition sizes and devices of other models.
* Patches, kernel and busybox configurations and images are data.

## Plan

1. `KMconf` with the items of a window as a recursive function, as `KMenu` has them, so that `Descends` and
   `Reachable` come into reach.
2. The remaining operations of ipkg (configuration files, several destinations), the rows of `qconf.cc`,
   parallel make.
