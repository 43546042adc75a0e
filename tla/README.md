# TLA+ specifications of hdf5-pickles

These specifications model the tools of this repository that keep state: the HDF5
pre-flight validator `h5policy`, the repair tool `h5patch`, the parallel marker
scanner `h5markers`, and the gates that keep the repository's registry and format
reference consistent. Each is hard in a way of its own. `h5policy` is sequential:
a file is a graph that is read breadth-first, each rule is applied when its bytes
happen to come up, every registry is capped, any step can throw, and one session
analyses one file after another with the same globals. `h5patch` computes a plan
twice, once on paper and once while it writes, and can be killed in between.
`h5markers` runs threads. The gates compare files two at a time that are edited
one at a time, and promise something about all of them. A unit test exercises one
input in one order; the models choose the input and the order.

Run everything from this directory: `tlc -config MCWalk.cfg MCWalk` checks a
model, `tlapm FindingsProofs.tla` checks proofs.

## The system

| Component | State it keeps | Operations | Hard behaviours | Correct when |
|---|---|---|---|---|
| Finding store (`h5_findings.pk`) | decision, parallel finding arrays, flat evidence arrays, resource codes seen, error count | `h5policy_emit*`, reset | cap, deduplication, findings in any order, session-wide counter | the verdict is that of the gravest finding; nothing is lost silently |
| Session and walk (`h5_policy.pk`, `h5_validate.pk`, `h5_walk.pk`) | queue, visited set, stop reason, cache-image bodies, replay flags | `h5policy_analyze`, `h5policy_walk_reachable_metadata`, `h5policy_enqueue_ohdr` | exceptions anywhere, recursive replay, stale globals, two ends of file | an accepting report vouches for the reachable graph |
| Extents (`h5_walk.pk`, `h5_layout.pk`, `h5_chunkindex.pk`) | two capped registries of byte ranges | account metadata, declare data | either side may be read first, caps, clamping, records read twice | shared bytes are reported, and only those |
| Message chunks (`h5_dispatch.pk`, `h5_walk.pk`) | claimed continuation chunks, chunk count, recursion stack | `h5policy_validate_msg_chunk`, `h5policy_claim_cont_interval` | cycles and partial overlaps over all headers of a file | no byte is claimed twice; the recursion is bounded; the count is exact |
| B-tree walkers (`h5_group.pk`, `h5_chunkindex.pk`, `h5_btree2.pk`, `h5_dense_links.pk`, `h5_dense_attrs.pk`) | visited nodes, totals of the tree being walked, chunk and metadata counts of the file | one recursive walker per kind of tree, `h5policy_count_chunks` | nodes shared between trees, levels that lie, ceilings passed in the middle of a tree | no node is read twice; a clean tree was read whole; a count is held against a whole tree only |
| Validators of single messages (`h5_datatype.pk`, `h5_filter.pk`, ...) | per-object scratch fields | one validator per structure | none beyond the bytes of one record | field rules of the format |
| Local-heap ownership, region references (`h5_walk.pk`, `h5_group.pk`) | three capped records: owners of segments, classes of headers, targets of references | note or check while decoding, judge at the end | the walk reaches a target before or after the reference, headers given up, caps, two resets per analysis | one of the heaps that share a segment is reported, no other is; references are judged by what was decoded |
| Global-heap sweep (`h5_validate.pk`) | a byte window, a position in a collection | scan, check a collection | a length that wraps to an advance of zero at one `size_t` width and not at the other | the sweep ends; a reader of either width that stands still is reported, and only such |
| Profiles, run options | constants | resolve | none | limits are valid |
| `h5policy` driver (bash), walk budgets (`h5_findings.pk`) | child process, its output; operations, next look at the clock, deadline | run, time out, report; charge an operation | wall clock against the walk's own deadline in two passes, death at any step, counters near 2^64 | exit status and report agree; no acceptance without a report; every guarded command ends |
| `h5patch` (bash, `h5_patch.pk`) | plan, target copy, action list | plan, apply, verify | plan and apply run the same catalog over different bytes; kills, foreign writes | the reviewed writes are made, to the chosen target; success is said of repaired files |
| `h5markers` (C++) | file chunks, per-thread matches, stop flag, first error | parallel scan | threads, short reads, chunk and block borders | each marker is found once, or there is no report |
| Finding registry and routing (`finding_registry.py`, `message_routing.py`, `h5cve`) | catalog and route shards, messages read off the pickles | load, resolve, extract | rules that contain each other, values that the source does not show | a message leads to the record that it is about |
| Registry gate (`check_registry.py`, `check_ssp_control_evidence.py`) | a dozen YAML files, fixtures, git history | check, exit | files that go out of date one by one, renames | what passes is consistent over all files |
| Format reference (`pkdoc.py`, `check_markdown_links.py`, `CMakeLists.txt`) | sidecars, manifest, pages, file times | render, build, docs-check | pages older than sources, or edited by hand | a page says what its pickle defines |
| `h5explain`, Emacs inspector, format pickles, CVE case tool, other checkers | none that outlives a command | render, check | none modelled | - |

How they interact: the driver starts one `poke` process under `timeout(1)`, which
calls `h5policy_analyze` through `h5policy_run` and prints a report and a marker. `analyze` resets every registry,
validates the superblock, and walks. The walk validates one object header at a
time; a header is a stack of message chunks (Chunks) whose messages enqueue
further headers (Walk), account metadata and declare data (Extents), begin trees
(BTrees), name heaps and references (Owners), and emit findings (Findings). The walk reads the exit code back after every header and
stops at a rejection unless told to go on. `h5patch` and in-process consumers
call `analyze` again and again in one session; `h5patch` reads the findings to plan
its repairs (Patch). The messages of those findings are what the registry resolves
to record families (Registry, Routing), which is what the gate keeps consistent
with the manifest and the measurements (RegistryGate).

## Modules

| Module | Models | Checked by | Proved in |
|---|---|---|---|
| `FindingClasses` | classes, precedence, exit codes | (with the modules below) | |
| `Verdict` | abstract specification: the exit code is that of the gravest class established | refined by `Findings` | `FindingsProofs` |
| `Findings` | the finding store and the absence rules that read it | `MCFindings` | `FindingsProofs` |
| `Walk` | analyze, walk, replay | `MCWalk` | `WalkProofs` |
| `Extents` | the two registries and their callers | `MCExtents.cfg` | `ExtentsProofs` |
| `Chunks` | message chunks and continuations | `MCChunks.cfg` | `ReadersProofs` |
| `BTrees` | the walkers of every tree with inner nodes, and the ceilings of the file | `MCBTrees` | `BTreesProofs` |
| `Owners` | segment owners, header classes, region references | `MCOwners` | `OwnersProofs` |
| `Sweep` | the check of one collection beside a reader of either width | `MCSweep` | `ReadersProofs` |
| `Driver` | the wrapper, `timeout(1)`, the death of `poke`, both budgets | `MCDriver` | `CommandsProofs` |
| `Patch` | plan, review, apply, verify, again | `MCPatch` | `CommandsProofs` |
| `Search` | abstract specification: every offset is examined once, the answer is complete or there is none | refined by `Markers` | `ReadersProofs` |
| `Markers` | main thread, workers, display | `MCMarkers` | `ReadersProofs` |
| `Registry` | loading shards, order of rules, `resolve_finding` | `MCRegistry` | `GatesProofs` |
| `Routing` | which messages the pickles can emit, which resolve to nothing | `MCRegistry` | `GatesProofs` |
| `CaseHistory` | case records, their git history, citations of their fields | `MCRegistry` | `GatesProofs` |
| `RegistryGate` | composes the three: all files, their edits, the gate | `MCRegistry` | `GatesProofs` |
| `SpecDocs` | sidecars, pages, the docs target, docs-check | `MCSpecDocs` | `GatesProofs` |

Three modules of proofs are about several components of one kind: `ReadersProofs`
about what reads a file (Chunks, Sweep, Markers), `CommandsProofs` about what is run
from a shell (Driver, Patch), `GatesProofs` about what a change to the repository
must pass. They extend the components they are about, which is why the
specifications of those have names of their own (`PatchSpec`, `MarkersSpec`).

The modules are separate because each is a different abstraction of the same
run; they meet at these points. `Walk` carries the decision as the gravest class
raised, which is what `Findings` is shown to compute (`ImplementsVerdict`).
`Chunks`, `Owners`, `BTrees` and `Extents` abstract the walk to "headers one after
another" and "any structure next", which every order `Walk` takes satisfies. `Driver` keeps of
the walk that it charges operations, may decide anything, and may not end by itself;
`Walk` has a sweep as one step, which `Sweep` opens. Definitions whose
comment begins with "Fault" take no part in a specification: each is the
definition under it with one plausible mistake, kept so that every property can
be shown to notice one.

### Findings
`items` is the set of parallel `h5policy_finding_*` arrays, `locations` the flat
evidence arrays. `Emit` is `h5policy_emit_with_evidence`: raise the decision
first, then drop, store, or store the terminal marker. `mark` and `errorCount`
are deliberately not reset by `BeginAnalysis`, because the code does not reset
them. Messages, offsets and JSON are left out.

### Walk
`pc` says where `h5policy_analyze` stands. A file is not chosen in advance: while
a header is open, its links, findings, and cache image are chosen one by one
(`Link`, `Finding`, `ReadCacheImage`), which covers every file and every order of
messages. The depth limit is one of the `options`, because the profile chosen for an
analysis sets it. `Throw` is any exception in the `try` block, in any state; the guard
`pc = "sweep" => options.sweep` says that without a sweep nothing runs after the
walk. Addresses are model values; `PastEof` lies between the declared and the
physical end of file, `Outside` beyond both. `found`, `edges`, `validated`,
`imageRead` and `replayed` are history variables. Abstractions: an address stands
for a whole header, so two headers that overlap partly are not modelled here; the
caps of the reachability record (65536) are not reached; `resource`, `corrupt`
and the other classes of a header's findings are all `Faults`.

### Extents
`ReadMetadata` is `h5policy_account_metadata`, which every structure passes
through after its range was checked. `ReadIndexRecord` stands for the four record
families that check the range before they declare it, `ReadArrayElement` for the
fixed-array elements, which declare whatever they name, `ReadContiguous` and
`ReadLegacyContiguous` for the layouts. Integers keep their width: `Top` is the
largest 64-bit value and `ExtentHi` saturates there as the code does.

### Chunks
The recursion of `h5policy_validate_msg_chunk` is the variable `stack`. A message
other than a continuation only takes room, so a chunk holds at most `room`
continuations and may end at any of them, by overrun or not. `damaged` is a wrong
signature or checksum, which the code reports and reads on from. That no byte is
on the stack twice (`StackDisjoint`, proved) bounds the recursion by the file.

### BTrees
`stack` is the recursion of a walker, `due` the node it is called for next. What a
node says (its level, its entries, whether it is sound, a finding after which the
code goes on) is chosen as it is read, which covers every file because no node is
read twice (`EachNodeOnce`, proved). The six kinds differ in what the code makes
them differ in: which ceiling stops them, whether a repeated node is a finding,
whether the depth is looked at before or after the node is marked and counted, and
when the count of the header is compared. `PassOver`, `RefuseDepth`, `SkipRepeated`
and `FindBad` are the ways a call returns at once; `ClaimChunks` stands for the
indexes without nodes, which draw on the same ceiling. `named`, `decoded`, `tally`,
`verdict` and the counts after them are history: what a walk without shortcuts
would know.

### Owners
The file is `segment`, the segment that each heap prefix names. A header is
`BeginHeader`, then `ReadShape`, `DecodeHeap` and `NoteRef` in any order and number,
then `EndHeader` or `GiveUpHeader`; only the first of the two records a class. The
record of owners is written by the first heap alone, and is looked at before its cap
is. `BeginAnalysis` and `EnterWalk` both reset, as the code does. `StopWalk` is a
rejection or an exception: references are then not judged. `decoded`, `seen`,
`ended` and `noted` are history: what a record without caps would hold.

### Sweep
A collection is the cells that the check and the reader have read, chosen as they
are first read: `Read` enumerates the values of a cell that has none. Cells that
neither reads again are dropped (`Keep`). The check computes the advance of an
object in both widths; the reader, which is the library's and is modelled from the
comments of the code, in its own. `Objects + Slack` is the bound of the check's loop.

### Driver
`poke` says where the process stands, from `loading` (the pickles and the file) and
`preparing` (before the walk) over
`walking`, `analysed`, `reported` and `marked` to `exited`. `Start` is the wrapper,
and the clock of `timeout(1)` runs from there; `Analyze` sets the first deadline, as
late as loading takes. `SecondPasses` lies
between any two steps. Two variables record where the time went: `loaded`, the seconds
before the analysis, and `longest`, the longest stretch in which the process did not
find its clock in time. `Operation` and `LookAtClock` are `h5policy_walk_tick`
with `RefuseOperation` for its two exceptions about operations; `ResetBudget` clears
the counters and leaves the deadline, so that the second pass, which begins with
`BeginPass`, has a deadline of its own. `Die` is the process ending anywhere short
of its `.exit 0`, `Kill` the wrapper's timeout, `guarded` whether `timeout(1)` is
installed. Findings are reduced to three decisions. `--help`, which exits with 0 and
no report, and the check that what poke printed looks like JSON are left out.

### Patch
A file is the set `bad` of catalogued fields that are not as they should be, and
for each structure the checksum, which is ideal: it is the body it was computed
from, or junk. An analysis has a deadline of its own and can stop anywhere: `Analysis`
is `h5policy_analyze` with the file as it is or as one of `CutsOf`, where nothing is complete
(`h5patch_policy_evidence_complete` says no) and `walked` is how far it came: not to the
object header, into it, or past the test of its checksum. Plan, comparison and apply each
analyse, and `seen` and `approved` are what the last two of them saw.
The catalog is `Stages`, in the order of `h5patch_collect_actions`,
and every stage is one operator used by the plan, on the file it was given, and by
apply, on the file as written so far; what the code hashes over hypothetical bytes
in one mode and written ones in the other is `BodyAfter`. A run of apply is
`Compare`, `ChooseTarget`, `BeginCopy`, `EndCopy`, `Analyse`, then `Collect` and
`WriteNext` for each stage and write, `Close` and `Verify`; `KillApply` can come
anywhere, `Touch` (somebody else writes the input) anywhere but within the writes
of an in-place run, which opens the input itself. `Again` is the person who plans
anew on the result. A foreign write, a kill or an analysis out of time is a mishap and
starts the count of rounds over. `Verify` is another process with the budgets of
its profile: a file that it would accept may be refused, so it may answer no.
The plan is compared without the decision that is printed with it, so that the
model's `Compare` refuses less than the code's. The
finalizing stage writes the repairs of the header's fields, which the two stages before
it only collect (`Semantic`), and then the header's checksum; that the kinds of repair
are at most two there is what `ActionOn` relies on.

### Markers
One step of a worker is one block: `pread_all` reads all of it or throws, however
many partial reads that takes. `Truncate` cuts the file while it is read. A failed
`std::thread` ends the program with the others unjoined (`SpawnFails`), as in the
code, and so is not a report. What is printed is the list of all threads' matches
(`Entries`), each at its place in the order of the report (`Place`, `Collected`). Bytes overwritten during the scan are left out.

### Registry, Routing, CaseHistory, RegistryGate
The inventory of unrouted messages, the measurements and their verification are
generated files, and the gate only notes when one is missing (without measurements the
control evidence fails); this is why `EveryFindingAccounted` speaks of gates that had
the inventory. Expectations may name a file that is
not there (`mayMiss`), name none, or be unreadable; `FixtureErrors` skips what
the script skips, and the control evidence reads the expectation alone. Clients of a
composing helper are read by source file: the codes of a file's literal clients are
crossed with its messages, and a client with a field that is no literal yields nothing
(`SpecValues`). `Remeasure`, `Reverify` and `EditSummary` are what `h5cve evidence`,
`h5cve verification` and an editor of the README write.
A message is a set of words and a match a set of words, so that containment and
length relate as they do for substrings. An emit site in `Routing` has the form in
which its code and message stand in the source, and what it emits for each caller;
that the tables of composing helpers agree with the helpers is taken for granted.
`CaseHistory` keeps what `git log` shows (`log`) beside what really was
(`carried`), because renames separate the two: `renamed` are the files to which another
was ever renamed, a file that is removed and written anew included. `RegistryGate` has one action for
each file that people edit, and `Gate`, whose checks bear the names that the script
prints. The gate only reads: a verdict ends a behaviour, and edits go on from the
states without one.

### SpecDocs
`newer` stands for file times: the pages whose sources changed after they were
written. `Build` is the docs target, which writes what is due in any order and ends
at the first command that fails; `WritePage` is `pkdoc.py` called by hand. A page
is what it shows of types, names, layouts, sections and anchors. Every page is
taken to be tracked by git. One message of the checker, that `type_order` names
unknown types, cannot be printed: rendering has raised before.

## Runs

| Run | Question | Bounds and why they suffice |
|---|---|---|
| `findings` (`MCFindings.cfg`) | does the store report the right decision and close its list properly? | 2 corrupt, 2 resource, 1 policy and 1 warning code, cap 2, one evidence range per finding, 3 errors in the session: the cap, the marker, repeated and distinct resource codes, and a second analysis all occur; one more finding repeats a case |
| `walk` (`MCWalk.cfg`) | what does an accepting report vouch for, and does every analysis end? | 3 headers, depth limits 1 and 2, one cached body, superblocks that alias the extension, point past the end, or outside; the options of the strict and of the forensic profiles; one kind of exception (the kinds differ only in the class and the reason they leave, and the proofs cover them all). A chain root-child and a refused or accepted grandchild, depths that differ along the queue, aliases, shadowing and replay, and a following analysis with other options all occur |
| `extents` (`MCExtents.cfg`) | is the disjointness check exact? | addresses 0 to 3, lengths up to 2 (so that ends wrap past `Top` and are clamped), 2 records, caps 1 and 2: both caps are hit, each side can come first, a record is read twice |
| `chunks` (`MCChunks.cfg`) | are continuation chunks disjoint, the count exact and a clean walk complete? | 3 bytes, 2 headers, 3 continuation messages, budget 1, overhead 2: aliases across headers, self reference, partial overlap, a chunk too small, an empty region, and a count past its budget all occur |
| `btrees` (`MCBTrees.cfg`) | are trees that share nodes read once, and judged fairly? | 3 nodes, 2 trees of any of the six kinds, levels up to 2, depth limit 1, 2 chunks, up to 2 entries or 1 record in a node: a node met twice in one tree and in two, a level one off, a tree too deep, a ceiling passed within a node and between trees, and a count that is right, wrong or not comparable all occur. The nodes are symmetric; the view leaves out `named` and `decoded` once something was found, when no property reads them |
| `owners` (`MCOwners.cfg`) | which heaps and references are reported? | 3 prefixes, 2 segments, 2 headers, 3 messages in a header, one owner recorded, two classes and two references, two analyses: three heaps at one segment, a segment met only when the record is full, a target before and after its reference, references past the cap, and records of an earlier file all occur |
| `sweep` (`MCSweep.cfg`) | is a stuck reader reported, and no other? | `size_t` of 6 and of 4 bits, headers of 4, alignment 2, six values of a cell, collections up to 44: lengths that wrap in one width, in both and in neither, the loop bound, and a length too long for the rest all occur |
| `driver` (`MCDriver.cfg`) | do status and report agree, are the budgets kept, does every command end? | counter of 10 values, a look every 3 operations, costs 1, 2 and 6, several limits up to 4 seconds (that of the walk below that of the wrapper): the counter reaches its top, a charge does not fit, loading takes up to all of the wrapper's time, the clock passes either limit in either pass, and the process dies at every step |
| `patch` (`MCPatch.cfg`) | does apply make the reviewed writes, and does repeating it help? | every damage of up to two fields or checksums of four structures, the four forms of the command, one kill, analysis out of time or foreign write, four rounds: two damages reach each pair of stages, and a fifth round is never needed while three are not enough |
| `markers` (`MCMarkers.cfg`) | is the report exact, and does the search end? | files of up to 2 bytes and those of 4 bytes that can end in a marker, markers of 1, 2 and 3 bytes of which one ends another, blocks of 2, up to 3 threads: markers that cross blocks and chunks, chunks past the end, failing and truncated reads all occur |
| `registry` (`MCRegistry.cfg`) | does the gate's yes hold over all files? | three codes (unambiguous, ambiguous, backlog), two records, ten emit sites of all forms, two case files, two field names, three edits: wrong rules need two edits to be hidden, a renamed and retired field three |
| `specdocs` (`MCSpecDocs.cfg`) | does docs-check's yes hold of the pages? | two pickles, two types, two names, three sections, four edits or builds: a page is added with its sidecar, manifest and build, or is stale in each of these ways |

Some bounds have no counterpart in the code and only keep the state space finite:
`MaxErrors`, `MaxMetaRead`, `MaxContiguous`, `MaxHeaders`, `MaxTargets`,
`MaxMessages`, `MaxBodies`, `MaxTrees`, `MaxTotal`, `MaxLevel`, `Fanout` and
`MaxRecords` stop the model from reading more of a file,
`MaxAnalyses` a session and `MaxClock` the time counted. The
small caps stand for 4096 findings, 512 metadata and 1024 data extents, 4096 heaps
and 65536 classes and references. The
proofs hold for every cap and every size. `MaxDamage`, `MaxMishaps` and `MaxRounds`
bound how much goes wrong with a file, `Contents` the files searched, `MaxEdits` the
edits between two runs of a gate, and `Base` is the consistent repository from which
they start. Every passing run checks for deadlock; where a system may stop, its
module says so with an action that does nothing (`Stop`, `SweepOver`, `DocsOver`,
`LeaveIt`). Every module with state defines a type invariant (`TypeOK`, or `PatchTypeOK` and the
like); it is proved for all but the registry's modules, and the runs check what is
harder to get right.

**Fairness.** `walk` assumes `WF_vars(Step)`. `Step` is all that
`h5policy_analyze` does once called, in one thread that never waits for anything,
so an analysis that can take a step takes one. Starting another analysis is the
caller's choice and gets no fairness. That the walk ends is then due to the code:
finitely many headers, each queued once, each header's messages read once, and no
replay of a replay. What one header's validator does inside is bounded in the
code by the operation budget, and in the model by the finite set of links.
`Finding` repeated in a header does not change the state and so cannot be
starved by, nor starve, the steps that do.

`driver` assumes weak fairness of `SecondPasses` (time passes), of `Kill`
(`timeout(1)` acts when its time is up) and of `Conclude` (the wrapper goes on once
the process has ended; it waits for nothing else). Nothing is assumed of `poke`,
which may hang at any step; without `timeout(1)` nothing is then claimed. `MaxClock`
is not below any wrapper limit (`LimitAssumption`), so the bound never stops the
clock short of a kill.

`markers` assumes that the operating system runs every thread that can run:
weak fairness of the main thread, of each worker, and of the display, whose sleep
ends. None of them waits for anything but a thread to end, so weak fairness is
enough. Failures, truncation and a failed spawn get none.

## Properties

- `ImplementsVerdict`: the decision refines `Verdict`, whatever the order of the
  findings and whatever the store kept.
- `TerminalMarker`, `NothingLostSilently`: the list closes once, says so, and
  collapses only repetitions.
- `AcceptMeansVetted`: an accepting report means that the walk completed and
  that root, extension, every cached header and every linked header were
  validated to their end in the pass reported, which for a file with a cache image
  is a replay that reached every cached body.
- `ExtensionIsPrivate`, `ConclusiveReport`: the extension is never an object of an
  accepted file; a finished analysis gives a stop reason exactly if its walk did
  not complete, never one that says it goes on, and leaves replay mode.
- `DepthIsDistance`, `ValidatedOnce`, `AnalysisEnds`: breadth-first order, no
  second validation although `mark_visited` tests nothing, termination.
- `RecordedDisjoint`, `CollisionsReported`, `NoFalseOverlap`: the extents check is exact in both directions unless it says it was cut short.
- `ClaimedDisjoint`, `CountExact`, `CleanFollowsAll`: no byte in two continuation
  chunks, exact count, and a clean walk read every continuation.
- `EachNodeOnce`: child pointers that share nodes, within a tree or between trees of
  any kinds, cost no more than a tree does.
- `CleanIsRead`: without a finding, every node that the file names was decoded as what
  its parent demands, or had been decoded as something else before.
- `CountJudged`: a tree cut short is not accused of a wrong count, and a whole tree
  with another count than its header's is never clean.
- `CeilingExact`: the chunk count is exact up to its ceiling over all indexes of the
  file, passing it is reported, reaching it is not, and no more records are looked at.
- `AliasReported`, `NoFalseAlias`: of the heaps that share a segment at most one goes
  unreported, unless the record was full when their first came; decoding a heap
  twice, or another file, never accuses one.
- `RefsJudged`: below the caps the warnings are the references, each at its place, to what
  was seen not to be a dataset, whichever of the two the walk met first.
- `ReportsExact`: a report means that the reader of that width
  stands still at that object. The converse holds unless the loop bound ended the
  check, or the narrow reader had moved on by a wrapped length that the check takes
  in full (see `MCSweepEvery.cfg`).
- `StatusIsReported`: the status of the wrapper is that of the report it prints,
  0 only with an accepting report, whenever the process dies or is killed.
- `BudgetKept`, `LooksOften`: no more is charged than the profile allows, and the
  clock is looked at within every interval, at the top of the counter and after each
  reset too.
- `KilledForSilence`, `DriverEnds`: the wrapper's limit, when it kills, is made up of
  the time for loading and, for each pass begun, the walk's budget and the longest stretch
  without finding the clock in time. With no time for loading, a first pass that looks
  often enough is not killed, and one in two passes not within twice the budget (which is
  more than the wrapper allows in some profiles). With `timeout(1)` every command ends.
- `AppliesThePlan`: apply writes what was reviewed, in that order, and nothing
  else, although the second computation sees the first one's writes (with the two
  exceptions below), if its analysis saw the bytes that were compared and got
  equally far in them. That it does is up to the time it takes (see below).
- `NoFalseSeal`: at no moment, killed or not, does the target hold a checksum newly
  right over a field the run means to repair. The flags of the superblock are
  exempt: they do not decide how it is read.
- `VerifiedIsRepaired`, `Converges`: exit status 0 means that nothing of the catalog
  is left that could be reached, if the run's analysis came as far as the object header; planning
  and applying again ends, with a sound
  file unless the plan is empty for a reason. Status 0 can still be given to a file
  whose element size is wrong, when the base address hid it; the next plan finds it.
  A stale B-tree total under a checksum that would be right without it is sealed
  wrong in one round and repaired in the next.
- `OthersKept`: only the chosen target changes, and only after the comparison. It
  does not say that the bytes compared are those written over (see below).
- `NobodyOutlivesMain`, `ImplementsSearch`, `SearchEnds`: the scope the threads write
  into is not left while they run; the whole is the abstract `Search`, whose answer is
  complete, in order and without repetition, whatever the chunks, blocks and threads.
- `EveryFindingAccounted`: a passing gate with the inventory in its place means that every message leads to a record
  whose claim is the measured one and to an invariant that lists its code, or is on
  one of the two lists of those that do not yet. Sites whose values the source does
  not show are exempt (see below). The inventory itself names only what clients of one
  file emit at one site.
- `RetiredNamesUncited`: what the history check reports is the citations of dead
  field names, all of them for the files that no other was renamed to.
- `ControlsBacked`: control evidence stands on expectations that can be read, on their
  specimens where they name one that may not be missing, on emitted findings and on
  claimed verdicts.
- `PagesTrue`: a passing docs-check means that listed pages are true of pickles and
  that the landing page's links lead to the section they name.

## Where code and text disagree

Each of these is a configuration to run by hand, and TLC finds its property
violated. None is a run of the project: the passing runs say what the code keeps,
these what a sentence of the repository says beyond that.

1. `MCWalkExtension.cfg`: the workflow document starts the walk with the superblock
   extension, when present; an extension between the two ends of file is checked
   against the physical end, enqueued only below the declared one, and so skipped.
2. `MCExtentsContiguous.cfg`: `h5_layout.pk:152` holds contiguous extents against
   metadata; layouts of version 1 and 2 declare none.
3. `MCPatchSignature.cfg`: with a bad signature the plan stops at the signature
   (`h5_patch.pk:455`); apply has written it by then, goes on, and makes writes that
   nobody reviewed, against "applies only approved plans".
4. `EachActionWritten`, in the place of the property of that configuration: a stale
   B-tree total under the checksum of the right one is planned with a checksum write
   that apply does not make, against `h5_patch.pk:1714` ("each emitted action
   corresponds to a write").
5. `MCFindingsAbsence.cfg`: the comments at `h5_walk.pk:400` and `h5_validate.pk:953`
   leave a header with an error of its own alone; but errors that deduplication
   or truncation dropped are not counted.
6. `MCChunksRoots.cfg`: `h5_dispatch.pk:638` says a target is disjoint from every chunk
   already decoded; first chunks of headers are not among the chunks compared,
   apart from the direct source.
7. `CountsEveryMessage`, in the place of the property of that configuration:
   `H5PolicyProfile.md:363` counts every continuation message
   before any check; the code counts those that pass the overlap check.
8. `MCBTreesLevels.cfg`: `h5_group.pk:488` says that a child's level must be exactly
   one below its parent's; a node that two parents name at different levels is
   decoded at the first and taken for known at the second, without a finding.
9. `MCDriverBudget.cfg`: `docs/H5POLICY_WORKFLOW.md:78-79` says that a budget does not
   become an acceptance; the replay of a cache image starts over (`h5_policy.pk:305`)
   and forgets that the first pass was cut short.
10. `CleanGapFirst`, with the constants of `MCDriver.cfg` and `SPECIFICATION Spec`: the
    comment at `tools/h5policy:193-196` gives the walk time to report before the wrapper
    kills; each of two passes has a deadline of its own, and both together exceed the
    wrapper's. (With the limits of `MCDriverBudget.cfg` two budgets fit.)
11. `MCSweepEvery.cfg`: `h5_validate.pk:1460-1462` reports what stands still "AT ANY
    SUPPORTED size_t WIDTH"; after a length that wraps in the narrow width only, the
    narrow reader is at objects that the check never looks at.
12. `MCRegistrySilent.cfg`: `message_routing.py:21` reports every form it does not
    understand; a client without a literal, and a call with too few arguments, are
    skipped without a word (lines 255-260, 375 with 440-441, 455-457, 465).
13. `MCSpecDocsEvery.cfg`: `docs/README.md:74` says that docs-check compares every
    tracked page; it compares those named in `PKDOC_SPECS`.
14. `HistoryNotForgotten` in `CaseHistory`: `check_registry.py:448` says that history
    cannot be forgotten; a renamed case file starts a new one, and the old name is
    skipped at line 491.
15. `WritesDoNotDepend`, with the constants of `MCPatch.cfg` and `MaxRounds = 1`: apply
    makes "only approved plans", and the plans are compared to the byte; but the
    comparison and the run itself each analyse with a deadline
    (`h5_policy.pk:178-180`), and a run that is cut short leaves out writes that wait for
    complete evidence, or that of the object header. What remains of
    the plan can then be sealed with a checksum of a body that was not the reviewed one.
16. `ComparedIsWritten`, with the same constants: `tools/h5patch:279-296` compares, then
    copies or opens the input once more; what somebody writes in between is taken for
    what was compared, and nothing is compared again.

## Proofs

All are checked by `tlapm` with no assumption beyond the ASSUMEs of the modules
(`ConvergesCorrect` adds that there are at least four rounds):
bounds are naturals, the declared end of file is not past the address space,
a code has one class, no address is the undefined one (`AddressAssumption`, `FileAssumption`),
blocks, chunks and threads are positive and markers not empty (`MarkersAssumption`), the widths
and the alignment of a collection divide each other (`SweepAssumption`), the forms of
the apply command are those the code has (`PatchAssumption`), the repository's sidecars can be
read (`StartAssumption`, `SectionAssumption`),
the records of heaps and references have room for one
(`OwnersAssumption`), the walk's time limit lies below the wrapper's, the operation
limit and the interval are not above the top of the counter (`LimitAssumption`), the kinds of trees are those the code has
(`BTreesAssumption`), and the repository to start from has case files by the names there
are (`BaseAssumption`).

- `FindingsProofs`: `TypeCorrect`, `TerminalMarkerCorrect`,
  `ResourceReportedOnceCorrect`, `NothingLostSilentlyCorrect`, and
  `FindingsImplementVerdict`. The last needs an invariant the runs do not name:
  code and rank are those of one and the same class, the gravest of `emitted`.
  Without it a step could raise one of the two and not the other. The key lemma
  is that classes of equal rank are equal, so the `CHOOSE` of `Verdict` is unique.
- `ExtentsProofs`: the three properties of the run, the types, and `NothingSkipped`.
  `CollisionsReported` is not
  inductive: a state can report nothing and still hold an unrecorded extent that
  a later one will miss. The inductive invariant adds where each recorded extent
  comes from, that accounted metadata lies in the file, and `NothingSkipped`;
  then the two recorded witnesses of a collision contradict `RecordedDisjoint`.
- `ReadersProofs`, of the chunks: `TypeCorrect`, `ClaimedDisjointCorrect`,
  `StackDisjointCorrect`, `CountExactCorrect`, `CleanFollowsAllCorrect`. A new
  chunk is disjoint from its source by the claim's first test, and from all others
  on the stack because those are claimed: hence the conjunct that everything but
  the first chunk of the stack is claimed.
- `ReadersProofs`, of the marker search: `ImplementsSearchCorrect`,
  `NobodyOutlivesMainCorrect` and `MarkersTypeCorrect`. `MarkersInv` says who can
  have begun and ended where the main thread stands (`Lifecycle`), that a worker which ended
  before the end of its chunk left an error (`Working`), and that what a worker has found is
  what occurs in the part of its chunk it has been through, once (`Found`). The chunks
  are disjoint and cover the file, for every size and number of threads, by the
  lemmas about their borders. So each block searched is a step of `Search` over
  offsets nobody examined before (`ScanExamines`), and at the end all of them are
  (`AllSearched`). That the report lists each occurrence once, in order, is where the order
  of the report is shown to be total and to give each entry a place of its own.
- `ReadersProofs`, of the sweep: `ReportsExactCorrect` and `SweepTypeCorrect`. The check
  and a reader of a width go through one collection, and the check leads: while it parses, the
  reader is at its object or exactly one behind (`OneBehind`), with the cells of that
  object still known, so that the object the check ended with is the one the reader gets stuck at
  (`JudgedThere`, `StuckThere`). Where a length wraps in the reader's width alone
  they part for good (`parted`), which is only possible where the check had
  left off (`PartedLate`). The arithmetic is that the advance in the narrow width is that in the
  wide one, cut (`AdvanceNarrow`), because one width and the alignment divide the other.
- `WalkProofs`: `TypeCorrect`, `ConclusiveReportCorrect`, `DepthIsDistanceCorrect`,
  `ValidatedOnceCorrect`, `AcceptMeansVettedCorrect` and `ExtensionIsPrivateCorrect`.
  `DepthIsDistance` is kept only because no entry is deeper than a link of the header
  at the front would be (`Horizon`), and a link whose target is not queued was refused
  for its depth (`RefusedTooDeep`), which `QueueInv` adds. `ValidatedOnce` follows: what was validated lies behind the front, and
  no address is queued twice. `AcceptMeansVetted` speaks of the last step of an analysis
  alone, and so of nothing that is inductive: `VettedInv` has a conjunct for each phase,
  what has been established if nothing was rejected so far. Where the walk starts is
  waiting or queued while seeding (`StartsWaiting`), queued afterwards; links are queued
  or rejected; all entries behind the front are validated unless a cache image stopped
  the walk, and then the analysis does not end without a second pass (`ImageInv`), which
  begins anew. That an exception rejects (`StepsThatReject`) is what makes the other
  steps enough. `ExtensionIsPrivate` needs the order of the seeds: the extension is
  recorded and queued first (`ExtRecorded`, `ExtFirst`, `ExtQueued`), so that whatever
  names it again is judged against it, and a seed that does is still waiting until then
  (`AliasWaits`).
- `BTreesProofs`: `EachNodeOnceCorrect`, `CeilingExactCorrect`, `CountJudgedCorrect`,
  `CleanIsReadCorrect` and `TypeCorrect`. A node is read at most once because it is read only when it is
  marked (`ReadInv`: none that is not visited has been read). `CeilingExact` speaks of
  leaves cut off by the ceiling, so `CeilingInv` keeps how many records were looked at
  below the chunk count, and equal to those met while the ceiling holds. For the other
  two the two dozen actions are first shown to have one of eight effects (`Effect`): a
  call returns at once (`Dropped`), a node is read (`Taken`), a tree is begun, a pointer
  is followed or passed by, and the rest. `TallyInv` then relates the totals that the
  code keeps to those of the pointers followed, with the node that is due counted in
  advance, and has that a walk is given up only for a finding or for something left
  out; `CleanInv` has that while nothing was found every named node was read or is due,
  and every marked one read as something named. Both lean on `OverFound`: no ceiling
  is exceeded without a finding. For the types, the level of a child is its parent's less
  one and does not go below a leaf's: nothing but a leaf of a group's tree is descended
  from at level 0 (`PlaceInv`).
- `OwnersProofs`: `AliasReportedCorrect`, `NoFalseAliasCorrect`, `RefsJudgedCorrect` and
  `TypeCorrect`.
  The capped record is right about what it holds (`OwnersRight`), has one owner for a
  segment (`OneClaim`) and one for every segment met before it was full (`Settled`,
  `QuietBefore`): so the heap that is not reported is the owner, in every order. For the
  references, a header is decoded once and its flags are its own (`DecodingInv`), hence a
  class recorded is the class of what was read and the first is the only one
  (`ClassInv`), whether or not the reference was there before; below the caps no class
  and no reference is missing (`RefInv`).
- `CommandsProofs`, of the driver: `BudgetKeptCorrect`, `LooksOftenCorrect`, `KilledForSilenceCorrect`,
  `StatusIsReportedCorrect` and `TypeCorrect`.
  `BudgetInv` ties the counter to the next look at the clock where both saturate;
  `TimeInv` bounds the clock by where the time went (`TimeAllowed`): the deadline of a
  pass is at most its budget after the pass began, the last look at the clock that was
  in time is not after it, and what has passed since is in `longest`; so each pass adds
  one budget and one `longest` to the time for loading. `ReportInv` adds what the output can be
  at each point of the process's life (`OutputInv`): the wrapper sees only that
  and how the process ended, and a marker stands there only below the report it is of;
  `TypeCorrect` needs it for what the wrapper reports.
- `CommandsProofs`, of h5patch: `AppliesThePlanCorrect`, `NoFalseSealCorrect`,
  `VerifiedIsRepairedCorrect`, `OthersKeptCorrect`, `ConvergesCorrect` and
  `PatchTypeCorrect`.
  `RunInv` is what holds of a run that has collected n stages, between any two of
  its writes: what differs from the file as it was analysed is what was collected and is
  not about to be written (`Counted`), writes are queued in the order of `Rank` and
  after all that were made (`Ordered`, `AfterMade`), a checksum about to be written is
  of a body without any field to repair (`NewBodies`), there was a reason for each action
  (`Reasons`), and a structure with a repaired field has, from its stage on, a checksum
  without it (`Sealing`). Each of the thirteen stages has a lemma that says what it may
  add (`Extension`), and one argument for all of them puts that on top of `RunInv`.
  `NoFalseSeal` is then read off `Sealing` and the order of the writes; `VerifiedIsRepaired`
  needs what h5policy does not judge to be repaired before (`Owed`). For `AppliesThePlan` a
  stage over written bytes is shown to add what it adds over hypothetical ones
  (`SameStage`) whenever the signature is intact and no total is repaired without its
  checksum (`TotalSealed`). An analysis that was cut short is compared with the file only
  as far as it came (`AsSeen`: the file with as much analysed as the run saw), so that a run is a prefix of the chain of plans (`Chain`,
  `Sent`, `Follows`). `Converges` is about several runs. Within one, `Progress` adds to
  `RunInv` that what is found is repaired once the stage for it is over (`Repairs`), and
  that a checksum is by then that of the body as it will be (`Exact`, `SumDone`, `Seals`).
  `Ready` says what a file has in order after so many runs: the superblock after one,
  what it leads to after two, the filter and the section counts, which are judged only
  behind intact checksums, after three. Every run that finishes gets its file one further
  (`RunReadies`, `RoundInv`) unless its analysis was cut short, which starts the rounds
  over; the plan of a file that is ready is empty (`ReadyPlan`), and
  where a plan is empty nothing is left (`NothingPlanned`). The theorem assumes
  `MaxRounds >= 4`: with three, TLC finds a third plan that is not empty.
- `GatesProofs`, of the registry: `EveryFindingAccountedCorrect`, `ControlsBackedCorrect` and
  `RetiredNamesUncitedCorrect`. The first two hold because nobody edits after a verdict
  (`VerdictSteps`) and because the checks, two or three files each, meet: a message that
  the source shows is tracked, resolves by its entry or by a rule, whichever rule is the
  longest (`ResolveCases`), both are backed by the manifest (`EntryBacked`,
  `RuleBacked`), and what resolves to nothing is on the inventory. The third is about
  every state. `HistoryInv` has that the log of a file is part of what was ever in it,
  and all of it unless another file was renamed to it, ever: a proof from "unless the
  record there now was renamed" fails at a file that is renamed, removed and written
  anew.
- `GatesProofs`, of the format reference: `PagesTrueCorrect` and `DocsTypeCorrect`.
  `DocsInv` has that a pass is still one when it is looked at. The rest is one
  chain of what docs-check compares two at a time (`PassedPagesTrue`): a page is what its
  sidecar renders to, whose types are those of the pickle, and which lists them once
  with an order (`OrderListed`) and without.

Model-checked only: liveness (`AnalysisEnds`, `DriverEnds`, `SearchEnds`), because
liveness under fairness, and anything about ENABLED, is beyond the prover; and of the
registry's modules the type invariant. Every other property of a run has a theorem. What an applied plan computes is a fold over the
stages, of which there are thirteen: they are unrolled, so that no induction is
needed. The configurations of the section before are counterexamples, and nothing is
proved of them.

## Not modelled

- Of `h5policy`: the scan of the file for heap signatures through windows, creation-order
  indexes, the blocks of fixed and extensible arrays, fractal heaps, the counters of
  subtrees in inner nodes, and the profiles, which are tables. The checked operators of
  `h5_checked.pk` other than those in `Extents` and `Driver` refuse what does not fit and
  keep no state. The field rules of single messages keep none either, and are covered
  record by record by the corpus.
- Of the wrapper: the text of options and reports, `--help`, and the check that a report is JSON.
- Of `h5patch`: version 1 object headers and symbol-table counts, the aggressive flag,
  the decision printed with a plan, and the commands that only report.
- Of the gates: the version of libhdf5, scopes and severities, the wording of the
  README beyond one count, and the fields required of covered records and backlogs:
  each is one comparison of two values in one or two files.
- The other checkers under `tools/` and `.devcontainer/check.py` compare one document
  with one source; `h5cve` runs external programs. Neither has an order to get wrong.
- Rendering (`h5explain`, Emacs, JSON, prose) and the declarative format pickles.
