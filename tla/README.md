# Drift Sentinel: specifications, model checks and proofs

Drift Sentinel is a validating admission webhook. It watches rule ConfigMaps,
keeps the rules in memory, and answers each `UPDATE` the API server sends it by
comparing the old and the new object under the first rule that matches. This
directory models what decides whether those answers are right: how the text of a
ConfigMap becomes a rule, how the rules get from the API server into the store, how
one request is judged, how requests, rebuilds and namespace changes run side by
side, and how the process starts, counts and stops.

## Inventory

| Component | State | Operations | What makes it correct |
|---|---|---|---|
| Rule controller (`pkg/rules/watcher.go`) | `ready`, the informer cache it reads | `Start`, add/update/delete handlers, `triggerRebuild`, `rebuildRules` | the store follows the cache, never goes back, and is filled before anything is served |
| Rule store, matcher (`store.go`, `matcher.go`) | `rules` under an RWMutex | `Replace`, `Snapshot`, `Match` | one rule set per verdict; the first rule by priority, namespace, name |
| Namespace mode resolver (`watcher.go`) | the namespace informer cache | `ResolveMode` | an override counts at once; an invalid one is an error |
| Object diff (`pkg/diff`) | none | `Strip`, `Extract`, `Compare` | the reported paths are the change, scoped and nothing else |
| Path patterns (`paths.go`) | none | `ParsePath`, `RenderPath`, `MatchAny` | a reported path reads back as the path that changed |
| Validator (`pkg/admission/validator.go`) | none of its own | `Validate` | enforce lets only mutable changes through; a bypass removal carries nothing else |
| Admission handler (`handler.go`, `review.go`) | none of its own | `ServeHTTP` | each request judged, counted and answered once |
| Metrics registry (`pkg/metrics`) | counters, gauge, histogram under one RWMutex | `RecordAdmission`, `RecordViolation`, `RecordConfigEvent`, `SetRulesLoaded`, render | counters agree with what happened |
| Rule config parser (`config.go`) | none | `ParseConfigMap` | a text is read as its author meant it, or refused |
| Server lifecycle (`cmd/server/main.go`) | the exit status, `errCh` | start, listen, signal, shutdown | nothing served before `Start` returns; a signal ends the process, and the status tells how |
| Configuration, health, certificates, chart | none | I/O, constants | not modelled |

**How they interact.** `main` starts the controller and waits for it before it
listens. client-go runs the informers: each has a goroutine that lists, watches
and writes the cache, and one goroutine per registered handler that takes
notifications from an unbounded queue. `rebuildRules` runs on the main goroutine
once and on the handler goroutine ever after. Every HTTP request has a goroutine
of its own, which reads the store (under its lock, into a copy) and the namespace
cache, and writes metrics. One more goroutine runs the listener and hands its
result to `main` through `errCh`, while `main` waits for that or for a signal.

**What is hard.** Handlers run before, during and after `Start`. A rebuild reads
in one step and writes in another, with no lock around the two. Notifications
trail the cache. A request reads two pieces of shared state at different moments.
Strip and Extract leave holes in lists and drop maps, so that what is compared is
not what was sent. Changed paths travel from Compare to MatchAny as text. Rules are
read by a parser that goes by indentation alone. A signal, a deadline, a failing
listener and the last answers race for the exit status. `PROJECT.json` lists every
hazard at its line, with the properties that are about it.

## Modules

| Module | Models | Uses |
|---|---|---|
| `RuleCache` | what the rule controller promises, in six actions: the abstract specification | |
| `RuleWatch` | the rule controller, the store as it sees it, and the informer | implements `RuleCache` |
| `Metrics` | the registry's counters and histogram, as recorded and as rendered | |
| `Server`, `MCServer` | `main`, the listener, requests and scrapes: the process as a whole | composes `RuleCache` and `Metrics` |
| `ObjectDiff` | patterns, `Strip`, `Extract`, `Changed` (Compare), without recursion | |
| `PathText` | paths and patterns as text: `ParsePath`, `RenderPath` | `ObjectDiff` |
| `DiffWalk` | the walks as the source recurses, against `ObjectDiff` | `ObjectDiff` |
| `DiffReport`, `MCDiffWalk` | what the walks report, as text that is read back | `DiffWalk`, `PathText` |
| `Validator` | rule selection and `Validate`, as operators | `ObjectDiff` |
| `Admission`, `MCAdmission` | the handler's goroutines | `Validator` |
| `RuleConfig`, `MCRuleConfig` | `ParseConfigMap` on the lines of a text, and the author who writes it | |
| `RuleWatchProofs`, `ServerProofs`, `ObjectDiffProofs`, `DiffWalkProofs`, `DiffReportProofs`, `ValidatorProofs`, `AdmissionProofs`, `RuleConfigProofs` | theorems and proofs | the module each is named for |

### RuleWatch

| Model | Code |
|---|---|
| `api`, `rev` | the API server's ConfigMaps and its resourceVersion |
| `listed`, `initial`, `cache`, `queue` | the informer: first list, what of it is still to be popped, the indexer, pending notifications |
| `ready`, `pc`, `view` | `Controller.ready`, where each of the two threads is, and what its `List` returned |
| `store`, `gauge`, `configEvents` | `Store.rules` and the registry |
| `storeView`, `unseen` | history only: what the store was built from, and the keys whose change was dropped in the startup gap |

A ConfigMap's state is a version, `[rv, content]`; content is a rule, `Plain` (not
annotated), `Invalid` (does not parse) or `Gone`. `ListConfigMaps`,
`ReplaceStore` and `SetRulesLoaded` are the three points where `rebuildRules`
touches shared state; parsing between them is local. Actions on the store and
registry are atomic because each is one critical section. The informer is external
and modelled from client-go's contract: the cache is written first, the
notification is queued after; a relist may skip intermediate versions; `HasSynced`
holds once the first list has been popped; a resync notifies an unchanged object
with equal resourceVersions. `Crash` and `SyncTimeout` clear everything but the
API server.

### RuleCache, Server, Metrics

`RuleCache` has no threads, notifications, gates or metrics: the informer's cache
moves on (`Learn`), one snapshot of it is taken (`Take`) and published (`Publish`),
and `Start` goes through `syncing`, `loading`, `loaded`, `serving`. `RuleWatch`
instantiates it with

| `RuleCache` | `RuleWatch` |
|---|---|
| `known` | `cache` |
| `taken` | the `view` of whichever thread is between its `List` and its `Replace` |
| `reflected` | `storeView` |
| `rules` | `store` |
| `stage` | where main is in `Start` |

and `ImplementsRuleCache` says that every behaviour of `RuleWatch` is one of
`RuleCache`'s. So whoever composes with the rule controller may use the small
specification; `Server` does.

| `Server` | Code |
|---|---|
| `main` | where `run` is: in `Start`, in the select, in `Shutdown`, or out |
| `status`, `signalled` | the exit status; `ctx.Done` of `NotifyContext` |
| `listener`, `errCh`, `idle` | the goroutine around `ListenAndServe(TLS)`, its channel of capacity one, connections kept alive |
| `phase`, `denied` | where each request is, and its verdict |
| `registry` | `Registry`, as `Metrics` has it |
| `basis`, `initialRules` | history: what the store reflected when each request was judged, and what was in the cache when its sync was awaited |

The select may take either ready branch. Requests come on a new connection while the
listener is open, or on a connection that was kept alive, also during `Shutdown`.
A request may hang between any two steps. `Exit` cuts off those in flight. Here
a request is denied when the store holds a `Denying` rule, since what a verdict is made of
is `Admission`'s subject. A record of `Metrics` is one step because each holds the
registry's lock, and `render` reads all of it under the same lock. Of a duration
only the first bucket that takes it matters.

### RuleConfig

A line is its indentation, whether a tab is in it, whether a dash follows, and the
key and value after that. `TrimSpace`, `countIndent` and `gatherIndentedBlock` are
about where lines belong, `IsStringList` and `IsSelectorList` about what a block may
hold, `Accepted` about which keys take which form, `Assigned` about the last of
several. The author is the environment: he writes entries (`WriteEntry`), each with
the lines it takes and what he means by it, in any order and under any margin, then
puts in a blank line or a comment (`WriteBlank`) or gets a line's indentation wrong
(`Slip`). What he means (`Meaning`) is defined on the entries and knows nothing of
where lines stand.

The loops of the parser are stated without a loop: a block is the set of the positions
of its lines (`gatherIndentedBlock`), and the items of a block begin where no line
before is less deep (`ItemStarts`), which is where the inner loop of
`parseSelectorList` stops each time. `Readable` asks of all lines what the loops ask of
one after the other; which error comes first is left out.

### ObjectDiff, PathText, DiffWalk, Validator, Admission

An object is a function from paths to nodes (`{}`, `[]`, `null` or a scalar). That
makes Strip, Extract and Compare closed formulas instead of walks. `DiffWalk`
restates the three walks with the recursion of the source: a walk is a function of
the path it is called with, given by what its calls for the children return. The run
`diff_walk` shows that walks and formulas agree for every pair of objects within its
bounds and `WalksAreClosed` that they do for objects of any size, so the verdict runs
and theorems may use the formulas.

`PathText` has the other form of a path, a sequence of characters, with
`RenderPath`'s quoting and `ParsePath`'s tokens as the source has them. `Segments` is
`ParsePath`'s loop as a function: what is read from each position on, given by what is
read from where the next segment ends. `MatchAny`
in `ObjectDiff` works on paths although the code renders and parses them in between;
`ReportsReadBack` is what justifies that. A path with an apostrophe in a key does not
come back as itself: its text does not parse or, when a bracket comes right behind the
apostrophe, is that of another path, the quoted key ending there and the rest being read
as further segments. Key `k']` under `spec.m` is written `spec.m['k\']']` and read as
four segments. The constant `Misread` has what is read of such paths, `ReadBack` looks it
up, and `MisreadIsParsed` says that it is what `ParsePath` makes of their text.

`Validate` is split where it reads shared state: `BeforeMatch` (operation, decoding),
`AfterMatch` (no rule, users, bypass present), `AfterResolve` (the rest). `Admission`
runs the parts as steps of goroutines: `DecideUnmatched` or `MatchRule` (reads the
store), `ResolveMode` (reads the namespaces), `RecordAdmission`, `RecordViolations`,
`Reply`; `RefuseEmptyReview` is the answer to a review without a request.
`PublishRules` and `AnnotateNamespace` are the environment. `storesSeen` and
`annotationsSeen` are history for `VerdictExplained`. Reasons are classes (the mode
tells "would deny" apart), `RecordViolations` is the loop over the denied paths
as one step (each path is a count of its own, under a lock that other requests may
take in between, but counts commute and no property looks at half a denial), and a pattern that does
not parse is `Malformed`. The handler counts by namespace and resource as well;
here only the result (or mode) is kept, which is what the properties are about;
`Metrics` has the namespace. `InputsAreDecoded` says what `decodeObject` returns: an
error, or a map and the finitely many nodes below it.

## Runs

| Run | Bounds | Shows |
|---|---|---|
| `rulewatch` | 2 ConfigMaps, 1 rule, 3 revisions, resyncs only behind an empty queue, 1 restart | the properties of `RuleWatch`, liveness included, and that it implements `RuleCache` |
| `rulewatch_startup_gap` | 1 ConfigMap, 2 revisions | `LiveReload` is violated |
| `admission_verdicts` | 1 request, all shapes: 17 old objects, 77 new ones, 18 rules alone and 2 sets of two rules | what a verdict may be |
| `admission_concurrent` | 2 requests, 5 inputs, 4 rule sets, 3 annotations, 2 changes | verdicts and the count of requests under interleaving, under symmetry of the requests |
| `admission_off`, `admission_mutable`, `admission_scope` | 1 request, 1 rule | three sentences of the README that the code does not keep |
| `admission_violations` | 1 request, 1 rule in mode warn | the help text of a metric that the code does not keep |
| `diff_walk` | objects on 6 paths, 4 kinds of node, 7 pattern lists; all 19,608 texts of up to 5 of 7 characters | the formulas are the walks; a diff is complete and minimal; its paths read back from their text |
| `server` | 1 ConfigMap, 2 rules, revisions 0 to 2, 2 requests, 1 bucket | requests, main, listener, signal and rule cache together, with fairness |
| `metrics_histogram` | as `server`, 2 buckets, no fairness | `HistogramIsCumulative` is violated |
| `rule_config` | up to 4 of 11 entries, 1 flaw, margins 0 and 2, slips to indentation 0, 1, 3, 4 or a tab | what is read is what was written |

`rev` starts at 1 for what exists already, so three revisions are two writes after
the start: enough for one before and one after a `List`, or two in the queue.
Two ConfigMaps are needed for a store that is stale in one and fresh in the other,
and for an order of pops. One rule is enough next to the contents that are none, since
versions tell its writes apart. The resync window bounds only how far the queue
may grow by resyncs, which otherwise come at any time. One restart covers a crash
at every point of `Start` followed by a whole new run. In `admission_concurrent`
two changes put one before and one after each read of a request, or both between its
reads. The objects of `MCAdmission` have each shape the walks branch on:
map against list against scalar, empty and absent maps, lists of equal and of
different length, elements with and without fields, annotations with and without the
bypass marker, the label of a rule with two values, and keys with an apostrophe, one of
which is read as a path that a rule of the run makes mutable. `diff_walk` has every object
those six paths admit, null included; its keys are a bare one, an annotation name, one
with an apostrophe and one with a bracket behind it, and five
characters are enough for a token, a bracket with its quotes, and something behind.
In `server` revisions 0 to 2 are unknown, the first list and one update, two requests
one judged before the update and one after; one bucket is enough for counting, while
the histogram needs two for a sum to exceed the total. In `rule_config` the two
mandatory lists and `mode` take three entries, the fourth repeats or adds a key; one
flaw is put at every line, 3 and 4 around the indentation of a list's second line,
0 and 1 out of it.
`CHECK_DEADLOCK FALSE` is given everywhere: the bounded environment stops changing
things and requests end, which is no deadlock of the program.

### Properties

`RuleWatch`:

- `RebuildsNeverOverlap`, `StoreNeverRegresses`: there is no lock around
  `rebuildRules`; the order of the first rebuild and `ready.Store(true)` in
  `Start`, and the single handler goroutine, are what keeps rebuilds apart.
- `ServingHasInitialRules`: no request is judged by an empty store.
- `StaleOnlyByStartupGap`: if the store is behind the cache in some ConfigMap,
  a rebuild that sees it is still to come, or its notification fell between the
  `List` of `Start` and `ready.Store(true)`. That is the only way to lose a change.
- `GaugeMatchesStore`, `EventsAccountForCache`: the metrics tell the truth.
- `EventuallyServing`, `ReloadUnlessStartupGap`: liveness.
- `ImplementsRuleCache`: see above. It says more than the others together about the
  store: each value it takes is the rules of one snapshot of the cache.

`Admission`, `DiffWalk`:

- `EnforceLetsThroughOnlyMutable`, `BypassRemovalCarriesNothing`,
  `DeniedPathsAreReal`, `ServerFieldsNeverCount`, `RollbackJudgedAlike`: the verdict
  against what was really sent. The first three do not use Strip, Extract or
  Compare; the last two ask for the verdict on other objects and compare.
- `EnforceLetsThroughOnlyMutable` has one way out, `ReadAsMutable`: a changed path whose
  text is that of another path is judged as that one. Without it the run is violated:
  a rule that makes `spec.*.*.*` mutable lets a change of the key `k']` of `spec.m`
  through, three segments deep, which the rule does not cover.
- `ServerFieldsNeverCount` and `RollbackJudgedAlike` compare with a second verdict, for
  whatever rule set and namespace state explain the first (`Explains`), with the rule
  selected anew. The second needs both of its preconditions (`IsReversible`). The rule is
  chosen by the labels of the new object, so that whoever may drop a rule's label may not
  always put it back; and a bypass marker counts in the new object only.
- `VerdictExplained`: a verdict is one for a single rule set and a single namespace
  state, though it reads them at two moments.
- `AnswersCountedOnce`: what the counter of requests says of those decided so far, in
  any state.
- `WalksAgree`, `DiffIsComplete`, `StripsCompose`, `ReportsReadBack`: see above.

`Server`:

- `RulesNeverGoBack`, `InitialRulesJudge`: what the order of `Start`, listener and
  rebuilds gives a client. After one request was judged by a new rule none is by the
  old one.
- `ErrChNeverFull`: the listener's goroutine is never stuck on its one send, also when
  `main` is in `Shutdown` and will not read it.
- `ExitStatusIsTrue`: 0 means that a signal came and every accepted request was
  answered, so that a request cut off never goes with it. 1 means that the start failed
  before anything was accepted, that the listener failed, or that a signal came. After a
  signal 1 does not say that a request was cut off: `Shutdown` may return an error, at its
  deadline or from closing the listener, with all of them answered.
- `ScrapeAddsUp`: what a scrape shows at any moment, against the requests: the count,
  the last bucket, every labelled sample of both counters, and no sample besides. A
  cluster-wide object and one in a namespace called `unknown` share their label, in the
  code as here.
- `SignalStops`: liveness, whatever hangs.

`RuleConfig`:

- `ReadAsWritten`: entries in any order and form, with blank lines and comments.
- `NeverMisread`: wrong indentation is refused or harmless.

Every property has a mutant in `PROJECT.json`, a small change to the code's
definition that breaks it.

### Fairness

`FairSpec` of `RuleWatch` asks weak fairness of the informer, of the namespace
informer, of main and of the handler goroutine, each as a whole. These are
goroutines that block only on conditions the model states; the Go scheduler runs a
goroutine that can run. A write, a resync, a timeout or a crash is never required,
and since restarts are bounded the properties speak of a process that at last
stays up.

`FairSpec` of `Server` asks weak fairness of `MainStep` and of `ListenerStep`, no more.
It includes that the deadlines of `Start` and `Shutdown` pass at last, which is what
timers do. Requests, clients, the informer and the rebuilds may stop at any point:
`SignalStops` must hold against a request that hangs for ever, and is
what the deadlines are for. `Admission` has no fairness: no property of it needs one.

### Findings

1. *The startup gap* (`LiveReload`, `watcher.go:136`). `Start` lists the cache, then
   sets `ready`. A notification handled in between is dropped by `triggerRebuild`
   and was too late for the list. Resyncs do not repair it, since `UpdateFunc`
   ignores equal resourceVersions: the change is missing until some ConfigMap changes
   again. `StaleOnlyByStartupGap` shows that there is no other loss.
2. *Mode off can deny* (`OffNeverBlocks`, `validator.go:151`). Dropping the bypass
   annotation together with another change is denied before the mode is consulted.
3. *Mutable is exact* (`MutableCoversWhatIsBelow`, `paths.go:140`). A change below a
   mutable path is denied; the README says "fall under".
4. *Excluded positions still count* (`OnlyScopeIsCompared`, `strip.go:37`). A stripped
   element leaves a nil, so the length of the list is compared all the same. This is
   why `DeniedPathsAreReal` is limited to rules that scope no list from the inside
   (`SparesLists`). A rule that includes `l[*].c` and excludes it again denies the
   change of `l` from `[{c: 1}]` to `[{d: 1}]` at `l`, although nothing in its scope
   differs: Extract leaves the first list and drops the second, and Strip then
   makes a hole of the one element, where it might have dropped the list.
5. *The histogram is summed up twice* (`HistogramIsCumulative`, `metrics.go:128`).
   `RecordAdmission` counts a duration in every bucket that takes it, and `render`
   adds the buckets up once more: with two buckets one fast request shows as 2 in the
   second, above the +Inf bucket's 1.
6. *Violations let through are not counted* (`ViolationsAreDetected`, `handler.go:57`).
   The handler counts the paths of denied requests only. What warn, dry-run and off detect
   and let through never reaches `drift_sentinel_violations_total`, whose help text says
   "Total immutable field violations detected." and which has a label for the mode.

## Proofs

The type invariants and all safety properties that the runs check are proved for every
value of the constants.

| Theorem | States | In |
|---|---|---|
| `TypeCorrect` | `Spec => []TypeOK` | `RuleWatchProofs` |
| `NoOverlap` | `Spec => []RebuildsNeverOverlap` | |
| `InitialRulesServed` | `Spec => []ServingHasInitialRules` | |
| `NoRegression` | `Spec => StoreNeverRegresses` | |
| `GaugeFollowsStore` | `Spec => []GaugeMatchesStore` | |
| `EveryEventCounted` | `Spec => []EventsAccountForCache` | |
| `OnlyStartupGapLosesChanges` | `Spec => []StaleOnlyByStartupGap` | |
| `RefinesRuleCache` | `Spec => ImplementsRuleCache` | |
| `ServerTypeCorrect` | `Spec => []TypeOK` | `ServerProofs` |
| `JudgedByInitialRules` | `Spec => []InitialRulesJudge` | |
| `ListenerNeverStuck` | `Spec => []ErrChNeverFull` | |
| `ExitStatusCorrect` | `Spec => []ExitStatusIsTrue` | |
| `VerdictsNeverGoBack` | `Spec => RulesNeverGoBack` | |
| `ScrapesAddUp` | `Spec => []ScrapeAddsUp` | |
| `WalksAreClosed` | `Spec => []WalksAgree` | `DiffWalkProofs` |
| `DiffsAreComplete` | `Spec => []DiffIsComplete` | |
| `StripsAreOne` | `Spec => []StripsCompose` | |
| `ReportsAreReadBack` | `Spec => []ReportsReadBack` | `DiffReportProofs` |
| `PathRead` | `ParsePath` undoes `RenderPath` exactly when no key has an apostrophe | |
| `MatchIsFirst` | `Match` returns the first of the rules that match, if one does | `ValidatorProofs` |
| `VerdictsExplained` | `Spec => []VerdictExplained` | `AdmissionProofs` |
| `EnforceIsTight` | `Spec => []EnforceLetsThroughOnlyMutable` | |
| `BypassRemovalIsAlone` | `Spec => []BypassRemovalCarriesNothing` | |
| `RollbacksAreAlike` | `Spec => []RollbackJudgedAlike` | |
| `CountedOnce` | `Spec => []AnswersCountedOnce` | |
| `TypeCorrect` | `Spec => []TypeOK` | |
| `DenialsAreReal` | `Spec => []DeniedPathsAreReal` | |
| `ServerFieldsDoNotCount` | `Spec => []ServerFieldsNeverCount` | |
| `TextNeverMisread` | `Spec => []NeverMisread` | `RuleConfigProofs` |
| `TextReadAsWritten` | `Spec => []ReadAsWritten` | |

### Assumptions

All are named, in the module that declares the constants, and evaluated by the runs.
`RuleWatch`: the content markers are distinct and no rules, ConfigMaps are finitely
many, bounds are naturals. `Server`: `DenyingRules` (they are rules),
`RevisionsAreNatural` (and 0 is among them), `BucketsIsNatural`, `RequestsAreFinite`.
`Admission`: `RequestsAreFinite`, for counting; `BoundIsNatural`; `InputsAreDecoded`,
the fields of a request and the shape of what `decodeObject` returns; `StoresAreBuilt`, what `rebuildRules`
publishes: finitely many rules, no two from the same ConfigMap (`IsRuleSet`), with
patterns that were parsed. `DiffWalk`: paths lie below the root (`PathsAreBelowRoot`)
and patterns are paths (`PatternsArePaths`). `PathText` and `DiffReport`: keys are told
apart by their characters (`KeysAreTexts`), `Misread` has what `ParsePath` reads of the
paths with an apostrophe in a key, and of no others (`MisreadIsParsed`), the segments of paths and patterns have keys that are spelled or
numbers (`PathsAreSpelled`), and texts are sequences (`TextsAreTexts`). Characters are
arbitrary: the parser treats as letters all that it does not know.

`RuleConfig`: `EntriesAssumption` is the format, which the code has nowhere but in the
parser. An entry is a key with lines below it, each deeper than the key and with a dash or
with a word that is no key of the top level; dashes are level with each other and above
the other lines (`LaidOut`). It means what its form says, the list of its dashes or a
selector for each, and nothing when a value is missing, too much or of the wrong form
(`MeansAsFormed`). Entries may have any number of lines, and malformed ones are among
them. Nothing is assumed of slips: a line may get any indentation, a tab, or both in turn.

An object (`IsObject`) is a map at the root; below it every node but the root is a
child of a map by a field or of a list by an index, and a list's indexes have no gap
(`IsChild`). That is JSON, and nothing more is assumed of objects: lists may have any
length and maps any depth. Namespaces and names are numbers in `Validator`, because
`sortRules` asks only for their order.

### The rule controller

No property but the type invariant is inductive alone. The argument goes through `IInv`:

- `GateInv`: `ready` is false until main has left its rebuild, and the handler is idle
  while `ready` is false. It gives `RebuildsNeverOverlap`.
- `VersionInv`: versions only grow along the chain store, view, cache, API server. A
  rebuild's view is at least as new as the store because no other rebuild can have
  replaced it meanwhile, which is `RebuildsNeverOverlap` again. It gives
  `StoreNeverRegresses`.
- `ListInv`: what was listed, what is still to be popped and what the cache has, and
  that from `WaitForCacheSync` on nothing is to be popped.
- `SyncInv`: from the first rebuild on the view, then the store, is as new as
  the first list. It gives `ServingHasInitialRules`.

`GaugeInv` adds that whoever is between `Replace` and `SetRulesLoaded` has the
view the store was built from. `StaleInv` extends `StaleOnlyByStartupGap` back over
the steps of `Start`: before the first `List` nothing is owed, after it each change
that it did not see is queued or in `unseen`. The proof is by the actions of `Next`,
one step for each.

`EveryEventCounted` adds to the events counted those still queued. The count of a
queue's events of one type changes by one when one is appended or taken off
(`EventsInAppend`, `EventsInTail`), the cache's count by the one
ConfigMap written, and each informer step does both or neither.

The refinement uses `IInv` and one more fact, `WrittenInv`: what is on the API server,
and what was listed, has a version above 0, so that the cache never replaces a version
by a different content of the same version. Then the informer's steps are `Learn`,
`ListConfigMaps` is `Take` (no other rebuild has a list in hand, by `GateInv`),
`ReplaceStore` is `Publish`, a crash is `StartAgain`, and every other step leaves the
five variables of `RuleCache` as they are.

### The server

`ServerProofs` argues in three parts. `OrderInv`: versions grow along basis,
published snapshot, snapshot in hand, cache, and at most one snapshot is in hand.
`StartInv`: from the synced cache on, the initial rules are in the cache, then in the
snapshot, then in the store. `ServeInv`: no request is accepted before `Start` is
done, none cut before the end, `errCh` holds only errors while `main` is in the
select. The steps of the rule controller enter only as `RuleCache`'s actions, which
is what `RefinesRuleCache` justifies.

`ScrapesAddUp` needs only that the registry keeps its fields and that a request about
to report a violation was denied (`ScrapeInv`); `RegistryInv` is the property on the
registry instead of the page. `RecordCounts` and `DenialCounts` are the two steps that
write to it: one sample grows by one (`OneMore`), as does the set of the requests it
stands for. All other steps leave both alone (`CountedBySteps`), `Exit` excepted, after
which nobody can scrape.

### The verdict

`VerdictsExplained` and the three theorems on verdicts share the invariant `IInv` of
`AdmissionProofs`. `Serving` says which stores and namespace states have been seen
while a request is under way, and that the rule in hand was matched in one of them;
`Explained`, that a decision just made is `Validate`'s for what was seen.

The hard part is that Strip and Extract may not hide a difference. What they return
*carries* a path (`Carries`) if a scalar or a list there is kept as it is, and nothing
is there that was not, null apart. `StripCarries` and `ExtractCarries` say that
both keep what is in scope; so a leaf that differs between the objects sent, and
is in the rule's scope, differs between those compared (`DifferencesAreCarried`).
Compare then reports it or a path above it (`DifferencesAreReported`): of the
prefixes at which the objects differ there is a shortest, taken by well-foundedness
of the naturals (`LeastNatural`), and that one is reported. All that is left is what
`AfterResolve` does with a reported path (`ReasonsTell`).

`RollbacksAreAlike` and `ServerFieldsDoNotCount` are about two inputs that differ in their
objects only. If the labels of both select the same rules the same rule is first
(`SelectedAlike`), so that what remains is `AfterResolve` (`ValidatedAlike`). An undone
update has the changes of the update (`ChangedIsSymmetric`), and stripping the
server-side fields leaves the labels alone (`LabelsStay`).

`DenialsAreReal` is the converse: what the objects compared have, and where they
differ, comes from the objects sent. Prune leaves a node as it is or puts a null at a
list's position (*What Prune leaves*, in `ObjectDiffProofs`). A reported difference
that lies at such a hole, or at a container that one side lost with all it carried,
has to be led back to a difference below it in scope; without `SparesLists` there may be
none, as finding 4 shows. `ServerFieldsDoNotCount` rests on `StripTwice`:
stripping by two lists of patterns is stripping by their union, so what was already
stripped is not missed when it is stripped again.

`MatchIsFirst` is about rule selection: `Precedes` is irreflexive, transitive and total
on the rules of one rebuild, since priority, namespace and name together tell any two of
them apart, and a finite set of such rules has a first one. So the verdict does not
depend on the order in which the informer's cache is listed.

### The walks

Every object that `DiffWalk` reaches is one in the sense of `IsObject` and has finite
depth (`ObjectsInv`). `StripsAreOne` and `DiffsAreComplete` are then about objects.

`WalksAreClosed` goes from the leaves up. A walk is the function that satisfies its
recursive equation; that there is one is shown first, and then that what it returns at a
path is what the formula has at and below it, if it is at the children. `FromTheDepths`
is that induction: of the paths where two such functions differ there is a deepest, taken
by well-foundedness of the naturals (`LeastNatural`), since no path of an object is
longer than some number (`Shallow`). `StripValueIs`, `ExtractValueIs`
and `CompareValueIs` are the three results; the last step reads them at the root.

### The text of a path

`PathText` recurs in four places: to put pieces in a row (`FlattenSeq`), to write a
number, to read one (`Atoi`), and to read a path (`Segments`). Each call asks for one
other, nearer to an end. `RecursionByRank` shows that such an equation has a solution and
`AgreeByRank` that it has one only, by the naturals' order on the distance from that end; so each
of the four is the function its equation describes.

`RenderedInARow` places the segments of a path in its text, each at an offset
where the one before ended, with a dot, a bracket or the end of the text behind it
(`Ends`). `SegmentRead` is about one of them: standing anywhere in a text, it is read as
what it was written for, and the reading goes on where it ends (`Continues`). Fields,
wildcards, indexes and quoted keys are a lemma each. A number is read as the one that was
written (`NumeralReads`), since one more digit does to the sum what it does to the number.
A quoted key is `Lost` if it is `Marked` by an apostrophe: up to the
first of them the text has the key's characters, and behind it stands the backslash of the
escape, so that the reading stops one character too late to be the key; then it
fails, or goes on with another one if the bracket that ends a quoted key happens to be
there. `ChainReads`, `ChainFails` and `ChainLoses` put segments together from the last to the
first. With `PathRead` established, `ReportsAreReadBack` needs only that spelling keeps
keys apart (`SpelledMatch`), that a path without an apostrophe is not misread and another
is what `Misread` says (`TextMatch`), and that an object has only the paths it may have.

### The parser

The inductive invariant `IInv` says what a text has to do with its entries however
it was edited: `at[e][l]` is where line `l` of entry `e` now stands, in the order of the
entries, with nothing but blank lines elsewhere, and all but the indentation as it was
written; the indentation too, unless a line has slipped or the text has a margin.
`TextIsItsEntries` is its theorem.

`NeverMisread` is then about one text. If it is read at all, each line at the top
level has been accepted as a key, without a dash. The first line of an entry could not
have been accepted below a key, and the others could not have been accepted as one
(`EntryLines`), so the lines at the top level are exactly the entries' first
(`ReadableKeys`), and the block of each is the rest of its entry (`BlocksAreEntries`).
Of a block that was accepted the items begin at the dashes, whatever the indentation
(`AcceptedByDashes`): a dash deeper than the one before would be inside its item, where no dash is
accepted. What is read below a key thus depends on the lines and not on where
they stand (`CarriedLists`, `CarriedEntry`). `ReadAsWritten` asks in addition that a
text without slips be read, which is the same argument from the indentation (`UndisturbedReadable`).

### The count and the types

`CountedOnce` needs `DecisionInv`, where a request is decided and what its response
says, so that one step moves at most one request into the set counted; `Counts`
then follows by the cardinality of a set with one element more (`FS_AddElement`).
`TypeCorrect` rests on `TypeInv`, which adds what a decision in each place may be: a
denial's paths are in the objects sent, and so finitely many, which is why the counter of
violations stays a number.

### Only model-checked

- Liveness (`EventuallyServing`, `ReloadUnlessStartupGap`, `SignalStops`): fairness and
  ENABLED are out of the prover's reach.
- The properties that runs show to be violated: `LiveReload`, `OffNeverBlocks`,
  `MutableCoversWhatIsBelow`, `OnlyScopeIsCompared`, `ViolationsAreDetected`,
  `HistogramIsCumulative`.

## Not modelled

- JSON, the AdmissionReview envelope, HTTP errors before a review is decoded, log
  lines: input and output without state. `NewResponse` is modelled as far as its flag
  and code go.
- Numbers: a scalar is opaque, so that decoding to float64 loses nothing in the model.
  Beyond 2^53 it may; that is one expression of `encoding/json`.
- Rule text: quotes, comments behind a value, how an inline list is split at its
  commas. A value is a scalar or a list of scalars. The comma at the end of a list,
  which yields an empty item, is listed as a hazard.
- Metrics: the sum of durations, the resource and field labels, label escaping and the
  page's layout. The double escaping of quotes is listed as a hazard.
- Process configuration, health endpoint, certificates, chart: environment variables,
  constants, an empty package, configuration. They keep no state.
- Two replicas: one process is modelled. Nothing in the code relates the caches of two,
  so that they may judge by different rules until both have caught up.
- A lister error, which an in-memory indexer does not return.

## Plan

The most important behaviour came first: the rule cache, then the verdict and its
concurrency, then the walks; then what the rule cache promises and its proof, the
process around it, metrics, texts of paths and rules, and the proofs of the
verdict, of the walks and of both kinds of text. Left, in this order:

1. `RuleConfig`: quotes, comments behind values and inline lists on the level of
   characters, as `PathText` does for paths.
2. `Server` with `Admission`'s verdicts in the place of `Denying`, once a bound small
   enough for both is found.
