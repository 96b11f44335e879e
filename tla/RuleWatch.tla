------------------------------ MODULE RuleWatch ------------------------------
(***************************************************************************)
(* The rule controller of pkg/rules: how rule ConfigMaps of the API server *)
(* become the contents of the in-memory rule store.                        *)
(*                                                                         *)
(*   API server --list, watch--> informer cache --notifications--> handler *)
(*                                    |                               |    *)
(*                                    +------- rebuildRules ----------+    *)
(*                                                  |                      *)
(*                                             rule store                  *)
(*                                                                         *)
(* Two threads run rebuildRules: "main", once, from Controller.Start; and  *)
(* "handler", the goroutine client-go gives the registered event handlers, *)
(* once per notification it accepts.  The informer (client-go, external)   *)
(* lists the ConfigMaps, then follows the watch; it updates its cache      *)
(* first and queues the notification after, and the handler drains that    *)
(* queue in its own time.  rebuildRules reads the cache in one step and    *)
(* replaces the store in another, so the cache may move in between.        *)
(*                                                                         *)
(* Every state of a ConfigMap is a Version: the resourceVersion of the     *)
(* write that made it and its content, which is a rule, Plain (no rule     *)
(* annotation), Invalid (annotated, but ParseConfigMap fails) or Gone.     *)
(***************************************************************************)
EXTENDS Naturals, Sequences, FiniteSets

CONSTANTS
    ConfigMaps,      \* the namespace/name keys of ConfigMaps
    Rules,           \* what ParseConfigMap can return without an error
    Plain, Invalid, Gone,
    MaxRev,          \* bound: the last resourceVersion the API server gives
    ResyncWindow,    \* bound: resyncs are queued only behind fewer events
    MaxRestarts      \* bound: how often the process exits and starts again

ASSUME ContentsDistinct ==
    /\ {Plain, Invalid, Gone} \cap Rules = {}
    /\ Plain # Invalid /\ Plain # Gone /\ Invalid # Gone

ASSUME ConfigMapsFinite == IsFiniteSet(ConfigMaps)

ASSUME BoundsAreNaturals ==
    MaxRev \in Nat /\ ResyncWindow \in Nat /\ MaxRestarts \in Nat

VARIABLES
    rev,             \* the API server's last resourceVersion
    api,             \* the API server's ConfigMaps
    listed,          \* what the reflector's initial list returned
    initial,         \* keys of that list not yet popped into the cache
    cache,           \* the ConfigMap indexer, read by configMapLister
    queue,           \* notifications waiting for the handler goroutine
    nsSynced,        \* namespaceInformer.HasSynced
    ready,           \* Controller.ready
    pc,              \* where each thread is
    view,            \* the ConfigMaps each thread's List returned
    store,           \* Store.rules, a set: sortRules' order is a function of it
    gauge,           \* Registry.rulesLoaded
    configEvents,    \* Registry.configEvents
    storeView,       \* history: the ConfigMaps the store was built from
    unseen,          \* history: keys whose change no rebuild has seen
    restarts

apiVars == <<rev, api>>
informerVars == <<listed, initial, cache>>
controllerVars == <<ready, pc, view, store, gauge, configEvents, storeView, unseen>>
vars == <<apiVars, informerVars, queue, nsSynced, controllerVars, restarts>>

Threads == {"main", "handler"}
Content == Rules \cup {Plain, Invalid, Gone}
Version == [rv : Nat, content : Content]
EventTypes == {"add", "update", "delete"}
Event == [type : EventTypes, key : ConfigMaps, oldRv : Nat, newRv : Nat]
Rebuilding == {"list", "replace", "gauge"}
MainStates == {"start", "wait", "ready", "serving"} \cup Rebuilding
HandlerStates == {"idle"} \cup Rebuilding

\* Not in the cache, and never seen by it.
Unknown == [rv |-> 0, content |-> Gone]
NoConfigMaps == [k \in ConfigMaps |-> Unknown]

Present(version) == version.content # Gone

-----------------------------------------------------------------------------
(* Helpers                                                                 *)

\* The parse loop of rebuildRules: ConfigMaps without the annotation and
\* those that do not parse are skipped, the others give one rule each.
KeepInvalid(configMaps) ==   \* mutant: the continue after a parse error is lost
    {<<k, configMaps[k].content>> :
        k \in {j \in ConfigMaps : configMaps[j].content \in Rules \cup {Invalid}}}

RulesIn(configMaps) ==
    {<<k, configMaps[k].content>> :
        k \in {j \in ConfigMaps : configMaps[j].content \in Rules}}

HasListed == listed # NoConfigMaps

\* The informer has popped everything its first list returned.
HasSynced == HasListed /\ initial = {}

\* What the informer queues when the cache entry of k goes from old to new.
\* A ConfigMap both written and deleted between two reads leaves no event.
Notification(k, old, new) ==
    LET event(type) == [type |-> type, key |-> k, oldRv |-> old.rv, newRv |-> new.rv]
    IN  CASE ~Present(old) /\ Present(new)  -> <<event("add")>>
          [] Present(old)  /\ Present(new)  -> <<event("update")>>
          [] Present(old)  /\ ~Present(new) -> <<event("delete")>>
          [] OTHER                          -> <<>>

EveryUpdate(event) == event.type = "update"   \* mutant of IsResync

\* UpdateFunc returns early when the resourceVersion did not change: a resync.
IsResync(event) == event.type = "update" /\ event.oldRv = event.newRv

-----------------------------------------------------------------------------
Init ==
    /\ rev = 1
    /\ api \in [ConfigMaps -> [rv : {1}, content : Content]]
    /\ listed = NoConfigMaps /\ initial = {} /\ cache = NoConfigMaps
    /\ queue = <<>>
    /\ nsSynced = FALSE
    /\ ready = FALSE
    /\ pc = [main |-> "start", handler |-> "idle"]
    /\ view = [t \in Threads |-> NoConfigMaps]
    /\ store = {} /\ storeView = NoConfigMaps
    /\ gauge = 0
    /\ configEvents = [type \in EventTypes |-> 0]
    /\ unseen = {}
    /\ restarts = 0

-----------------------------------------------------------------------------
(* The API server and the informer (external)                              *)

\* Somebody creates, edits or deletes a ConfigMap.
ConfigMapWrite(k, content) ==
    /\ rev < MaxRev
    /\ content = Gone => Present(api[k])
    /\ rev' = rev + 1
    /\ api' = [api EXCEPT ![k] = [rv |-> rev + 1, content |-> content]]
    /\ UNCHANGED <<informerVars, queue, nsSynced, controllerVars, restarts>>

\* The reflector's first list.  The keys it holds are popped one by one; of
\* the others the cache knows from here on that they did not exist.
InformerList ==
    /\ pc["main"] # "start"
    /\ ~HasListed
    /\ listed' = api
    /\ initial' = {k \in ConfigMaps : Present(api[k])}
    /\ cache' = [k \in ConfigMaps |-> IF Present(api[k]) THEN Unknown ELSE api[k]]
    /\ UNCHANGED <<apiVars, queue, nsSynced, controllerVars, restarts>>

PopInitial(k) ==
    /\ k \in initial
    /\ initial' = initial \ {k}
    /\ cache' = [cache EXCEPT ![k] = listed[k]]
    /\ queue' = queue \o Notification(k, cache[k], listed[k])
    /\ UNCHANGED <<apiVars, listed, nsSynced, controllerVars, restarts>>

\* The watch, or a relist after a broken watch, brings k up to date; versions
\* written in between may be skipped.
WatchPop(k) ==
    /\ HasListed /\ k \notin initial
    /\ cache[k].rv # api[k].rv
    /\ cache' = [cache EXCEPT ![k] = api[k]]
    /\ queue' = queue \o Notification(k, cache[k], api[k])
    /\ UNCHANGED <<apiVars, listed, initial, nsSynced, controllerVars, restarts>>

\* Every WatchResync the informer notifies again what the cache holds.
Resync(k) ==
    /\ Present(cache[k])
    /\ Len(queue) < ResyncWindow
    /\ queue' = queue \o Notification(k, cache[k], cache[k])
    /\ UNCHANGED <<apiVars, informerVars, nsSynced, controllerVars, restarts>>

NamespaceSync ==
    /\ pc["main"] # "start"
    /\ ~nsSynced
    /\ nsSynced' = TRUE
    /\ UNCHANGED <<apiVars, informerVars, queue, controllerVars, restarts>>

-----------------------------------------------------------------------------
(* rebuildRules, run by thread t                                           *)

\* Where rebuildRules returns to.
AfterRebuild(t) == IF t = "main" THEN "ready" ELSE "idle"

ListConfigMaps(t) ==
    /\ pc[t] = "list"
    /\ view' = [view EXCEPT ![t] = cache]
    /\ pc' = [pc EXCEPT ![t] = "replace"]
    /\ unseen' = {}
    /\ UNCHANGED <<apiVars, informerVars, queue, nsSynced, restarts>>
    /\ UNCHANGED <<ready, store, gauge, configEvents, storeView>>

ReplaceStore(t) ==
    /\ pc[t] = "replace"
    /\ store' = RulesIn(view[t])
    /\ storeView' = view[t]
    /\ pc' = [pc EXCEPT ![t] = "gauge"]
    /\ UNCHANGED <<apiVars, informerVars, queue, nsSynced, restarts>>
    /\ UNCHANGED <<ready, view, gauge, configEvents, unseen>>

SetRulesLoaded(t) ==
    /\ pc[t] = "gauge"
    /\ gauge' = Cardinality(RulesIn(view[t]))
    /\ view' = [view EXCEPT ![t] = NoConfigMaps]
    /\ pc' = [pc EXCEPT ![t] = AfterRebuild(t)]
    /\ UNCHANGED <<apiVars, informerVars, queue, nsSynced, restarts>>
    /\ UNCHANGED <<ready, store, configEvents, storeView, unseen>>

RebuildRules(t) == ListConfigMaps(t) \/ ReplaceStore(t) \/ SetRulesLoaded(t)

-----------------------------------------------------------------------------
(* Controller.Start, on the main goroutine                                 *)

StartFactory ==
    /\ pc["main"] = "start"
    /\ pc' = [pc EXCEPT !["main"] = "wait"]
    /\ UNCHANGED <<apiVars, informerVars, queue, nsSynced, restarts>>
    /\ UNCHANGED <<ready, view, store, gauge, configEvents, storeView, unseen>>

\* Mutants: the sync of the ConfigMap informer is not awaited; ready is stored
\* before the first rebuild; Start waits for its own flag.
NoConfigMapSync ==
    /\ pc["main"] = "wait" /\ nsSynced
    /\ pc' = [pc EXCEPT !["main"] = "list"]
    /\ UNCHANGED <<apiVars, informerVars, queue, nsSynced, restarts>>
    /\ UNCHANGED <<ready, view, store, gauge, configEvents, storeView, unseen>>

ReadyBeforeRebuild ==
    /\ pc["main"] = "wait" /\ HasSynced /\ nsSynced
    /\ pc' = [pc EXCEPT !["main"] = "list"]
    /\ ready' = TRUE
    /\ UNCHANGED <<apiVars, informerVars, queue, nsSynced, restarts>>
    /\ UNCHANGED <<view, store, gauge, configEvents, storeView, unseen>>

WaitForOwnFlag ==
    /\ pc["main"] = "wait" /\ HasSynced /\ nsSynced /\ ready
    /\ pc' = [pc EXCEPT !["main"] = "list"]
    /\ UNCHANGED <<apiVars, informerVars, queue, nsSynced, restarts>>
    /\ UNCHANGED <<ready, view, store, gauge, configEvents, storeView, unseen>>

WaitForCacheSync ==
    /\ pc["main"] = "wait"
    /\ HasSynced /\ nsSynced
    /\ pc' = [pc EXCEPT !["main"] = "list"]
    /\ UNCHANGED <<apiVars, informerVars, queue, nsSynced, restarts>>
    /\ UNCHANGED <<ready, view, store, gauge, configEvents, storeView, unseen>>

MarkReady ==
    /\ pc["main"] = "ready"
    /\ ready' = TRUE
    /\ pc' = [pc EXCEPT !["main"] = "serving"]
    /\ UNCHANGED <<apiVars, informerVars, queue, nsSynced, restarts>>
    /\ UNCHANGED <<view, store, gauge, configEvents, storeView, unseen>>

-----------------------------------------------------------------------------
(* The event handlers, on the informer's handler goroutine                 *)

\* A change that main's List was too early for and that no handler will list.
Overlooked(event) ==
    \/ pc["main"] = "replace" /\ view["main"][event.key].rv < event.newRv
    \/ pc["main"] \in {"gauge", "ready"} /\ storeView[event.key].rv < event.newRv

SkipResync ==
    /\ pc["handler"] = "idle"
    /\ queue # <<>> /\ IsResync(Head(queue))
    /\ queue' = Tail(queue)
    /\ UNCHANGED <<apiVars, informerVars, nsSynced, controllerVars, restarts>>

\* A handler takes a notification that is no resync, counts it, and rebuilds.
HandleAs(counted, rebuilds) ==
    /\ pc["handler"] = "idle"
    /\ queue # <<>> /\ ~IsResync(Head(queue))
    /\ queue' = Tail(queue)
    /\ configEvents' = [configEvents EXCEPT ![Head(queue).type] = IF counted THEN @ + 1 ELSE @]
    /\ pc' = [pc EXCEPT !["handler"] = IF rebuilds THEN "list" ELSE "idle"]
    /\ unseen' = IF ~ready /\ Overlooked(Head(queue))
                  THEN unseen \cup {Head(queue).key} ELSE unseen
    /\ UNCHANGED <<apiVars, informerVars, nsSynced, restarts>>
    /\ UNCHANGED <<ready, view, store, gauge, storeView>>

\* Mutants: triggerRebuild without its gate; RecordConfigEvent behind the gate;
\* a DeleteFunc that only counts.
UngatedHandler == HandleAs(TRUE, TRUE)
CountBehindGate == HandleAs(ready, ready)
DeleteOnlyCounts == HandleAs(TRUE, ready /\ Head(queue).type # "delete")

\* RecordConfigEvent, then triggerRebuild: nothing more unless Start is done.
HandleEvent == HandleAs(TRUE, ready)

-----------------------------------------------------------------------------
(* The process ends and is started again; only the API server remembers    *)

Restart ==
    /\ restarts < MaxRestarts
    /\ restarts' = restarts + 1
    /\ listed' = NoConfigMaps /\ initial' = {} /\ cache' = NoConfigMaps
    /\ queue' = <<>>
    /\ nsSynced' = FALSE
    /\ ready' = FALSE
    /\ pc' = [main |-> "start", handler |-> "idle"]
    /\ view' = [t \in Threads |-> NoConfigMaps]
    /\ store' = {} /\ storeView' = NoConfigMaps
    /\ gauge' = 0
    /\ configEvents' = [type \in EventTypes |-> 0]
    /\ unseen' = {}
    /\ UNCHANGED apiVars

\* WaitForCacheSync gave up: Start returns an error and main exits with 1.
SyncTimeout == pc["main"] = "wait" /\ Restart

\* The pod is killed or evicted at any other time.
Crash == pc["main"] \notin {"start", "wait"} /\ Restart

-----------------------------------------------------------------------------
InformerStep == InformerList \/ \E k \in ConfigMaps : PopInitial(k) \/ WatchPop(k)

MainStep == StartFactory \/ WaitForCacheSync \/ RebuildRules("main") \/ MarkReady

HandlerStep == SkipResync \/ HandleEvent \/ RebuildRules("handler")

Next ==
    \/ \E k \in ConfigMaps, content \in Content : ConfigMapWrite(k, content)
    \/ InformerStep
    \/ NamespaceSync
    \/ \E k \in ConfigMaps : Resync(k)
    \/ MainStep
    \/ HandlerStep
    \/ SyncTimeout
    \/ Crash

Spec == Init /\ [][Next]_vars

\* The informer, main and the handler goroutine keep running; nothing obliges
\* a write, a resync, a timeout or a crash.
Fairness ==
    /\ WF_vars(InformerStep)
    /\ WF_vars(NamespaceSync)
    /\ WF_vars(MainStep)
    /\ WF_vars(HandlerStep)

FairSpec == Spec /\ Fairness

-----------------------------------------------------------------------------
(* Properties                                                              *)

\* The store holds only rules that ParseConfigMap returned, and every other
\* variable what its declaration says.
TypeOK ==
    /\ rev \in Nat
    /\ api \in [ConfigMaps -> Version]
    /\ listed \in [ConfigMaps -> Version]
    /\ initial \subseteq ConfigMaps
    /\ cache \in [ConfigMaps -> Version]
    /\ queue \in Seq(Event)
    /\ nsSynced \in BOOLEAN
    /\ ready \in BOOLEAN
    /\ pc \in [Threads -> MainStates \cup HandlerStates]
    /\ pc["main"] \in MainStates /\ pc["handler"] \in HandlerStates
    /\ view \in [Threads -> [ConfigMaps -> Version]]
    /\ store \subseteq ConfigMaps \X Rules
    /\ gauge \in Nat
    /\ configEvents \in [EventTypes -> Nat]
    /\ storeView \in [ConfigMaps -> Version]
    /\ unseen \subseteq ConfigMaps
    /\ restarts \in Nat

\* rebuildRules has no lock of its own: what keeps the rebuild of Start and
\* those of the handlers apart is only the order of rebuild and ready in Start.
RebuildsNeverOverlap ==
    ~(pc["main"] \in Rebuilding /\ pc["handler"] \in Rebuilding)

\* While the process lives, a rebuild never puts back an older version of a
\* ConfigMap than the store already reflects, although every rebuild lists the
\* cache in one step and replaces the store in a later one.
StoreNeverRegresses ==
    [][restarts' = restarts =>
          \A k \in ConfigMaps : storeView'[k].rv >= storeView[k].rv]_vars

\* Once Start has returned, and the server may answer, the store reflects every
\* ConfigMap at least as new as the informer's first list, deleted ones included.
ServingHasInitialRules ==
    pc["main"] = "serving" =>
        HasListed /\ \A k \in ConfigMaps : storeView[k].rv >= listed[k].rv

\* A list v of the ConfigMaps shows k as the cache holds it now.
Shows(v, k) ==
    \/ v[k] = cache[k]
    \/ ~Present(v[k]) /\ ~Present(cache[k])

\* The handler has k's change still before it.
Pending(k) ==
    \/ \E i \in DOMAIN queue : queue[i].key = k /\ ~IsResync(queue[i])
    \/ pc["handler"] = "list"
    \/ pc["handler"] = "replace" /\ Shows(view["handler"], k)

\* A serving process whose store is behind the cache in some ConfigMap still
\* has a rebuild to come that sees it, or dropped its notification between the
\* List of Start and ready.Store(true): there is no other way to lose a change.
StaleOnlyByStartupGap ==
    pc["main"] = "serving" =>
        \A k \in ConfigMaps : Shows(storeView, k) \/ Pending(k) \/ k \in unseen

\* drift_sentinel_rules_loaded is the size of the store whenever no rebuild is
\* between Replace and SetRulesLoaded.
GaugeMatchesStore ==
    (\A t \in Threads : pc[t] # "gauge") => gauge = Cardinality(store)

Queued(type) == Cardinality({i \in DOMAIN queue : queue[i].type = type})

\* Every ConfigMap in the cache is an add event counted or queued that no delete
\* event followed: the counter misses none, not even those before ready, and
\* resyncs are not in it.
EventsAccountForCache ==
    configEvents["add"] + Queued("add") =
        configEvents["delete"] + Queued("delete")
            + Cardinality({k \in ConfigMaps : Present(cache[k])})

\* Start returns, however the informers, the handler and the writers interleave.
EventuallyServing == <>[](pc["main"] = "serving")

\* When writes stop, the store ends as the API server's rules, or a change was
\* dropped in the startup gap.
ReloadUnlessStartupGap == <>[](store = RulesIn(api) \/ unseen # {})

\* README.md:17 "live ConfigMap watch and rule cache reload": when writes stop,
\* the store ends as the API server's rules.
LiveReload == <>[](store = RulesIn(api))

-----------------------------------------------------------------------------
(* What the rest of the process may rely on: RuleCache                     *)

\* How far Controller.Start is, as RuleCache tells it.
StartStage ==
    CASE pc["main"] \in {"start", "wait"}   -> "syncing"
      [] pc["main"] \in {"list", "replace"} -> "loading"
      [] pc["main"] \in {"gauge", "ready"}  -> "loaded"
      [] OTHER                              -> "serving"

\* The snapshots listed and not yet put into the store.
SnapshotsInHand == {view[t] : t \in {u \in Threads : pc[u] = "replace"}}

Cache == INSTANCE RuleCache WITH
             known <- cache, taken <- SnapshotsInHand, reflected <- storeView,
             rules <- store, stage <- StartStage, Revisions <- Nat

\* The threads, gates and notifications of the controller amount to what
\* RuleCache promises: one rebuild after the other, each publishing the rules of
\* one snapshot of the cache, none lost, and Start not returning before the
\* first snapshot of a synced cache is published.
ImplementsRuleCache == Cache!Spec

=============================================================================
