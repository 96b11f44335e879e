--------------------------- MODULE RuleWatchProofs ---------------------------
(***************************************************************************)
(* Theorems about RuleWatch, for any finite set of ConfigMaps and any      *)
(* bounds.                                                                 *)
(***************************************************************************)
EXTENDS RuleWatch, FiniteSetTheorems, TLAPS

-----------------------------------------------------------------------------
(* The inductive invariant, in parts                                       *)

\* ready is stored when Start is done, and until then no handler rebuilds.
GateInv ==
    /\ ready <=> pc["main"] = "serving"
    /\ ~ready => pc["handler"] = "idle"

\* Versions only grow along API server, cache, thread's view, store.
VersionInv ==
    \A k \in ConfigMaps :
        /\ storeView[k].rv <= cache[k].rv
        /\ cache[k].rv <= api[k].rv
        /\ api[k].rv <= rev
        /\ \A t \in Threads : pc[t] = "replace" =>
              storeView[k].rv <= view[t][k].rv /\ view[t][k].rv <= cache[k].rv

\* The cache holds what was listed, or newer, except what is still to be popped.
ListInv ==
    /\ ~HasListed => cache = NoConfigMaps /\ initial = {}
    /\ \A k \in ConfigMaps :
          /\ listed[k].rv <= api[k].rv
          /\ k \in initial => cache[k] = Unknown
          /\ k \notin initial => listed[k].rv <= cache[k].rv

\* Past WaitForCacheSync the list is in the cache; from there it travels
\* through main's view into the store.
SyncInv ==
    /\ pc["main"] \notin {"start", "wait"} => HasSynced
    /\ pc["main"] = "replace" =>
          \A k \in ConfigMaps : listed[k].rv <= view["main"][k].rv
    /\ pc["main"] \in {"gauge", "ready", "serving"} =>
          \A k \in ConfigMaps : listed[k].rv <= storeView[k].rv

IInv == TypeOK /\ GateInv /\ VersionInv /\ ListInv /\ SyncInv

\* The store is the view it was replaced with until the gauge follows.
GaugeInv ==
    /\ \A t \in Threads : pc[t] = "gauge" => store = RulesIn(view[t])
    /\ GaugeMatchesStore

\* A change of k newer than v is queued.
Announced(v, k) ==
    \E i \in DOMAIN queue :
        queue[i].key = k /\ ~IsResync(queue[i]) /\ v[k].rv < queue[i].newRv

Covered(v, k) == Shows(v, k) \/ Announced(v, k) \/ k \in unseen

AnnouncedStays(k) ==
    /\ Announced(view["main"], k) => Announced(view["main"], k)'
    /\ Announced(view["handler"], k) => Announced(view["handler"], k)'
    /\ Announced(storeView, k) => Announced(storeView, k)'

\* Whatever main listed is current, announced or overlooked, until it serves;
\* whatever a handler listed is current or announced.
StaleInv ==
    /\ pc["main"] = "replace" => \A k \in ConfigMaps : Covered(view["main"], k)
    /\ pc["main"] \in {"gauge", "ready"} => \A k \in ConfigMaps : Covered(storeView, k)
    /\ pc["handler"] = "replace" =>
          \A k \in ConfigMaps : Shows(view["handler"], k) \/ Announced(view["handler"], k)
    /\ StaleOnlyByStartupGap

-----------------------------------------------------------------------------
(* Facts about the helpers                                                 *)

LEMMA UnknownType == Unknown \in Version /\ NoConfigMaps \in [ConfigMaps -> Version]
BY DEF Unknown, NoConfigMaps, Version, Content

LEMMA StartPcType ==
    [main |-> "start", handler |-> "idle"] \in [Threads -> MainStates \cup HandlerStates]
BY DEF Threads, MainStates, HandlerStates

\* A ConfigMap's change becomes at most one notification, about that ConfigMap.
LEMMA NotificationType ==
    ASSUME NEW k \in ConfigMaps, NEW old \in Version, NEW new \in Version
    PROVE  Notification(k, old, new) \in Seq(Event)
<1> DEFINE event(type) == [type |-> type, key |-> k, oldRv |-> old.rv, newRv |-> new.rv]
<1>1. \A type \in EventTypes : event(type) \in Event
  BY DEF Event, Version
<1>2. \A type \in EventTypes : <<event(type)>> \in Seq(Event)
  BY <1>1
<1>3. <<>> \in Seq(Event)
  OBVIOUS
<1>4. Notification(k, old, new) \in {<<>>} \cup {<<event(type)>> : type \in EventTypes}
  BY DEF Notification, EventTypes
<1> QED
  BY <1>2, <1>3, <1>4

\* The parse loop yields one rule for each key at most, and finitely many.
LEMMA RulesInType ==
    ASSUME NEW configMaps \in [ConfigMaps -> Version]
    PROVE  /\ RulesIn(configMaps) \subseteq ConfigMaps \X Rules
           /\ IsFiniteSet(RulesIn(configMaps))
           /\ Cardinality(RulesIn(configMaps)) \in Nat
<1> DEFINE keys == {k \in ConfigMaps : configMaps[k].content \in Rules}
           f == [k \in keys |-> <<k, configMaps[k].content>>]
<1>1. RulesIn(configMaps) = {<<k, configMaps[k].content>> : k \in keys}
  BY DEF RulesIn
<1>2. IsFiniteSet(keys)
  BY FS_Subset, ConfigMapsFinite
<1>3. f \in Surjection(keys, RulesIn(configMaps))
  BY <1>1 DEF Surjection
<1>4. IsFiniteSet(RulesIn(configMaps))
  BY <1>2, <1>3, FS_Surjection
<1> QED
  BY <1>1, <1>4, FS_CardinalityType

-----------------------------------------------------------------------------
(* Types                                                                   *)

LEMMA TypeInit == Init => TypeOK
<1> SUFFICES ASSUME Init PROVE TypeOK
  OBVIOUS
<1>1. NoConfigMaps \in [ConfigMaps -> Version]
  BY UnknownType
<1>2. api \in [ConfigMaps -> Version]
  BY DEF Init, Version
<1>3. /\ pc \in [Threads -> MainStates \cup HandlerStates]
      /\ pc["main"] \in MainStates /\ pc["handler"] \in HandlerStates
  BY StartPcType DEF Init, MainStates, HandlerStates
<1>4. view \in [Threads -> [ConfigMaps -> Version]] /\ configEvents \in [EventTypes -> Nat]
  BY <1>1 DEF Init
<1>5. queue \in Seq(Event) /\ rev \in Nat /\ restarts \in Nat /\ gauge \in Nat
  BY DEF Init
<1>6. /\ listed \in [ConfigMaps -> Version] /\ cache \in [ConfigMaps -> Version]
      /\ storeView \in [ConfigMaps -> Version]
  BY <1>1 DEF Init
<1>7. /\ initial \subseteq ConfigMaps /\ unseen \subseteq ConfigMaps
      /\ store \subseteq ConfigMaps \X Rules
      /\ nsSynced \in BOOLEAN /\ ready \in BOOLEAN
  BY DEF Init
<1> QED
  BY <1>2, <1>3, <1>4, <1>5, <1>6, <1>7 DEF TypeOK

LEMMA TypeStep == TypeOK /\ [Next]_vars => TypeOK'
<1> SUFFICES ASSUME TypeOK, [Next]_vars PROVE TypeOK'
  OBVIOUS
<1> USE DEF TypeOK
<1>1. ASSUME NEW k \in ConfigMaps, NEW content \in Content, ConfigMapWrite(k, content)
      PROVE  TypeOK'
  BY <1>1 DEF ConfigMapWrite, Version, informerVars, controllerVars
<1>2. CASE InformerList
  BY <1>2, UnknownType DEF InformerList, apiVars, controllerVars
<1>3. ASSUME NEW k \in ConfigMaps, PopInitial(k) PROVE TypeOK'
  <2>1. Notification(k, cache[k], listed[k]) \in Seq(Event)
    BY NotificationType
  <2> QED
    BY <1>3, <2>1 DEF PopInitial, apiVars, controllerVars
<1>4. ASSUME NEW k \in ConfigMaps, WatchPop(k) PROVE TypeOK'
  <2>1. Notification(k, cache[k], api[k]) \in Seq(Event)
    BY NotificationType
  <2> QED
    BY <1>4, <2>1 DEF WatchPop, apiVars, controllerVars
<1>5. CASE NamespaceSync
  BY <1>5 DEF NamespaceSync, apiVars, informerVars, controllerVars
<1>6. ASSUME NEW k \in ConfigMaps, Resync(k) PROVE TypeOK'
  <2>1. Notification(k, cache[k], cache[k]) \in Seq(Event)
    BY NotificationType
  <2> QED
    BY <1>6, <2>1 DEF Resync, apiVars, informerVars, controllerVars
<1>7. ASSUME NEW t \in Threads, ListConfigMaps(t) PROVE TypeOK'
  BY <1>7 DEF ListConfigMaps, apiVars, informerVars, Threads, MainStates, HandlerStates, Rebuilding
<1>8. ASSUME NEW t \in Threads, ReplaceStore(t) PROVE TypeOK'
  BY <1>8, RulesInType
  DEF ReplaceStore, apiVars, informerVars, Threads, MainStates, HandlerStates, Rebuilding
<1>9. ASSUME NEW t \in Threads, SetRulesLoaded(t) PROVE TypeOK'
  BY <1>9, RulesInType, UnknownType
  DEF SetRulesLoaded, AfterRebuild, apiVars, informerVars, Threads, MainStates, HandlerStates
<1>10. CASE StartFactory
  BY <1>10 DEF StartFactory, apiVars, informerVars, Threads, MainStates
<1>11. CASE WaitForCacheSync
  BY <1>11 DEF WaitForCacheSync, apiVars, informerVars, Threads, MainStates, Rebuilding
<1>12. CASE MarkReady
  BY <1>12 DEF MarkReady, apiVars, informerVars, Threads, MainStates
<1>13. CASE SkipResync
  BY <1>13 DEF SkipResync, apiVars, informerVars, controllerVars
<1>14. CASE HandleEvent
  <2>1. Head(queue) \in Event /\ Tail(queue) \in Seq(Event)
    BY <1>14 DEF HandleEvent, HandleAs
  <2>2. configEvents' \in [EventTypes -> Nat]
    BY <1>14, <2>1 DEF HandleEvent, HandleAs, Event
  <2>3. unseen' \subseteq ConfigMaps
    BY <1>14, <2>1 DEF HandleEvent, HandleAs, Event
  <2> QED
    BY <1>14, <2>1, <2>2, <2>3
    DEF HandleEvent, HandleAs, apiVars, informerVars, Threads, HandlerStates, Rebuilding
<1>15. CASE Restart
  <2>1. NoConfigMaps \in [ConfigMaps -> Version]
    BY UnknownType
  <2>2. /\ pc' \in [Threads -> MainStates \cup HandlerStates]
        /\ pc'["main"] \in MainStates /\ pc'["handler"] \in HandlerStates
    BY <1>15, StartPcType DEF Restart, MainStates, HandlerStates
  <2>3. /\ view' \in [Threads -> [ConfigMaps -> Version]]
        /\ configEvents' \in [EventTypes -> Nat]
    BY <1>15, <2>1 DEF Restart
  <2>4. /\ listed' \in [ConfigMaps -> Version] /\ cache' \in [ConfigMaps -> Version]
        /\ storeView' \in [ConfigMaps -> Version]
    BY <1>15, <2>1 DEF Restart
  <2>5. queue' \in Seq(Event) /\ restarts' \in Nat /\ gauge' \in Nat
    BY <1>15 DEF Restart
  <2>6. /\ initial' \subseteq ConfigMaps /\ unseen' \subseteq ConfigMaps
        /\ store' \subseteq ConfigMaps \X Rules
        /\ nsSynced' \in BOOLEAN /\ ready' \in BOOLEAN
        /\ rev' \in Nat /\ api' \in [ConfigMaps -> Version]
    BY <1>15 DEF Restart, apiVars
  <2> QED
    BY <2>2, <2>3, <2>4, <2>5, <2>6
<1>16. CASE UNCHANGED vars
  BY <1>16 DEF vars, apiVars, informerVars, controllerVars
<1> QED
  BY <1>1, <1>2, <1>3, <1>4, <1>5, <1>6, <1>7, <1>8, <1>9, <1>10, <1>11, <1>12,
     <1>13, <1>14, <1>15, <1>16
  DEF Next, InformerStep, MainStep, HandlerStep, RebuildRules, SyncTimeout, Crash, Threads

\* Every state of the controller is one its declarations allow; the store never
\* holds anything ParseConfigMap rejected.
THEOREM TypeCorrect == Spec => []TypeOK
BY TypeInit, TypeStep, PTL DEF Spec

-----------------------------------------------------------------------------
(* The inductive invariant, part by part                                   *)

LEMMA GateStep == TypeOK /\ GateInv /\ [Next]_vars => GateInv'
<1> SUFFICES ASSUME TypeOK, GateInv, [Next]_vars PROVE GateInv'
  OBVIOUS
<1> USE DEF TypeOK, GateInv
<1>1. ASSUME NEW k \in ConfigMaps, NEW content \in Content, ConfigMapWrite(k, content)
      PROVE  GateInv'
  BY <1>1 DEF ConfigMapWrite, controllerVars
<1>2. CASE InformerStep
  BY <1>2 DEF InformerStep, InformerList, PopInitial, WatchPop, controllerVars
<1>3. CASE NamespaceSync
  BY <1>3 DEF NamespaceSync, controllerVars
<1>4. ASSUME NEW k \in ConfigMaps, Resync(k) PROVE GateInv'
  BY <1>4 DEF Resync, controllerVars
<1>5. ASSUME NEW t \in Threads, RebuildRules(t) PROVE GateInv'
  BY <1>5 DEF RebuildRules, ListConfigMaps, ReplaceStore, SetRulesLoaded, AfterRebuild, Threads
<1>6. CASE StartFactory
  BY <1>6 DEF StartFactory, Threads
<1>7. CASE WaitForCacheSync
  BY <1>7 DEF WaitForCacheSync, Threads
<1>8. CASE MarkReady
  BY <1>8 DEF MarkReady, Threads
<1>9. CASE SkipResync
  BY <1>9 DEF SkipResync, controllerVars
<1>10. CASE HandleEvent
  BY <1>10 DEF HandleEvent, HandleAs, Threads
<1>11. CASE Restart
  BY <1>11 DEF Restart
<1>12. CASE UNCHANGED vars
  BY <1>12 DEF vars, controllerVars
<1> QED
  BY <1>1, <1>2, <1>3, <1>4, <1>5, <1>6, <1>7, <1>8, <1>9, <1>10, <1>11, <1>12
  DEF Next, MainStep, HandlerStep, SyncTimeout, Crash, Threads

\* What the informer does to the cache only makes its entries newer.
LEMMA CacheGrows ==
    ASSUME TypeOK, VersionInv, ListInv, InformerStep
    PROVE  \A k \in ConfigMaps : cache[k].rv <= cache'[k].rv /\ cache'[k].rv <= api[k].rv
<1> USE DEF TypeOK, Version
<1>1. CASE InformerList
  BY <1>1 DEF InformerList, ListInv, NoConfigMaps, Unknown
<1>2. ASSUME NEW k \in ConfigMaps, PopInitial(k)
      PROVE  \A j \in ConfigMaps : cache[j].rv <= cache'[j].rv /\ cache'[j].rv <= api[j].rv
  BY <1>2 DEF PopInitial, ListInv, VersionInv, Unknown
<1>3. ASSUME NEW k \in ConfigMaps, WatchPop(k)
      PROVE  \A j \in ConfigMaps : cache[j].rv <= cache'[j].rv /\ cache'[j].rv <= api[j].rv
  BY <1>3 DEF WatchPop, VersionInv
<1> QED
  BY <1>1, <1>2, <1>3 DEF InformerStep

LEMMA VersionStep ==
    TypeOK /\ GateInv /\ VersionInv /\ ListInv /\ [Next]_vars => VersionInv'
<1> SUFFICES ASSUME TypeOK, GateInv, VersionInv, ListInv, [Next]_vars PROVE VersionInv'
  OBVIOUS
<1> USE DEF TypeOK, Version, VersionInv
<1>1. ASSUME NEW k \in ConfigMaps, NEW content \in Content, ConfigMapWrite(k, content)
      PROVE  VersionInv'
  BY <1>1 DEF ConfigMapWrite, informerVars, controllerVars
<1>2. CASE InformerStep
  <2>1. UNCHANGED <<apiVars, controllerVars>>
    BY <1>2 DEF InformerStep, InformerList, PopInitial, WatchPop
  <2>2. cache' \in [ConfigMaps -> Version]
    BY <1>2, UnknownType DEF InformerStep, InformerList, PopInitial, WatchPop
  <2>3. \A k \in ConfigMaps : cache[k].rv <= cache'[k].rv /\ cache'[k].rv <= api[k].rv
    BY <1>2, CacheGrows
  <2>4. UNCHANGED <<rev, api, pc, view, storeView>>
    BY <2>1 DEF apiVars, controllerVars
  <2>5. view \in [Threads -> [ConfigMaps -> Version]]
    OBVIOUS
  <2> QED
    BY <2>2, <2>3, <2>4, <2>5
<1>3. CASE NamespaceSync
  BY <1>3 DEF NamespaceSync, apiVars, informerVars, controllerVars
<1>4. ASSUME NEW k \in ConfigMaps, Resync(k) PROVE VersionInv'
  BY <1>4 DEF Resync, apiVars, informerVars, controllerVars
<1>5. ASSUME NEW t \in Threads, ListConfigMaps(t) PROVE VersionInv'
  BY <1>5 DEF ListConfigMaps, apiVars, informerVars, Threads
<1>6. ASSUME NEW t \in Threads, ReplaceStore(t) PROVE VersionInv'
  <2>1. \A s \in Threads : pc'[s] # "replace"
    BY <1>6 DEF ReplaceStore, GateInv, Threads
  <2>2. \A k \in ConfigMaps : storeView'[k].rv <= cache[k].rv
    BY <1>6 DEF ReplaceStore
  <2> QED
    BY <1>6, <2>1, <2>2 DEF ReplaceStore, apiVars, informerVars
<1>7. ASSUME NEW t \in Threads, SetRulesLoaded(t) PROVE VersionInv'
  BY <1>7 DEF SetRulesLoaded, AfterRebuild, apiVars, informerVars, Threads
<1>8. CASE StartFactory
  BY <1>8 DEF StartFactory, apiVars, informerVars, Threads
<1>9. CASE WaitForCacheSync
  BY <1>9 DEF WaitForCacheSync, apiVars, informerVars, Threads
<1>10. CASE MarkReady
  BY <1>10 DEF MarkReady, apiVars, informerVars, Threads
<1>11. CASE SkipResync
  BY <1>11 DEF SkipResync, apiVars, informerVars, controllerVars
<1>12. CASE HandleEvent
  BY <1>12 DEF HandleEvent, HandleAs, apiVars, informerVars, Threads
<1>13. CASE Restart
  BY <1>13 DEF Restart, apiVars, NoConfigMaps, Unknown, Threads
<1>14. CASE UNCHANGED vars
  BY <1>14 DEF vars, apiVars, informerVars, controllerVars
<1> QED
  BY <1>1, <1>2, <1>3, <1>4, <1>5, <1>6, <1>7, <1>8, <1>9, <1>10, <1>11, <1>12,
     <1>13, <1>14
  DEF Next, MainStep, HandlerStep, RebuildRules, SyncTimeout, Crash, Threads

LEMMA ListStep == TypeOK /\ VersionInv /\ ListInv /\ [Next]_vars => ListInv'
<1> SUFFICES ASSUME TypeOK, VersionInv, ListInv, [Next]_vars PROVE ListInv'
  OBVIOUS
<1> USE DEF TypeOK, Version, ListInv, HasListed
<1>1. ASSUME NEW k \in ConfigMaps, NEW content \in Content, ConfigMapWrite(k, content)
      PROVE  ListInv'
  BY <1>1 DEF ConfigMapWrite, VersionInv, informerVars
<1>2. CASE InformerList
  <2>1. \A k \in ConfigMaps : ~Present(api[k]) => cache'[k] = api[k]
    BY <1>2 DEF InformerList
  <2>2. listed' = NoConfigMaps => cache' = NoConfigMaps /\ initial' = {}
    BY <1>2 DEF InformerList, NoConfigMaps, Unknown, Present
  <2> QED
    BY <1>2, <2>1, <2>2 DEF InformerList, apiVars
<1>3. ASSUME NEW k \in ConfigMaps, PopInitial(k) PROVE ListInv'
  BY <1>3 DEF PopInitial, apiVars
<1>4. ASSUME NEW k \in ConfigMaps, WatchPop(k) PROVE ListInv'
  BY <1>4 DEF WatchPop, apiVars
<1>5. CASE Restart
  BY <1>5 DEF Restart, apiVars, NoConfigMaps, Unknown
<1>6. CASE UNCHANGED <<apiVars, informerVars>>
  BY <1>6 DEF apiVars, informerVars
<1>7. CASE NamespaceSync
  BY <1>6, <1>7 DEF NamespaceSync
<1>8. ASSUME NEW k \in ConfigMaps, Resync(k) PROVE ListInv'
  BY <1>6, <1>8 DEF Resync
<1>9. CASE MainStep
  BY <1>6, <1>9 DEF MainStep, StartFactory, WaitForCacheSync, MarkReady,
     RebuildRules, ListConfigMaps, ReplaceStore, SetRulesLoaded
<1>10. CASE HandlerStep
  BY <1>6, <1>10 DEF HandlerStep, SkipResync, HandleEvent, HandleAs,
     RebuildRules, ListConfigMaps, ReplaceStore, SetRulesLoaded
<1>11. CASE UNCHANGED vars
  BY <1>6, <1>11 DEF vars
<1> QED
  BY <1>1, <1>2, <1>3, <1>4, <1>5, <1>7, <1>8, <1>9, <1>10, <1>11
  DEF Next, InformerStep, SyncTimeout, Crash

LEMMA SyncStep == IInv /\ [Next]_vars => SyncInv'
<1> SUFFICES ASSUME IInv, [Next]_vars PROVE SyncInv'
  OBVIOUS
<1> USE DEF IInv, TypeOK, Version, SyncInv, HasSynced, HasListed
<1>1. ASSUME NEW k \in ConfigMaps, NEW content \in Content, ConfigMapWrite(k, content)
      PROVE  SyncInv'
  BY <1>1 DEF ConfigMapWrite, informerVars, controllerVars
<1>2. CASE InformerStep
  <2>1. CASE HasSynced
    BY <1>2, <2>1 DEF InformerStep, InformerList, PopInitial, WatchPop, controllerVars
  <2>2. CASE ~HasSynced
    BY <1>2, <2>2 DEF InformerStep, InformerList, PopInitial, WatchPop, controllerVars
  <2> QED
    BY <2>1, <2>2
<1>3. CASE NamespaceSync
  BY <1>3 DEF NamespaceSync, informerVars, controllerVars
<1>4. ASSUME NEW k \in ConfigMaps, Resync(k) PROVE SyncInv'
  BY <1>4 DEF Resync, informerVars, controllerVars
<1>5. ASSUME NEW t \in Threads, ListConfigMaps(t) PROVE SyncInv'
  <2>1. HasSynced
    BY <1>5 DEF ListConfigMaps, GateInv, Threads
  <2>2. \A k \in ConfigMaps : listed[k].rv <= cache[k].rv
    BY <2>1 DEF ListInv
  <2> QED
    BY <1>5, <2>1, <2>2 DEF ListConfigMaps, informerVars, Threads
<1>6. ASSUME NEW t \in Threads, ReplaceStore(t) PROVE SyncInv'
  <2>1. HasSynced
    BY <1>6 DEF ReplaceStore, GateInv, Threads
  <2>2. \A k \in ConfigMaps : listed[k].rv <= view[t][k].rv
    BY <1>6 DEF ReplaceStore, GateInv, VersionInv, Threads
  <2> QED
    BY <1>6, <2>1, <2>2 DEF ReplaceStore, informerVars, Threads
<1>7. ASSUME NEW t \in Threads, SetRulesLoaded(t) PROVE SyncInv'
  BY <1>7 DEF SetRulesLoaded, AfterRebuild, informerVars, Threads
<1>8. CASE StartFactory
  BY <1>8 DEF StartFactory, informerVars, Threads
<1>9. CASE WaitForCacheSync
  BY <1>9 DEF WaitForCacheSync, informerVars, Threads
<1>10. CASE MarkReady
  BY <1>10 DEF MarkReady, informerVars, Threads
<1>11. CASE SkipResync
  BY <1>11 DEF SkipResync, informerVars, controllerVars
<1>12. CASE HandleEvent
  BY <1>12 DEF HandleEvent, HandleAs, informerVars, Threads
<1>13. CASE Restart
  BY <1>13 DEF Restart
<1>14. CASE UNCHANGED vars
  BY <1>14 DEF vars, informerVars, controllerVars
<1> QED
  BY <1>1, <1>2, <1>3, <1>4, <1>5, <1>6, <1>7, <1>8, <1>9, <1>10, <1>11, <1>12,
     <1>13, <1>14
  DEF Next, MainStep, HandlerStep, RebuildRules, SyncTimeout, Crash, Threads

LEMMA IInvInit == Init => IInv
<1> SUFFICES ASSUME Init PROVE IInv
  OBVIOUS
<1>1. TypeOK
  BY TypeInit
<1>2. GateInv
  BY DEF Init, GateInv
<1>3. VersionInv
  BY DEF Init, VersionInv, NoConfigMaps, Unknown, Threads
<1>4. ListInv /\ SyncInv
  BY DEF Init, ListInv, SyncInv, HasListed, NoConfigMaps, Unknown
<1> QED
  BY <1>1, <1>2, <1>3, <1>4 DEF IInv

LEMMA IInvAlways == Spec => []IInv
<1>1. IInv /\ [Next]_vars => IInv'
  BY TypeStep, GateStep, VersionStep, ListStep, SyncStep DEF IInv
<1> QED
  BY <1>1, IInvInit, PTL DEF Spec

-----------------------------------------------------------------------------
(* Theorems                                                                *)

\* rebuildRules needs no lock: Start's rebuild and the handlers' never overlap.
THEOREM NoOverlap == Spec => []RebuildsNeverOverlap
<1>1. IInv => RebuildsNeverOverlap
  BY DEF IInv, GateInv, RebuildsNeverOverlap, Rebuilding
<1> QED
  BY <1>1, IInvAlways, PTL

\* No serving process is without the rules of its informer's first list.
THEOREM InitialRulesServed == Spec => []ServingHasInitialRules
<1>1. IInv => ServingHasInitialRules
  BY DEF IInv, TypeOK, Version, SyncInv, HasSynced, ServingHasInitialRules
<1> QED
  BY <1>1, IInvAlways, PTL

\* The store never goes back to an older version of a ConfigMap.
THEOREM NoRegression == Spec => StoreNeverRegresses
<1> DEFINE Forward == restarts' = restarts =>
                        \A k \in ConfigMaps : storeView'[k].rv >= storeView[k].rv
<1>1. IInv /\ [Next]_vars => [Forward]_vars
  <2> SUFFICES ASSUME IInv, Next, restarts' = restarts,
                      NEW k \in ConfigMaps
               PROVE  storeView'[k].rv >= storeView[k].rv
    BY DEF Forward
  <2> USE DEF IInv, TypeOK, Version
  <2>1. ASSUME NEW t \in Threads, ReplaceStore(t)
        PROVE  storeView'[k].rv >= storeView[k].rv
    BY <2>1 DEF ReplaceStore, VersionInv
  <2>2. CASE Restart
    BY <2>2 DEF Restart
  <2>3. CASE UNCHANGED storeView
    BY <2>3
  <2> QED
    BY <2>1, <2>2, <2>3
    DEF Next, InformerStep, MainStep, HandlerStep, RebuildRules, SyncTimeout, Crash,
        ConfigMapWrite, InformerList, PopInitial, WatchPop, NamespaceSync, Resync,
        ListConfigMaps, SetRulesLoaded, StartFactory, WaitForCacheSync, MarkReady,
        SkipResync, HandleEvent, HandleAs, controllerVars, Threads
<1> QED
  BY <1>1, IInvAlways, PTL DEF Spec, StoreNeverRegresses

-----------------------------------------------------------------------------
(* The gauge                                                               *)

LEMMA GaugeStep == IInv /\ GaugeInv /\ [Next]_vars => GaugeInv'
<1> SUFFICES ASSUME IInv, GaugeInv, [Next]_vars PROVE GaugeInv'
  OBVIOUS
<1> USE DEF IInv, TypeOK, GaugeInv, GaugeMatchesStore
<1>1. ASSUME NEW t \in Threads, ListConfigMaps(t) PROVE GaugeInv'
  BY <1>1 DEF ListConfigMaps, Threads
<1>2. ASSUME NEW t \in Threads, ReplaceStore(t) PROVE GaugeInv'
  BY <1>2 DEF ReplaceStore, GateInv, Threads
<1>3. ASSUME NEW t \in Threads, SetRulesLoaded(t) PROVE GaugeInv'
  <2>1. \A s \in Threads : pc'[s] # "gauge"
    BY <1>3 DEF SetRulesLoaded, AfterRebuild, GateInv, Threads
  <2> QED
    BY <1>3, <2>1 DEF SetRulesLoaded
<1>4. CASE HandleEvent
  BY <1>4 DEF HandleEvent, HandleAs, Threads
<1>5. CASE StartFactory \/ WaitForCacheSync \/ MarkReady
  BY <1>5 DEF StartFactory, WaitForCacheSync, MarkReady, Threads
<1>6. CASE Restart
  BY <1>6, FS_EmptySet DEF Restart, Threads
<1>7. CASE UNCHANGED controllerVars
  BY <1>7 DEF controllerVars
<1> QED
  BY <1>1, <1>2, <1>3, <1>4, <1>5, <1>6, <1>7
  DEF Next, InformerStep, MainStep, HandlerStep, RebuildRules, SyncTimeout, Crash,
      ConfigMapWrite, InformerList, PopInitial, WatchPop, NamespaceSync, Resync,
      SkipResync, vars, Threads

\* The gauge is the size of the store whenever no rebuild is about to set it.
THEOREM GaugeFollowsStore == Spec => []GaugeMatchesStore
<1>1. Init => GaugeInv
  BY FS_EmptySet DEF Init, GaugeInv, GaugeMatchesStore, Threads
<1>2. GaugeInv => GaugeMatchesStore
  BY DEF GaugeInv
<1> QED
  BY <1>1, <1>2, GaugeStep, IInvAlways, PTL DEF Spec

-----------------------------------------------------------------------------
(* Lost changes                                                            *)

\* Queueing keeps what was announced; a handled event only takes itself away.
LEMMA AnnouncedKept ==
    ASSUME NEW s \in Seq(Event), NEW n \in Seq(Event), NEW i \in DOMAIN s
    PROVE  i \in DOMAIN (s \o n) /\ (s \o n)[i] = s[i]
OBVIOUS

LEMMA AnnouncedInTail ==
    ASSUME NEW s \in Seq(Event), NEW i \in DOMAIN s, s[i] # Head(s)
    PROVE  i - 1 \in DOMAIN Tail(s) /\ Tail(s)[i - 1] = s[i]
OBVIOUS

LEMMA StaleStep == IInv /\ StaleInv /\ [Next]_vars => StaleInv'
<1> SUFFICES ASSUME TypeOK, GateInv, VersionInv, ListInv, SyncInv, StaleInv, [Next]_vars
             PROVE  StaleInv'
  BY DEF IInv
<1> USE DEF StaleInv, StaleOnlyByStartupGap, Covered, Shows
<1>1. CASE UNCHANGED <<cache, queue, controllerVars>>
  BY <1>1 DEF Announced, Pending, controllerVars
<1>2. CASE ListConfigMaps("main")
  <2>1. pc'["main"] = "replace" /\ pc'["handler"] = "idle"
    BY <1>2 DEF TypeOK, ListConfigMaps, GateInv, Threads
  <2>2. \A k \in ConfigMaps : view'["main"][k] = cache'[k]
    BY <1>2 DEF TypeOK, ListConfigMaps, informerVars, Threads
  <2> QED
    BY <2>1, <2>2 DEF Announced
<1>3. CASE ListConfigMaps("handler")
  <2>1. pc'["main"] = "serving" /\ pc'["handler"] = "replace"
    BY <1>3 DEF ListConfigMaps, TypeOK, GateInv, Threads
  <2>2. \A k \in ConfigMaps : view'["handler"][k] = cache'[k]
    BY <1>3 DEF TypeOK, ListConfigMaps, informerVars, Threads
  <2> QED
    BY <2>1, <2>2 DEF Pending, Announced
<1>4. CASE ReplaceStore("main")
  <2>1. pc'["main"] = "gauge" /\ pc'["handler"] = "idle"
    BY <1>4 DEF ReplaceStore, TypeOK, GateInv, Threads
  <2>2. storeView' = view["main"] /\ UNCHANGED <<cache, queue, unseen>>
    BY <1>4 DEF ReplaceStore, informerVars
  <2>3. \A k \in ConfigMaps : Covered(view["main"], k)
    BY <1>4 DEF ReplaceStore
  <2> QED
    BY <2>1, <2>2, <2>3 DEF Announced
<1>5. CASE ReplaceStore("handler")
  <2>1. pc'["main"] = "serving" /\ pc'["handler"] = "gauge"
    BY <1>5 DEF ReplaceStore, TypeOK, GateInv, Threads
  <2>2. storeView' = view["handler"] /\ UNCHANGED <<cache, queue, unseen>>
    BY <1>5 DEF ReplaceStore, informerVars
  <2>3. \A k \in ConfigMaps : Shows(view["handler"], k) \/ Announced(view["handler"], k)
    BY <1>5 DEF ReplaceStore
  <2> QED
    BY <2>1, <2>2, <2>3 DEF Announced, Pending
<1>6. ASSUME NEW t \in Threads, SetRulesLoaded(t) PROVE StaleInv'
  BY <1>6 DEF SetRulesLoaded, AfterRebuild, TypeOK, GateInv, Announced, Pending, informerVars, Threads
<1>7. CASE StartFactory \/ WaitForCacheSync
  BY <1>7 DEF StartFactory, WaitForCacheSync, TypeOK, GateInv, Announced, Pending, informerVars, Threads
<1>8. CASE MarkReady
  BY <1>8 DEF MarkReady, TypeOK, GateInv, Announced, Pending, informerVars, Threads
<1>9. CASE Restart
  BY <1>9 DEF Restart
<1>10. CASE InformerList
  BY <1>10 DEF InformerList, TypeOK, SyncInv, HasSynced, GateInv, controllerVars
<1>11. ASSUME NEW k \in ConfigMaps, PopInitial(k) PROVE StaleInv'
  BY <1>11 DEF PopInitial, TypeOK, SyncInv, HasSynced, GateInv, controllerVars
<1>12. ASSUME NEW k \in ConfigMaps, Resync(k) PROVE StaleInv'
  <2>1. Notification(k, cache[k], cache[k]) \in Seq(Event)
    BY NotificationType DEF TypeOK
  <2>2. \A i \in DOMAIN queue : i \in DOMAIN queue' /\ queue'[i] = queue[i]
    BY <1>12, <2>1, AnnouncedKept DEF TypeOK, Resync
  <2>3. \A j \in ConfigMaps : Pending(j) => Pending(j)'
    BY <1>12, <2>2 DEF Resync, Pending, informerVars, controllerVars
  <2>4. \A j \in ConfigMaps : AnnouncedStays(j)
    BY <1>12, <2>2 DEF Resync, Announced, AnnouncedStays, controllerVars
  <2> QED
    BY <1>12, <2>3, <2>4 DEF Resync, AnnouncedStays, informerVars, controllerVars
<1>13. ASSUME NEW k \in ConfigMaps, WatchPop(k) PROVE StaleInv'
  <2>1. Notification(k, cache[k], api[k]) \in Seq(Event)
    BY NotificationType DEF TypeOK
  <2>2. \A i \in DOMAIN queue : i \in DOMAIN queue' /\ queue'[i] = queue[i]
    BY <1>13, <2>1, AnnouncedKept DEF TypeOK, WatchPop
  <2>3. UNCHANGED controllerVars /\ cache' = [cache EXCEPT ![k] = api[k]]
    BY <1>13 DEF WatchPop
  <2>4. \A j \in ConfigMaps : AnnouncedStays(j)
    BY <2>2, <2>3 DEF Announced, AnnouncedStays, controllerVars
  <2>5. \A j \in ConfigMaps \ {k} : cache'[j] = cache[j] /\ (Pending(j) => Pending(j)')
    BY <2>2, <2>3 DEF TypeOK, Pending, controllerVars
  <2>6. CASE ~Present(cache[k]) /\ ~Present(api[k])
    <3>1. Shows(storeView, k) => Shows(storeView, k)'
      BY <2>3, <2>6 DEF TypeOK, controllerVars
    <3>2. Shows(view["main"], k) => Shows(view["main"], k)'
      BY <2>3, <2>6 DEF TypeOK, controllerVars
    <3>3. Shows(view["handler"], k) => Shows(view["handler"], k)'
      BY <2>3, <2>6 DEF TypeOK, controllerVars
    <3>4. Pending(k) => Pending(k)'
      BY <2>2, <2>3, <3>3 DEF Pending, controllerVars
    <3> QED
      BY <2>3, <2>4, <2>5, <3>1, <3>2, <3>3, <3>4 DEF AnnouncedStays, controllerVars
  <2>7. CASE Present(cache[k]) \/ Present(api[k])
    <3>1. cache[k].rv < api[k].rv
      BY <1>13 DEF WatchPop, VersionInv, TypeOK, Version
    <3>2. PICK e \in Event :
             /\ Notification(k, cache[k], api[k]) = <<e>>
             /\ e.key = k /\ e.oldRv = cache[k].rv /\ e.newRv = api[k].rv
      BY <2>7 DEF Notification, Event, EventTypes, TypeOK, Version
    <3>3. Len(queue) + 1 \in DOMAIN queue' /\ queue'[Len(queue) + 1] = e
      BY <1>13, <3>2 DEF TypeOK, WatchPop
    <3>4. ~IsResync(e)
      BY <3>1, <3>2 DEF TypeOK, Version, IsResync
    <3>5. PICK i \in DOMAIN queue' :
             queue'[i].key = k /\ ~IsResync(queue'[i]) /\ queue'[i].newRv = api[k].rv
      BY <3>2, <3>3, <3>4
    <3>6. Pending(k)'
      BY <3>5 DEF Pending
    <3>7. /\ pc["main"] = "replace" => Announced(view["main"], k)'
          /\ pc["handler"] = "replace" => Announced(view["handler"], k)'
          /\ pc["main"] \in {"gauge", "ready"} => Announced(storeView, k)'
      BY <2>3, <3>1, <3>5 DEF Announced, VersionInv, TypeOK, Version, Threads, controllerVars
    <3> QED
      BY <2>3, <2>4, <2>5, <3>6, <3>7 DEF AnnouncedStays, controllerVars
  <2> QED
    BY <2>6, <2>7
<1>14. CASE SkipResync
  <2>1. \A i \in DOMAIN queue : ~IsResync(queue[i]) =>
           i - 1 \in DOMAIN queue' /\ queue'[i - 1] = queue[i]
    BY <1>14, AnnouncedInTail DEF TypeOK, SkipResync
  <2>2. \A k \in ConfigMaps : Pending(k) => Pending(k)'
    BY <1>14, <2>1 DEF SkipResync, Pending, informerVars, controllerVars
  <2>3. \A k \in ConfigMaps : AnnouncedStays(k)
    <3> SUFFICES ASSUME NEW k \in ConfigMaps PROVE AnnouncedStays(k)
      OBVIOUS
    <3>1. UNCHANGED <<view, storeView>>
      BY <1>14 DEF SkipResync, controllerVars
    <3>2. Announced(view["main"], k) => Announced(view["main"], k)'
      BY <2>1, <3>1 DEF Announced
    <3>3. Announced(view["handler"], k) => Announced(view["handler"], k)'
      BY <2>1, <3>1 DEF Announced
    <3>4. Announced(storeView, k) => Announced(storeView, k)'
      BY <2>1, <3>1 DEF Announced
    <3> QED
      BY <3>2, <3>3, <3>4 DEF AnnouncedStays
  <2> QED
    BY <1>14, <2>2, <2>3 DEF SkipResync, AnnouncedStays, informerVars, controllerVars
<1>15. CASE HandleEvent
  <2> DEFINE e == Head(queue)
  <2>1. e \in Event
    BY <1>15 DEF HandleEvent, HandleAs, TypeOK
  <2>2. \A i \in DOMAIN queue : queue[i] = e \/
           (i - 1 \in DOMAIN queue' /\ queue'[i - 1] = queue[i])
    BY <1>15, AnnouncedInTail DEF TypeOK, HandleEvent, HandleAs
  <2>3. UNCHANGED <<cache, view, storeView, ready>> /\ pc["handler"] = "idle"
    BY <1>15 DEF HandleEvent, HandleAs, informerVars
  <2>4. CASE ready
    <3>1. pc'["main"] = "serving" /\ pc'["handler"] = "list"
      BY <1>15, <2>4 DEF HandleEvent, HandleAs, TypeOK, GateInv, Threads
    <3> QED
      BY <3>1 DEF Pending
  <2>5. CASE ~ready
    <3>1. pc' = pc /\ pc["main"] # "serving"
      BY <1>15, <2>5, <2>3 DEF HandleEvent, HandleAs, TypeOK, GateInv, Threads
    <3>2. unseen \subseteq unseen' /\ (Overlooked(e) => e.key \in unseen')
      BY <1>15, <2>5 DEF HandleEvent, HandleAs
    <3>3. ASSUME NEW k \in ConfigMaps, pc["main"] = "replace", Covered(view["main"], k)
          PROVE  Covered(view["main"], k)'
      BY <2>2, <2>3, <3>2, <3>3 DEF Announced, Overlooked
    <3>4. ASSUME NEW k \in ConfigMaps, pc["main"] \in {"gauge", "ready"}, Covered(storeView, k)
          PROVE  Covered(storeView, k)'
      BY <2>2, <2>3, <3>2, <3>4 DEF Announced, Overlooked
    <3> QED
      BY <2>3, <3>1, <3>3, <3>4
  <2> QED
    BY <2>4, <2>5
<1> QED
  BY <1>1, <1>2, <1>3, <1>4, <1>5, <1>6, <1>7, <1>8, <1>9, <1>10, <1>11, <1>12,
     <1>13, <1>14, <1>15
  DEF Next, InformerStep, MainStep, HandlerStep, RebuildRules, SyncTimeout, Crash,
      ConfigMapWrite, NamespaceSync, informerVars, vars, Threads

\* A serving process can lose a change in one way only: its notification came
\* between the List of Start and ready.Store(true).
THEOREM OnlyStartupGapLosesChanges == Spec => []StaleOnlyByStartupGap
<1>1. Init => StaleInv
  BY DEF Init, StaleInv, StaleOnlyByStartupGap
<1>2. StaleInv => StaleOnlyByStartupGap
  BY DEF StaleInv
<1> QED
  BY <1>1, <1>2, StaleStep, IInvAlways, PTL DEF Spec

-----------------------------------------------------------------------------
(* The event counter                                                       *)

EventsIn(s, type) == {i \in DOMAIN s : s[i].type = type}
Counts(e, type) == IF e.type = type THEN 1 ELSE 0
Appears(old, new) == IF ~Present(old) /\ Present(new) THEN 1 ELSE 0
Vanishes(old, new) == IF Present(old) /\ ~Present(new) THEN 1 ELSE 0
Held(configMaps) == {k \in ConfigMaps : Present(configMaps[k])}

LEMMA EventsInFinite ==
    ASSUME NEW s \in Seq(Event), NEW type
    PROVE  IsFiniteSet(EventsIn(s, type)) /\ Cardinality(EventsIn(s, type)) \in Nat
<1>1. EventsIn(s, type) \subseteq 1..Len(s)
  BY DEF EventsIn
<1>2. IsFiniteSet(1..Len(s))
  <2>1. Len(s) \in Int /\ 1 \in Int
    OBVIOUS
  <2> QED
    BY <2>1, FS_Interval, Zenon
<1>3. IsFiniteSet(EventsIn(s, type))
  BY <1>1, <1>2, FS_Subset, Zenon
<1> QED
  BY <1>3, FS_CardinalityType, Zenon

LEMMA HeldFinite ==
    ASSUME NEW configMaps
    PROVE  IsFiniteSet(Held(configMaps)) /\ Cardinality(Held(configMaps)) \in Nat
BY ConfigMapsFinite, FS_Subset, FS_CardinalityType DEF Held

\* A queued event counts for its own type and for no other.
LEMMA EventsInAppend ==
    ASSUME NEW s \in Seq(Event), NEW e \in Event, NEW type
    PROVE  Cardinality(EventsIn(s \o <<e>>, type)) =
              Cardinality(EventsIn(s, type)) + Counts(e, type)
<1> DEFINE t == s \o <<e>>
           n == Len(s) + 1
<1>1. DOMAIN s = 1..Len(s) /\ DOMAIN t = 1..n
  OBVIOUS
<1>2. t[n] = e /\ \A i \in DOMAIN s : t[i] = s[i]
  OBVIOUS
<1>3. n \notin EventsIn(s, type)
  BY <1>1 DEF EventsIn
<1>4. CASE e.type = type
  <2>1. EventsIn(t, type) = EventsIn(s, type) \cup {n}
    BY <1>1, <1>2, <1>4 DEF EventsIn
  <2> QED
    BY <2>1, <1>3, <1>4, EventsInFinite, FS_AddElement DEF Counts
<1>5. CASE e.type # type
  <2>1. EventsIn(t, type) = EventsIn(s, type)
    BY <1>1, <1>2, <1>5 DEF EventsIn
  <2> QED
    BY <2>1, <1>5, EventsInFinite DEF Counts
<1> QED
  BY <1>4, <1>5

\* Taking the head of the queue takes it from the count of its type.
LEMMA EventsInTail ==
    ASSUME NEW s \in Seq(Event), s # <<>>, NEW type
    PROVE  Cardinality(EventsIn(s, type)) =
              Cardinality(EventsIn(Tail(s), type)) + Counts(Head(s), type)
<1> DEFINE rest == EventsIn(Tail(s), type)
           moved == {i + 1 : i \in rest}
           f == [i \in rest |-> i + 1]
<1>1. /\ DOMAIN s = 1..Len(s) /\ 1 \in DOMAIN s /\ s[1] = Head(s)
      /\ DOMAIN Tail(s) = 1..(Len(s) - 1)
      /\ \A i \in DOMAIN Tail(s) : Tail(s)[i] = s[i + 1]
  OBVIOUS
<1>2. rest \subseteq Nat \ {0}
  BY <1>1 DEF EventsIn
<1>3. IsFiniteSet(rest) /\ IsFiniteSet(moved) /\ Cardinality(moved) = Cardinality(rest)
  <2> HIDE DEF rest
  <2>1. f \in Bijection(rest, moved)
    BY <1>2 DEF Bijection, Injection, Surjection, IsInjective
  <2>2. Tail(s) \in Seq(Event)
    OBVIOUS
  <2>3. IsFiniteSet(rest)
    BY <2>2, EventsInFinite DEF rest
  <2>4. ExistsBijection(rest, moved)
    BY <2>1 DEF ExistsBijection
  <2> HIDE DEF moved
  <2> QED
    BY <2>3, <2>4, FS_Bijection, Zenon
<1>4. 1 \notin moved
  BY <1>2
<1>5. EventsIn(s, type) \ {1} = moved
  <2>1. ASSUME NEW i \in EventsIn(s, type), i # 1 PROVE i \in moved
    <3>1. i - 1 \in DOMAIN Tail(s) /\ i = (i - 1) + 1
      BY <2>1, <1>1 DEF EventsIn
    <3> QED
      BY <2>1, <3>1, <1>1 DEF EventsIn
  <2>2. ASSUME NEW i \in rest PROVE i + 1 \in EventsIn(s, type) /\ i + 1 # 1
    BY <2>2, <1>1 DEF EventsIn
  <2> QED
    BY <2>1, <2>2
<1>6. CASE Head(s).type = type
  <2>1. EventsIn(s, type) = moved \cup {1}
    BY <1>1, <1>5, <1>6 DEF EventsIn
  <2> QED
    BY <2>1, <1>3, <1>4, <1>6, FS_AddElement DEF Counts
<1>7. CASE Head(s).type # type
  <2>1. EventsIn(s, type) = moved
    BY <1>1, <1>4, <1>5, <1>7 DEF EventsIn
  <2>2. Cardinality(rest) \in Nat
    BY <1>3, FS_CardinalityType, Zenon
  <2>3. Cardinality(EventsIn(s, type)) = Cardinality(rest) /\ Counts(Head(s), type) = 0
    BY <2>1, <1>3, <1>7 DEF Counts
  <2> QED
    BY <2>2, <2>3
<1> QED
  BY <1>6, <1>7

\* One event is queued for a ConfigMap that appears or disappears, and it is
\* an add or a delete; otherwise none of either type is.
LEMMA NotificationCounts ==
    ASSUME NEW s \in Seq(Event), NEW k \in ConfigMaps,
           NEW old \in Version, NEW new \in Version
    PROVE  /\ Cardinality(EventsIn(s \o Notification(k, old, new), "add")) =
                 Cardinality(EventsIn(s, "add")) + Appears(old, new)
           /\ Cardinality(EventsIn(s \o Notification(k, old, new), "delete")) =
                 Cardinality(EventsIn(s, "delete")) + Vanishes(old, new)
<1> DEFINE event(type) == [type |-> type, key |-> k, oldRv |-> old.rv, newRv |-> new.rv]
<1>1. /\ event("add") \in Event /\ event("update") \in Event /\ event("delete") \in Event
      /\ event("add").type = "add" /\ event("update").type = "update"
      /\ event("delete").type = "delete"
  BY DEF Event, EventTypes, Version
<1> HIDE DEF event
<1>2. CASE ~Present(old) /\ Present(new)
  <2>1. Notification(k, old, new) = <<event("add")>>
    BY <1>2 DEF Notification, event
  <2> QED
    BY <1>1, <1>2, <2>1, EventsInAppend, EventsInFinite DEF Counts, Appears, Vanishes
<1>3. CASE Present(old) /\ Present(new)
  <2>1. Notification(k, old, new) = <<event("update")>>
    BY <1>3 DEF Notification, event
  <2> QED
    BY <1>1, <1>3, <2>1, EventsInAppend, EventsInFinite DEF Counts, Appears, Vanishes
<1>4. CASE Present(old) /\ ~Present(new)
  <2>1. Notification(k, old, new) = <<event("delete")>>
    BY <1>4 DEF Notification, event
  <2> QED
    BY <1>1, <1>4, <2>1, EventsInAppend, EventsInFinite DEF Counts, Appears, Vanishes
<1>5. CASE ~Present(old) /\ ~Present(new)
  <2>1. Notification(k, old, new) = <<>>
    BY <1>5 DEF Notification
  <2>2. s \o <<>> = s
    OBVIOUS
  <2> QED
    BY <1>5, <2>1, <2>2, EventsInFinite DEF Counts, Appears, Vanishes
<1> QED
  BY <1>2, <1>3, <1>4, <1>5

LEMMA HeldExcept ==
    ASSUME NEW configMaps \in [ConfigMaps -> Version], NEW k \in ConfigMaps,
           NEW new \in Version, NEW next, next = [configMaps EXCEPT ![k] = new]
    PROVE  Cardinality(Held(next)) + Vanishes(configMaps[k], new)
              = Cardinality(Held(configMaps)) + Appears(configMaps[k], new)
<1> DEFINE down == Vanishes(configMaps[k], new)
           up == Appears(configMaps[k], new)
<1>1. next[k] = new /\ \A j \in ConfigMaps \ {k} : next[j] = configMaps[j]
  OBVIOUS
<1>2. Held(next) \ {k} = Held(configMaps) \ {k}
  BY <1>1 DEF Held
<1>3. Cardinality(Held(next)) \in Nat /\ Cardinality(Held(configMaps)) \in Nat
  BY HeldFinite
<1>4. CASE Present(new) /\ ~Present(configMaps[k])
  <2>1. Held(next) = Held(configMaps) \cup {k} /\ k \notin Held(configMaps)
    BY <1>1, <1>2, <1>4 DEF Held
  <2>2. Cardinality(Held(next)) = Cardinality(Held(configMaps)) + 1
    BY <2>1, HeldFinite, FS_AddElement
  <2>3. down = 0 /\ up = 1
    BY <1>4 DEF Appears, Vanishes
  <2> QED
    BY <2>2, <2>3, <1>3
<1>5. CASE ~Present(new) /\ Present(configMaps[k])
  <2>1. Held(configMaps) = Held(next) \cup {k} /\ k \notin Held(next)
    BY <1>1, <1>2, <1>5 DEF Held
  <2>2. Cardinality(Held(configMaps)) = Cardinality(Held(next)) + 1
    BY <2>1, HeldFinite, FS_AddElement
  <2>3. down = 1 /\ up = 0
    BY <1>5 DEF Appears, Vanishes
  <2> QED
    BY <2>2, <2>3, <1>3
<1>6. CASE Present(new) <=> Present(configMaps[k])
  <2>1. Held(next) = Held(configMaps)
    BY <1>1, <1>2, <1>6 DEF Held
  <2>2. down = 0 /\ up = 0
    BY <1>6 DEF Appears, Vanishes
  <2> QED
    BY <2>1, <2>2, <1>3
<1> QED
  BY <1>4, <1>5, <1>6

\* EventsAccountForCache in terms of the operators above.
Accounted ==
    configEvents["add"] + Cardinality(EventsIn(queue, "add")) =
        configEvents["delete"] + Cardinality(EventsIn(queue, "delete")) + Cardinality(Held(cache))

LEMMA AccountedStep == TypeOK /\ ListInv /\ Accounted /\ [Next]_vars => Accounted'
<1> SUFFICES ASSUME TypeOK, ListInv, Accounted, [Next]_vars PROVE Accounted'
  OBVIOUS
<1> USE DEF TypeOK, Accounted
<1>0. /\ Cardinality(EventsIn(queue, "add")) \in Nat
      /\ Cardinality(EventsIn(queue, "delete")) \in Nat
      /\ Cardinality(Held(cache)) \in Nat
      /\ configEvents["add"] \in Nat /\ configEvents["delete"] \in Nat
  BY EventsInFinite, HeldFinite DEF EventTypes
<1>00. Accounted' <=>
          configEvents'["add"] + Cardinality(EventsIn(queue', "add")) =
             configEvents'["delete"] + Cardinality(EventsIn(queue', "delete"))
                 + Cardinality(Held(cache'))
  BY DEF EventsIn, Held
<1>1. CASE UNCHANGED <<cache, queue, configEvents>>
  BY <1>1, <1>00
<1>2. CASE InformerList
  <2>1. Held(cache) = {} /\ Held(cache') = {}
    BY <1>2 DEF InformerList, ListInv, Held, Present, NoConfigMaps, Unknown
  <2> QED
    BY <1>2, <2>1 DEF InformerList, controllerVars
<1>3. ASSUME NEW k \in ConfigMaps, NEW new \in Version,
             cache' = [cache EXCEPT ![k] = new],
             queue' = queue \o Notification(k, cache[k], new),
             UNCHANGED configEvents
      PROVE  Accounted'
  <2> DEFINE up == Appears(cache[k], new)
             down == Vanishes(cache[k], new)
  <2>1. /\ Cardinality(EventsIn(queue', "add")) = Cardinality(EventsIn(queue, "add")) + up
        /\ Cardinality(EventsIn(queue', "delete")) = Cardinality(EventsIn(queue, "delete")) + down
    BY <1>3, NotificationCounts DEF Version
  <2>2. Cardinality(Held(cache')) + down = Cardinality(Held(cache)) + up
    BY <1>3, HeldExcept
  <2>3. Cardinality(Held(cache')) \in Nat /\ up \in Nat /\ down \in Nat
    BY HeldFinite DEF Appears, Vanishes
  <2>4. /\ Cardinality(EventsIn(queue', "add")) \in Nat
        /\ Cardinality(EventsIn(queue', "delete")) \in Nat
        /\ configEvents' = configEvents
    <3> HIDE DEF up, down, TypeOK, Accounted
    <3>1. \A m, n \in Nat : m + n \in Nat
      OBVIOUS
    <3>2. QED
      BY <1>0, <1>3, <2>1, <2>3, <3>1
  <2> HIDE DEF up, down, TypeOK
  <2> QED
    BY <1>0, <1>00, <2>1, <2>2, <2>3, <2>4
<1>4. ASSUME NEW k \in ConfigMaps, PopInitial(k) PROVE Accounted'
  BY <1>3, <1>4 DEF PopInitial, controllerVars
<1>5. ASSUME NEW k \in ConfigMaps, WatchPop(k) PROVE Accounted'
  BY <1>3, <1>5 DEF WatchPop, controllerVars
<1>6. ASSUME NEW k \in ConfigMaps, Resync(k) PROVE Accounted'
  <2>1. cache' = [cache EXCEPT ![k] = cache[k]]
    BY <1>6 DEF Resync, informerVars
  <2> QED
    BY <1>3, <1>6, <2>1 DEF Resync, controllerVars
<1>7. CASE SkipResync
  <2>1. Head(queue).type = "update"
    BY <1>7 DEF SkipResync, IsResync
  <2>2. /\ queue # <<>> /\ queue' = Tail(queue) /\ Tail(queue) \in Seq(Event)
        /\ UNCHANGED <<cache, configEvents>>
    BY <1>7 DEF SkipResync, informerVars, controllerVars
  <2>3. Counts(Head(queue), "add") = 0 /\ Counts(Head(queue), "delete") = 0
    BY <2>1 DEF Counts
  <2>4. \A type \in EventTypes :
           /\ Cardinality(EventsIn(queue', type)) \in Nat
           /\ Cardinality(EventsIn(queue, type)) =
                 Cardinality(EventsIn(queue', type)) + Counts(Head(queue), type)
    BY <2>2, EventsInTail, EventsInFinite
  <2> QED
    BY <1>0, <1>00, <2>2, <2>3, <2>4 DEF EventTypes
<1>8. CASE HandleEvent
  <2> DEFINE e == Head(queue)
  <2>1. e \in Event /\ queue # <<>> /\ queue' = Tail(queue) /\ cache' = cache
    BY <1>8 DEF HandleEvent, HandleAs, informerVars
  <2>2. \A type \in EventTypes : configEvents'[type] = configEvents[type] + Counts(e, type)
    <3>1. configEvents' = [configEvents EXCEPT ![e.type] = @ + 1] /\ e.type \in EventTypes
      BY <1>8, <2>1 DEF HandleEvent, HandleAs, Event
    <3> HIDE DEF e
    <3> QED
      BY <3>1 DEF Counts
  <2>3. \A type \in EventTypes :
           /\ Cardinality(EventsIn(queue', type)) \in Nat
           /\ Cardinality(EventsIn(queue, type)) =
                 Cardinality(EventsIn(queue', type)) + Counts(e, type)
    <3>1. Tail(queue) \in Seq(Event)
      BY <2>1
    <3> HIDE DEF TypeOK
    <3>2. queue \in Seq(Event) /\ queue' = Tail(queue)
      BY <2>1 DEF TypeOK
    <3> QED
      BY <2>1, <3>1, <3>2, EventsInTail, EventsInFinite
  <2>4. \A type \in EventTypes : Counts(e, type) \in Nat
    BY DEF Counts
  <2> HIDE DEF e, TypeOK
  <2>5. /\ configEvents'["add"] + Cardinality(EventsIn(queue', "add")) =
              configEvents["add"] + Cardinality(EventsIn(queue, "add"))
        /\ configEvents'["delete"] + Cardinality(EventsIn(queue', "delete")) =
              configEvents["delete"] + Cardinality(EventsIn(queue, "delete"))
    <3> HIDE DEF Accounted
    <3>1. "add" \in EventTypes /\ "delete" \in EventTypes
      BY DEF EventTypes
    <3> QED
      BY <1>0, <2>2, <2>3, <2>4, <3>1
  <2> QED
    BY <1>00, <2>1, <2>5
<1>9. CASE Restart
  <2>1. Held(cache') = {} /\ EventsIn(queue', "add") = {} /\ EventsIn(queue', "delete") = {}
    BY <1>9 DEF Restart, Held, Present, NoConfigMaps, Unknown, EventsIn
  <2>2. Cardinality({}) = 0
    BY FS_EmptySet, Zenon
  <2>3. configEvents'["add"] = 0 /\ configEvents'["delete"] = 0
    BY <1>9 DEF Restart, EventTypes
  <2> HIDE DEF TypeOK
  <2> QED
    BY <1>00, <2>1, <2>2, <2>3
<1> QED
  BY <1>1, <1>2, <1>4, <1>5, <1>6, <1>7, <1>8, <1>9
  DEF Next, InformerStep, MainStep, HandlerStep, RebuildRules, SyncTimeout, Crash,
      ConfigMapWrite, NamespaceSync, ListConfigMaps, ReplaceStore, SetRulesLoaded,
      StartFactory, WaitForCacheSync, MarkReady, informerVars, controllerVars, vars

\* The event counters and the queue together tell how many ConfigMaps the cache
\* holds: no add or delete is missed, counted twice or counted for a resync.
THEOREM EveryEventCounted == Spec => []EventsAccountForCache
<1>1. Init => Accounted
  <2> SUFFICES ASSUME Init PROVE Accounted
    OBVIOUS
  <2>1. Held(cache) = {} /\ EventsIn(queue, "add") = {} /\ EventsIn(queue, "delete") = {}
    BY DEF Init, Held, Present, NoConfigMaps, Unknown, EventsIn
  <2>2. Cardinality({}) = 0
    BY FS_EmptySet, Zenon
  <2>3. configEvents["add"] = 0 /\ configEvents["delete"] = 0
    BY DEF Init, EventTypes
  <2> QED
    BY <2>1, <2>2, <2>3 DEF Accounted
<1>2. Accounted => EventsAccountForCache
  BY DEF Accounted, EventsAccountForCache, Queued, EventsIn, Held
<1>3. IInv => TypeOK /\ ListInv
  BY DEF IInv
<1> QED
  BY <1>1, <1>2, <1>3, AccountedStep, IInvAlways, PTL DEF Spec

-----------------------------------------------------------------------------
(* RuleWatch implements RuleCache, for any finite set of ConfigMaps and    *)
(* any bounds.                                                             *)

\* The two specifications call the same things by different names.
LEMMA SameTypes ==
    /\ Cache!Version = Version
    /\ Cache!Snapshots = [ConfigMaps -> Version]
    /\ Cache!NothingKnown = NoConfigMaps
    /\ \A v : Cache!RulesOf(v) = RulesIn(v)
BY DEF Cache!Version, Cache!Snapshots, Cache!NothingKnown, Cache!RulesOf,
       Version, Content, NoConfigMaps, Unknown, RulesIn

\* What a step that is none of RuleCache's leaves alone.
Unseen == UNCHANGED <<cache, storeView, store, StartStage, SnapshotsInHand>>

-----------------------------------------------------------------------------
(* What is written, and what is listed, is newer than what is unknown.     *)

WrittenInv ==
    \A k \in ConfigMaps :
        /\ 0 < api[k].rv
        /\ HasListed => 0 < listed[k].rv

LEMMA WrittenInit == Init => WrittenInv
BY DEF Init, WrittenInv, HasListed

LEMMA WrittenStep == TypeOK /\ WrittenInv /\ [Next]_vars => WrittenInv'
<1> SUFFICES ASSUME TypeOK, WrittenInv, [Next]_vars PROVE WrittenInv'
  OBVIOUS
<1> USE DEF TypeOK, Version, WrittenInv, HasListed
<1>1. ASSUME NEW k \in ConfigMaps, NEW content \in Content, ConfigMapWrite(k, content)
      PROVE  WrittenInv'
  BY <1>1 DEF ConfigMapWrite, informerVars
<1>2. CASE InformerList
  BY <1>2 DEF InformerList, apiVars
<1>3. CASE Restart
  BY <1>3 DEF Restart, apiVars
<1>4. CASE UNCHANGED <<apiVars, listed>>
  BY <1>4 DEF apiVars
<1> QED
  BY <1>1, <1>2, <1>3, <1>4
  DEF Next, InformerStep, MainStep, HandlerStep, RebuildRules, SyncTimeout, Crash,
      PopInitial, WatchPop, NamespaceSync, Resync, ListConfigMaps, ReplaceStore,
      SetRulesLoaded, StartFactory, WaitForCacheSync, MarkReady, SkipResync,
      HandleEvent, HandleAs, informerVars, vars

LEMMA WrittenAlways == Spec => []WrittenInv
<1>1. TypeOK /\ WrittenInv /\ [Next]_vars => WrittenInv'
  BY WrittenStep
<1> QED
  BY <1>1, WrittenInit, TypeCorrect, PTL DEF Spec

-----------------------------------------------------------------------------
(* The steps                                                               *)

LEMMA InitImplements == Init => Cache!Init
<1> SUFFICES ASSUME Init PROVE Cache!Init
  OBVIOUS
<1>1. SnapshotsInHand = {} /\ StartStage = "syncing"
  BY DEF Init, SnapshotsInHand, StartStage, Threads
<1> QED
  BY <1>1, SameTypes DEF Init, Cache!Init

\* The informer's steps are Learn.
LEMMA InformerLearns == IInv /\ WrittenInv /\ InformerStep => Cache!Learn
<1> SUFFICES ASSUME IInv, WrittenInv, InformerStep PROVE Cache!Learn
  OBVIOUS
<1> USE DEF IInv, TypeOK
<1>1. UNCHANGED controllerVars
  BY DEF InformerStep, InformerList, PopInitial, WatchPop
<1>2. UNCHANGED <<SnapshotsInHand, storeView, store, StartStage>>
  BY <1>1 DEF controllerVars, SnapshotsInHand, StartStage
<1>3. cache' \in [ConfigMaps -> Version]
  BY UnknownType DEF InformerStep, InformerList, PopInitial, WatchPop
<1>4. \A k \in ConfigMaps : cache[k].rv <= cache'[k].rv
  BY CacheGrows
<1>5. \A k \in ConfigMaps : cache'[k] = cache[k] \/ cache[k].rv < cache'[k].rv
  <2>1. CASE InformerList
    <3>1. \A k \in ConfigMaps : cache[k] = Unknown
      BY <2>1 DEF InformerList, ListInv, NoConfigMaps
    <3> QED
      BY <2>1, <3>1 DEF InformerList, WrittenInv, Version, Unknown
  <2>2. ASSUME NEW k \in ConfigMaps, PopInitial(k)
        PROVE  \A j \in ConfigMaps : cache'[j] = cache[j] \/ cache[j].rv < cache'[j].rv
    <3>1. cache[k] = Unknown /\ cache' = [cache EXCEPT ![k] = listed[k]]
      BY <2>2 DEF PopInitial, ListInv
    <3>2. 0 < listed[k].rv
      BY <2>2 DEF PopInitial, ListInv, WrittenInv
    <3> QED
      BY <3>1, <3>2 DEF Version, Unknown
  <2>3. ASSUME NEW k \in ConfigMaps, WatchPop(k)
        PROVE  \A j \in ConfigMaps : cache'[j] = cache[j] \/ cache[j].rv < cache'[j].rv
    BY <2>3 DEF WatchPop, VersionInv, Version
  <2> QED
    BY <2>1, <2>2, <2>3 DEF InformerStep
<1> QED
  BY <1>2, <1>3, <1>5, SameTypes DEF Cache!Learn

\* The List of a rebuild is Take, for no other rebuild has a list in hand.
LEMMA ListTakes ==
    ASSUME IInv, NEW t \in Threads, ListConfigMaps(t) PROVE Cache!Take
<1> USE DEF IInv, TypeOK
<1>1. \A u \in Threads : pc[u] # "replace"
  BY DEF ListConfigMaps, GateInv, Threads
<1>2. SnapshotsInHand = {}
  BY <1>1 DEF SnapshotsInHand
<1>3. \A u \in Threads : pc'[u] = "replace" <=> u = t
  BY <1>1 DEF ListConfigMaps
<1>4. view'[t] = cache
  BY DEF ListConfigMaps
<1>5. SnapshotsInHand' = {cache}
  BY <1>3, <1>4 DEF SnapshotsInHand
<1>6. StartStage \in {"loading", "serving"} /\ StartStage' = StartStage
  BY DEF ListConfigMaps, GateInv, StartStage, Threads
<1> QED
  BY <1>2, <1>5, <1>6 DEF Cache!Take, ListConfigMaps, informerVars

LEMMA ReplacePublishes ==
    ASSUME IInv, NEW t \in Threads, ReplaceStore(t) PROVE Cache!Publish
<1> USE DEF IInv, TypeOK
<1>1. \A u \in Threads : pc[u] = "replace" <=> u = t
  BY DEF ReplaceStore, GateInv, Threads
<1>2. \A u \in Threads : pc'[u] # "replace"
  BY <1>1 DEF ReplaceStore
<1>3. SnapshotsInHand = {view[t]} /\ SnapshotsInHand' = {}
  BY <1>1, <1>2 DEF SnapshotsInHand
<1>4. StartStage' = IF StartStage = "loading" THEN "loaded" ELSE StartStage
  BY DEF ReplaceStore, GateInv, StartStage, Threads
<1> QED
  BY <1>3, <1>4, SameTypes DEF Cache!Publish, ReplaceStore, informerVars

\* Every step of the controller and its surroundings is a step of RuleCache or
\* changes nothing it knows of.
LEMMA StepImplements ==
    IInv /\ WrittenInv /\ [Next]_vars =>
        [Cache!Next]_<<cache, SnapshotsInHand, storeView, store, StartStage>>
<1> SUFFICES ASSUME IInv, WrittenInv, [Next]_vars PROVE Cache!Next \/ Unseen
  BY DEF Unseen
<1> USE DEF IInv, TypeOK
<1>1. CASE UNCHANGED <<cache, controllerVars>>
  BY <1>1 DEF controllerVars, Unseen, SnapshotsInHand, StartStage
<1>2. CASE InformerStep
  BY <1>2, InformerLearns DEF Cache!Next
<1>3. ASSUME NEW t \in Threads, ListConfigMaps(t) PROVE Cache!Next
  BY <1>3, ListTakes DEF Cache!Next
<1>4. ASSUME NEW t \in Threads, ReplaceStore(t) PROVE Cache!Next
  BY <1>4, ReplacePublishes DEF Cache!Next
<1>5. ASSUME NEW t \in Threads, SetRulesLoaded(t) PROVE Unseen
  <2>1. \A u \in Threads : pc[u] # "replace" /\ pc'[u] # "replace"
    BY <1>5 DEF SetRulesLoaded, AfterRebuild, GateInv, Threads
  <2>2. SnapshotsInHand = {} /\ SnapshotsInHand' = {}
    BY <2>1 DEF SnapshotsInHand
  <2>3. StartStage' = StartStage
    BY <1>5 DEF SetRulesLoaded, AfterRebuild, GateInv, StartStage, Threads
  <2> QED
    BY <1>5, <2>2, <2>3 DEF SetRulesLoaded, informerVars, Unseen
<1>6. ASSUME UNCHANGED <<cache, storeView, store, view>>,
             \A u \in Threads : pc[u] # "replace" /\ pc'[u] # "replace"
      PROVE  UNCHANGED <<cache, storeView, store, SnapshotsInHand>> /\ SnapshotsInHand = {}
  BY <1>6 DEF SnapshotsInHand
<1>7. CASE StartFactory
  <2>1. UNCHANGED <<cache, storeView, store, view>> /\ StartStage' = StartStage
    BY <1>7 DEF StartFactory, StartStage, Threads, informerVars
  <2>2. \A u \in Threads : pc[u] # "replace" /\ pc'[u] # "replace"
    BY <1>7 DEF StartFactory, GateInv, Threads
  <2> QED
    BY <1>6, <2>1, <2>2 DEF Unseen
<1>8. CASE WaitForCacheSync
  <2>1. UNCHANGED <<cache, storeView, store, view>>
    BY <1>8 DEF WaitForCacheSync, informerVars
  <2>2. StartStage = "syncing" /\ StartStage' = "loading"
    BY <1>8 DEF WaitForCacheSync, StartStage, Threads
  <2>3. \A u \in Threads : pc[u] # "replace" /\ pc'[u] # "replace"
    BY <1>8 DEF WaitForCacheSync, GateInv, Threads
  <2> QED
    BY <1>6, <2>1, <2>2, <2>3 DEF Cache!Synced, Cache!Next
<1>9. CASE MarkReady
  <2>1. UNCHANGED <<cache, storeView, store, view>>
    BY <1>9 DEF MarkReady, informerVars
  <2>2. StartStage = "loaded" /\ StartStage' = "serving"
    BY <1>9 DEF MarkReady, StartStage, Threads
  <2>3. \A u \in Threads : pc[u] # "replace" /\ pc'[u] # "replace"
    BY <1>9 DEF MarkReady, GateInv, Threads
  <2> QED
    BY <1>6, <2>1, <2>2, <2>3 DEF Cache!Open, Cache!Next
<1>10. CASE HandleEvent
  <2>1. UNCHANGED <<cache, storeView, store, view>> /\ StartStage' = StartStage
    BY <1>10 DEF HandleEvent, HandleAs, StartStage, Threads, informerVars
  <2>2. pc["handler"] = "idle" /\ pc'["handler"] # "replace" /\ pc'["main"] = pc["main"]
    BY <1>10 DEF HandleEvent, HandleAs, Threads
  <2>3. SnapshotsInHand' = SnapshotsInHand
    BY <2>1, <2>2 DEF SnapshotsInHand, Threads
  <2> QED
    BY <2>1, <2>3 DEF Unseen
<1>11. CASE Restart
  <2>1. SnapshotsInHand' = {} /\ StartStage' = "syncing"
    BY <1>11 DEF Restart, SnapshotsInHand, StartStage, Threads
  <2> QED
    BY <1>11, <2>1, SameTypes DEF Restart, Cache!StartAgain, Cache!Next
<1> QED
  BY <1>1, <1>2, <1>3, <1>4, <1>5, <1>7, <1>8, <1>9, <1>10, <1>11
  DEF Next, MainStep, HandlerStep, RebuildRules, SyncTimeout, Crash,
      ConfigMapWrite, NamespaceSync, Resync, SkipResync, informerVars, vars, Threads

\* However its two threads, the informer, crashes and restarts interleave, the
\* controller does only what RuleCache promises.
THEOREM RefinesRuleCache == Spec => ImplementsRuleCache
BY InitImplements, StepImplements, IInvAlways, WrittenAlways, PTL
DEF Spec, ImplementsRuleCache, Cache!Spec, Cache!cacheVars

=============================================================================
