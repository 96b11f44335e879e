---------------------------- MODULE ServerProofs ----------------------------
(***************************************************************************)
(* Theorems about Server, for any ConfigMaps, rules, requests and buckets. *)
(***************************************************************************)
EXTENDS Server, TLAPS, SequenceTheorems, FiniteSetTheorems

-----------------------------------------------------------------------------
(* The inductive invariant, in parts                                       *)

\* Versions only grow along basis, what is published, what is in hand, the cache;
\* and one snapshot is in hand at most.
OrderInv ==
    /\ Cache!NoneOlder(reflected, known)
    /\ \A snapshot \in taken :
          Cache!NoneOlder(reflected, snapshot) /\ Cache!NoneOlder(snapshot, known)
    /\ \A s, t \in taken : s = t
    /\ \A r \in Requests : Judged(r) => Cache!NoneOlder(basis[r], reflected)

\* The rules of the synced cache travel through the snapshot into the store.
StartInv ==
    /\ stage = "syncing" => taken = {}
    /\ stage # "syncing" => Cache!NoneOlder(initialRules, known)
    /\ stage # "syncing" => \A snapshot \in taken : Cache!NoneOlder(initialRules, snapshot)
    /\ stage \in {"loaded", "serving"} => Cache!NoneOlder(initialRules, reflected)

\* Nothing is accepted before Start is done, and nothing cut before the end.
ServeInv ==
    /\ main = "starting" => idle = 0 /\ errCh = <<>> /\ listener = "off"
    /\ main \in {"select", "shutting"} => stage = "serving"
    /\ \A r \in Requests : phase[r] # "new" => stage = "serving" /\ main # "starting"
    /\ \A r \in Requests : phase[r] = "cut" => main = "exited"
    /\ main = "shutting" => signalled
    /\ main = "select" => \A i \in DOMAIN errCh : errCh[i] = "error"

IInv ==
    TypeOK /\ OrderInv /\ StartInv /\ ServeInv
        /\ InitialRulesJudge /\ ErrChNeverFull /\ ExitStatusIsTrue

-----------------------------------------------------------------------------
(* Facts about RuleCache's steps                                           *)

LEMMA NothingKnownType == Cache!NothingKnown \in Cache!Snapshots
BY RevisionsAreNatural DEF Cache!NothingKnown, Cache!Snapshots, Cache!Version

LEMMA RulesOfType ==
    ASSUME NEW snapshot \in Cache!Snapshots
    PROVE  Cache!RulesOf(snapshot) \subseteq ConfigMaps \X Rules
BY DEF Cache!RulesOf

LEMMA RevisionType ==
    ASSUME NEW snapshot \in Cache!Snapshots, NEW k \in ConfigMaps
    PROVE  snapshot[k].rv \in Nat
<1>1. snapshot[k] \in Cache!Version
  BY DEF Cache!Snapshots
<1>2. snapshot[k].rv \in Revisions
  BY <1>1 DEF Cache!Version
<1> QED
  BY <1>2, RevisionsAreNatural

LEMMA NoneOlderOrder ==
    /\ \A s \in Cache!Snapshots : Cache!NoneOlder(s, s)
    /\ \A s, t, u \in Cache!Snapshots :
          Cache!NoneOlder(s, t) /\ Cache!NoneOlder(t, u) => Cache!NoneOlder(s, u)
<1>1. \A s \in Cache!Snapshots : \A k \in ConfigMaps : s[k].rv \in Nat
  BY RevisionType
<1> QED
  BY <1>1 DEF Cache!NoneOlder

\* Learning makes nothing older.
LEMMA LearnGrows ==
    ASSUME known \in Cache!Snapshots, Cache!Learn
    PROVE  known' \in Cache!Snapshots /\ Cache!NoneOlder(known, known')
<1>1. known' \in Cache!Snapshots
  BY DEF Cache!Learn
<1>2. \A k \in ConfigMaps : known[k].rv \in Nat /\ known'[k].rv \in Nat
  BY <1>1, RevisionType
<1>3. \A k \in ConfigMaps : known'[k] = known[k] \/ known[k].rv < known'[k].rv
  BY DEF Cache!Learn
<1> QED
  BY <1>1, <1>2, <1>3 DEF Cache!NoneOlder

ControllerMoves == Cache!Learn \/ Cache!Synced \/ Cache!Take \/ Cache!Publish \/ Cache!Open

\* Server's steps take one of RuleCache's or leave its variables alone.
LEMMA ControllerOrNot == [Next]_vars => ControllerMoves \/ UNCHANGED ruleVars
BY DEF Next, vars, ControllerMoves, ControllerStep, MainStep, SyncDone, SyncFails, FirstRebuild,
       StartServer, ShutDown, ListenerError, ShutdownDone, ShutdownFails, Signal,
       ListenerStep, Listen, ListenFails, ListenerClosed, IdleClosed, Accept, Serve,
       Judge, Record, RecordDenial, Answer, Exit

-----------------------------------------------------------------------------
(* Types                                                                   *)

LEMMA RuleTypes ==
    ASSUME TypeOK, ControllerMoves \/ UNCHANGED ruleVars
    PROVE  /\ known' \in Cache!Snapshots /\ reflected' \in Cache!Snapshots
           /\ taken' \subseteq Cache!Snapshots
           /\ rules' \subseteq ConfigMaps \X Rules
           /\ stage' \in Cache!Stages
<1> USE DEF TypeOK, Cache!Stages
<1>1. CASE Cache!Learn
  BY <1>1 DEF Cache!Learn
<1>2. CASE Cache!Synced \/ Cache!Open
  BY <1>2 DEF Cache!Synced, Cache!Open
<1>3. CASE Cache!Take
  BY <1>3 DEF Cache!Take
<1>4. CASE Cache!Publish
  BY <1>4, RulesOfType DEF Cache!Publish
<1>5. CASE UNCHANGED ruleVars
  BY <1>5 DEF ruleVars
<1> QED
  BY <1>1, <1>2, <1>3, <1>4, <1>5 DEF ControllerMoves

LEMMA NewRegistryType == IsRegistry(NewRegistry)
BY BucketsIsNatural DEF IsRegistry, NewRegistry, IsCounter, NoSamples

LEMMA CounterType ==
    ASSUME NEW counter, IsCounter(counter), NEW labels
    PROVE  IsCounter(incrementCounter(counter, labels))
<1>1. Sample(counter, labels) \in Nat
  BY DEF Sample, IsCounter
<1> QED
  BY <1>1 DEF incrementCounter, IsCounter

LEMMA RecordedType ==
    ASSUME IsRegistry(registry), NEW namespace, NEW result, NEW duration
    PROVE  IsRegistry(RecordAdmission(registry, namespace, result, duration))
<1> DEFINE labels == AdmissionLabels(namespace, result)
           recorded == RecordAdmission(registry, namespace, result, duration)
           counted(i) == IF duration <= i THEN registry.durationBuckets[i] + 1
                         ELSE registry.durationBuckets[i]
<1>1. ASSUME NEW i \in 1 .. Buckets PROVE counted(i) \in Nat
  <2>1. registry.durationBuckets[i] \in Nat
    BY DEF IsRegistry
  <2> QED
    BY <2>1
<1>2. IsCounter(incrementCounter(registry.admissionRequests, labels))
  BY CounterType DEF IsRegistry
<1>3. DOMAIN registry = DOMAIN NewRegistry
  BY DEF IsRegistry
<1>4. /\ recorded.admissionRequests = incrementCounter(registry.admissionRequests, labels)
      /\ recorded.violations = registry.violations
      /\ recorded.durationCount = registry.durationCount + 1
      /\ recorded.durationBuckets = [i \in 1 .. Buckets |-> counted(i)]
  BY <1>3 DEF RecordAdmission, NewRegistry
<1>5. recorded = [field \in DOMAIN NewRegistry |-> recorded[field]]
  BY <1>3 DEF RecordAdmission
<1>6. IsCounter(registry.violations) /\ registry.durationCount + 1 \in Nat
  BY DEF IsRegistry
<1>7. [i \in 1 .. Buckets |-> counted(i)] \in [1 .. Buckets -> Nat]
  <2> HIDE DEF counted
  <2> QED
    BY <1>1
<1> HIDE DEF recorded, counted
<1>8. IsRegistry(recorded)
  BY <1>2, <1>4, <1>5, <1>6, <1>7 DEF IsRegistry
<1> QED
  BY <1>8 DEF recorded

LEMMA ReportedType ==
    ASSUME IsRegistry(registry), NEW namespace, NEW mode
    PROVE  IsRegistry(RecordViolation(registry, namespace, mode))
<1> DEFINE labels == ViolationLabels(namespace, mode)
           reported == RecordViolation(registry, namespace, mode)
<1>1. IsCounter(incrementCounter(registry.violations, labels))
  BY CounterType DEF IsRegistry
<1>2. DOMAIN registry = DOMAIN NewRegistry
  BY DEF IsRegistry
<1>3. /\ reported.admissionRequests = registry.admissionRequests
      /\ reported.violations = incrementCounter(registry.violations, labels)
      /\ reported.durationCount = registry.durationCount
      /\ reported.durationBuckets = registry.durationBuckets
  BY <1>2 DEF RecordViolation, NewRegistry
<1>4. reported = [field \in DOMAIN NewRegistry |-> reported[field]]
  BY <1>2 DEF RecordViolation
<1> QED
  BY <1>1, <1>3, <1>4 DEF IsRegistry

LEMMA TypeInit == Init => TypeOK
<1> SUFFICES ASSUME Init PROVE TypeOK
  OBVIOUS
<1>1. /\ known \in Cache!Snapshots /\ reflected \in Cache!Snapshots
      /\ initialRules \in Cache!Snapshots
      /\ basis \in [Requests -> Cache!Snapshots]
  BY NothingKnownType DEF Init, Cache!Init
<1>2. /\ taken \subseteq Cache!Snapshots /\ rules \subseteq ConfigMaps \X Rules
      /\ stage \in Cache!Stages
  BY DEF Init, Cache!Init, Cache!Stages
<1>3. phase \in [Requests -> Phases] /\ denied \in [Requests -> BOOLEAN]
  BY DEF Init, Phases
<1>4. idle \in Nat /\ signalled \in BOOLEAN
  BY DEF Init
<1>5. errCh \in Seq({"nil", "error"})
  BY DEF Init
<1>6. IsRegistry(registry)
  BY NewRegistryType DEF Init
<1> QED
  BY <1>1, <1>2, <1>3, <1>4, <1>5, <1>6 DEF Init, TypeOK

LEMMA TypeStep == TypeOK /\ [Next]_vars => TypeOK'
<1> SUFFICES ASSUME TypeOK, [Next]_vars PROVE TypeOK'
  OBVIOUS
<1> USE DEF TypeOK
<1>1. /\ known' \in Cache!Snapshots /\ reflected' \in Cache!Snapshots
      /\ taken' \subseteq Cache!Snapshots
      /\ rules' \subseteq ConfigMaps \X Rules
      /\ stage' \in Cache!Stages
  BY ControllerOrNot, RuleTypes
<1>2. CASE ControllerStep \/ FirstRebuild
  BY <1>1, <1>2 DEF ControllerStep, FirstRebuild, mainVars, httpVars, requestVars
<1>3. CASE SyncDone
  BY <1>1, <1>3 DEF SyncDone, mainVars, httpVars, requestVars
<1>4. ASSUME NEW code \in {0, 1}, Exit(code) PROVE TypeOK'
  <2>1. phase' \in [Requests -> Phases]
    BY <1>4 DEF Exit, Phases
  <2> QED
    BY <1>1, <1>4, <2>1 DEF Exit
<1>5. CASE SyncFails \/ ListenerError \/ ShutdownDone \/ ShutdownFails
  BY <1>4, <1>5 DEF SyncFails, ListenerError, ShutdownDone, ShutdownFails
<1>6. CASE StartServer
  BY <1>1, <1>6 DEF StartServer, requestVars
<1>7. CASE ShutDown \/ Signal
  BY <1>1, <1>7 DEF ShutDown, Signal, httpVars, requestVars
<1>8. CASE ListenerStep
  <2>1. errCh' \in {errCh, Append(errCh, "error"), Append(errCh, "nil")}
    BY <1>8 DEF ListenerStep, Listen, ListenFails, ListenerClosed
  <2>2. ASSUME NEW result \in {"nil", "error"}
        PROVE  Append(errCh, result) \in Seq({"nil", "error"})
    BY AppendProperties
  <2>3. errCh' \in Seq({"nil", "error"})
    BY <2>1, <2>2
  <2>4. listener' \in {"off", "opening", "open"}
    BY <1>8 DEF ListenerStep, Listen, ListenFails, ListenerClosed
  <2> QED
    BY <1>1, <1>8, <2>3, <2>4
    DEF ListenerStep, Listen, ListenFails, ListenerClosed, mainVars, requestVars
<1>9. CASE IdleClosed
  BY <1>1, <1>9 DEF IdleClosed, mainVars, requestVars
<1>10. ASSUME NEW r \in Requests, Accept(r) PROVE TypeOK'
  BY <1>1, <1>10 DEF Accept, mainVars, Phases
<1>11. ASSUME NEW r \in Requests, Judge(r) PROVE TypeOK'
  BY <1>1, <1>11 DEF Judge, mainVars, httpVars, Phases
<1>12. ASSUME NEW r \in Requests, Answer(r) PROVE TypeOK'
  BY <1>1, <1>12 DEF Answer, mainVars, Phases
<1>13. ASSUME NEW r \in Requests, RecordDenial(r) \/ \E duration \in Durations : Record(r, duration)
       PROVE  TypeOK'
  <2>1. IsRegistry(registry')
    BY <1>13, RecordedType, ReportedType DEF RecordDenial, Record
  <2> QED
    BY <1>1, <1>13, <2>1 DEF RecordDenial, Record, mainVars, httpVars, Phases
<1>14. CASE UNCHANGED vars
  BY <1>14 DEF vars, ruleVars, mainVars, httpVars, requestVars
<1> QED
  BY <1>2, <1>3, <1>5, <1>6, <1>7, <1>8, <1>9, <1>10, <1>11, <1>12, <1>13, <1>14
  DEF Next, MainStep, Serve

\* Every state of the process is one its declarations allow.
THEOREM ServerTypeCorrect == Spec => []TypeOK
BY TypeInit, TypeStep, PTL DEF Spec

-----------------------------------------------------------------------------
(* The inductive invariant, part by part                                   *)

\* What the steps of RuleCache do to the order of snapshots.
LEMMA OrderOfSnapshots ==
    ASSUME TypeOK, OrderInv, ControllerMoves
    PROVE  /\ Cache!NoneOlder(reflected', known')
           /\ \A snapshot \in taken' :
                 Cache!NoneOlder(reflected', snapshot) /\ Cache!NoneOlder(snapshot, known')
           /\ \A s, t \in taken' : s = t
           /\ Cache!NoneOlder(reflected, reflected')
<1> USE DEF TypeOK, OrderInv
<1>1. CASE Cache!Learn
  <2>1. known' \in Cache!Snapshots /\ Cache!NoneOlder(known, known')
    BY <1>1, LearnGrows
  <2>2. UNCHANGED <<taken, reflected>>
    BY <1>1 DEF Cache!Learn
  <2> QED
    BY <2>1, <2>2, NoneOlderOrder
<1>2. CASE Cache!Synced \/ Cache!Open
  <2>1. UNCHANGED <<known, taken, reflected>>
    BY <1>2 DEF Cache!Synced, Cache!Open
  <2> QED
    BY <2>1, NoneOlderOrder
<1>3. CASE Cache!Take
  <2>1. taken' = {known} /\ UNCHANGED <<known, reflected>>
    BY <1>3 DEF Cache!Take
  <2> QED
    BY <2>1, NoneOlderOrder
<1>4. CASE Cache!Publish
  <2>1. PICK snapshot \in taken : reflected' = snapshot /\ taken' = taken \ {snapshot}
    BY <1>4 DEF Cache!Publish
  <2>2. taken' = {} /\ known' = known
    BY <1>4, <2>1 DEF Cache!Publish
  <2> QED
    BY <2>1, <2>2, NoneOlderOrder
<1> QED
  BY <1>1, <1>2, <1>3, <1>4 DEF ControllerMoves

\* Only Judge makes a request a judged one, and it gives it what is published.
LEMMA JudgedByReflected ==
    ASSUME TypeOK, [Next]_vars, NEW r \in Requests, Judged(r)'
    PROVE  \/ Judged(r) /\ basis'[r] = basis[r] /\ UNCHANGED initialRules
           \/ Judged(r) /\ basis'[r] = basis[r] /\ main = "starting"
           \/ phase[r] = "accepted" /\ basis'[r] = reflected /\ UNCHANGED <<ruleVars, initialRules>>
<1> USE DEF TypeOK, Judged, Recorded
<1>1. ASSUME NEW q \in Requests, Judge(q)
      PROVE  \/ Judged(r) /\ basis'[r] = basis[r] /\ UNCHANGED initialRules
             \/ phase[r] = "accepted" /\ basis'[r] = reflected /\ UNCHANGED <<ruleVars, initialRules>>
  BY <1>1 DEF Judge
<1>2. ASSUME NEW q \in Requests,
             Accept(q) \/ Answer(q) \/ RecordDenial(q) \/ \E d \in Durations : Record(q, d)
      PROVE  Judged(r) /\ basis'[r] = basis[r] /\ UNCHANGED initialRules
  BY <1>2 DEF Accept, Answer, RecordDenial, Record
<1>3. ASSUME NEW code \in {0, 1}, Exit(code)
      PROVE  Judged(r) /\ basis'[r] = basis[r] /\ UNCHANGED initialRules
  BY <1>3 DEF Exit
<1>4. CASE SyncDone
  BY <1>4 DEF SyncDone, requestVars
<1>5. CASE UNCHANGED <<requestVars, initialRules>>
  BY <1>5 DEF requestVars
<1> QED
  BY <1>1, <1>2, <1>3, <1>4, <1>5
  DEF Next, MainStep, ControllerStep, FirstRebuild, SyncFails, StartServer, ShutDown, ListenerError,
      ShutdownDone, ShutdownFails, Signal, ListenerStep, Listen, ListenFails, ListenerClosed,
      IdleClosed, Serve, vars

LEMMA OrderStep == TypeOK /\ OrderInv /\ [Next]_vars => OrderInv'
<1> SUFFICES ASSUME TypeOK, OrderInv, [Next]_vars PROVE OrderInv'
  OBVIOUS
<1>1. /\ Cache!NoneOlder(reflected', known')
      /\ \A snapshot \in taken' :
            Cache!NoneOlder(reflected', snapshot) /\ Cache!NoneOlder(snapshot, known')
      /\ \A s, t \in taken' : s = t
      /\ Cache!NoneOlder(reflected, reflected')
  <2>1. CASE ControllerMoves
    BY <2>1, OrderOfSnapshots
  <2>2. CASE UNCHANGED ruleVars
    BY <2>2, NoneOlderOrder DEF ruleVars, OrderInv, TypeOK
  <2> QED
    BY <2>1, <2>2, ControllerOrNot
<1>2. ASSUME NEW r \in Requests, Judged(r)' PROVE Cache!NoneOlder(basis'[r], reflected')
  <2>1. reflected \in Cache!Snapshots /\ reflected' \in Cache!Snapshots /\ basis[r] \in Cache!Snapshots
    BY ControllerOrNot, RuleTypes DEF TypeOK
  <2>2. CASE Judged(r) /\ basis'[r] = basis[r]
    BY <1>1, <2>1, <2>2, NoneOlderOrder DEF OrderInv
  <2>3. CASE basis'[r] = reflected
    BY <1>1, <2>3
  <2> QED
    BY <1>2, <2>2, <2>3, JudgedByReflected
<1>3. Cache!NoneOlder(reflected, known)'
  BY <1>1 DEF Cache!NoneOlder
<1>4. \A snapshot \in taken' :
         Cache!NoneOlder(reflected, snapshot)' /\ Cache!NoneOlder(snapshot, known)'
  BY <1>1 DEF Cache!NoneOlder
<1>5. \A r \in Requests : Judged(r)' => Cache!NoneOlder(basis[r], reflected)'
  BY <1>2 DEF Cache!NoneOlder
<1> QED
  BY <1>1, <1>3, <1>4, <1>5 DEF OrderInv

LEMMA StartStep == TypeOK /\ OrderInv /\ StartInv /\ ServeInv /\ [Next]_vars => StartInv'
<1> SUFFICES ASSUME TypeOK, OrderInv, StartInv, ServeInv, [Next]_vars PROVE StartInv'
  OBVIOUS
<1> USE DEF StartInv
<1>1. CASE SyncDone
  <2>1. initialRules' = known /\ stage' = "loading" /\ taken' = {} /\ known' = known
    BY <1>1 DEF SyncDone, Cache!Synced
  <2>2. Cache!NoneOlder(known, known)
    BY NoneOlderOrder DEF TypeOK
  <2>3. Cache!NoneOlder(initialRules', known')
    BY <2>1, <2>2 DEF Cache!NoneOlder
  <2> QED
    BY <2>1, <2>3 DEF Cache!NoneOlder
<1>2. ASSUME UNCHANGED initialRules, ControllerMoves, ~Cache!Synced PROVE StartInv'
  <2> USE DEF TypeOK
  <2>1. CASE Cache!Learn
    <3>1. known' \in Cache!Snapshots /\ Cache!NoneOlder(known, known')
      BY <2>1, LearnGrows
    <3>2. stage # "syncing" => Cache!NoneOlder(initialRules, known')
      BY <3>1, NoneOlderOrder
    <3> QED
      BY <1>2, <2>1, <3>2 DEF Cache!Learn, Cache!NoneOlder
  <2>2. CASE Cache!Take
    BY <1>2, <2>2 DEF Cache!Take, Cache!NoneOlder
  <2>3. CASE Cache!Publish
    <3>1. PICK snapshot \in taken : reflected' = snapshot /\ taken' = taken \ {snapshot}
      BY <2>3 DEF Cache!Publish
    <3>2. taken' = {} /\ known' = known /\ (stage' = "syncing" <=> stage = "syncing")
      BY <2>3, <3>1 DEF Cache!Publish, OrderInv
    <3>3. Cache!NoneOlder(initialRules, reflected')
      BY <3>1
    <3> QED
      BY <1>2, <3>2, <3>3 DEF Cache!NoneOlder
  <2>4. CASE Cache!Open
    BY <1>2, <2>4 DEF Cache!Open, Cache!NoneOlder
  <2> QED
    BY <1>2, <2>1, <2>2, <2>3, <2>4 DEF ControllerMoves
<1>3. CASE UNCHANGED <<ruleVars, initialRules>>
  BY <1>3 DEF ruleVars, Cache!NoneOlder
<1>4. SyncDone \/ UNCHANGED initialRules
  BY DEF Next, vars, MainStep, ControllerStep, SyncFails, FirstRebuild, StartServer, ShutDown,
     ListenerError, ShutdownDone, ShutdownFails, Signal, ListenerStep, Listen, ListenFails,
     ListenerClosed, IdleClosed, Accept, Serve, Judge, Record, RecordDenial, Answer, Exit
<1>5. SyncDone \/ ~Cache!Synced \/ UNCHANGED ruleVars
  BY DEF Next, vars, MainStep, ControllerStep, SyncFails, FirstRebuild, StartServer, ShutDown,
     ListenerError, ShutdownDone, ShutdownFails, Signal, ListenerStep, Listen, ListenFails,
     ListenerClosed, IdleClosed, Accept, Serve, Judge, Record, RecordDenial, Answer, Exit,
     Cache!Learn, Cache!Take, Cache!Publish, Cache!Open, Cache!Synced
<1> QED
  BY <1>1, <1>2, <1>3, <1>4, <1>5, ControllerOrNot

LEMMA JudgeStep == IInv /\ [Next]_vars => InitialRulesJudge'
<1> SUFFICES ASSUME IInv, [Next]_vars, NEW r \in Requests, Judged(r)'
             PROVE  Cache!NoneOlder(initialRules', basis'[r])
  BY DEF InitialRulesJudge, Cache!NoneOlder
<1> USE DEF IInv
<1>1. CASE Judged(r) /\ basis'[r] = basis[r] /\ UNCHANGED initialRules
  BY <1>1 DEF InitialRulesJudge
<1>2. CASE Judged(r) /\ main = "starting"
  BY <1>2 DEF ServeInv, Judged, Recorded
<1>3. CASE phase[r] = "accepted" /\ basis'[r] = reflected /\ UNCHANGED initialRules
  BY <1>3 DEF ServeInv, StartInv
<1> QED
  BY <1>1, <1>2, <1>3, JudgedByReflected

LEMMA ErrChStep == TypeOK /\ ServeInv /\ ErrChNeverFull /\ [Next]_vars => ErrChNeverFull'
<1> SUFFICES ASSUME TypeOK, ServeInv, ErrChNeverFull, [Next]_vars PROVE ErrChNeverFull'
  OBVIOUS
<1> USE DEF ErrChNeverFull, TypeOK
<1>1. CASE ListenFails \/ ListenerClosed
  BY <1>1 DEF ListenFails, ListenerClosed
<1>2. CASE StartServer
  BY <1>2 DEF StartServer, ServeInv
<1>3. CASE errCh' = errCh /\ (listener' # "off" => listener # "off")
  BY <1>3
<1> QED
  BY <1>1, <1>2, <1>3
  DEF Next, vars, MainStep, ControllerStep, SyncDone, SyncFails, FirstRebuild, ShutDown,
      ListenerError, ShutdownDone, ShutdownFails, Signal, ListenerStep, Listen,
      IdleClosed, Accept, Serve, Judge, Record, RecordDenial, Answer, Exit, httpVars

LEMMA ServeStep == TypeOK /\ ServeInv /\ [Next]_vars => ServeInv'
<1> SUFFICES ASSUME TypeOK, ServeInv, [Next]_vars PROVE ServeInv'
  OBVIOUS
<1> USE DEF TypeOK, ServeInv
<1>1. CASE ControllerStep \/ FirstRebuild
  <2>1. stage = "serving" => stage' = "serving"
    BY <1>1 DEF ControllerStep, FirstRebuild, Cache!Learn, Cache!Take, Cache!Publish
  <2> QED
    BY <1>1, <2>1 DEF ControllerStep, FirstRebuild, mainVars, httpVars, requestVars
<1>2. CASE SyncDone
  BY <1>2 DEF SyncDone, Cache!Synced, mainVars, httpVars, requestVars
<1>3. ASSUME NEW code \in {0, 1}, Exit(code) PROVE ServeInv'
  <2>1. \A r \in Requests : phase'[r] # "new" => phase[r] # "new"
    BY <1>3 DEF Exit, InFlight
  <2>2. stage' = stage /\ main' = "exited"
    BY <1>3 DEF Exit, ruleVars
  <2> QED
    BY <2>1, <2>2
<1>4. CASE SyncFails \/ ListenerError \/ ShutdownDone \/ ShutdownFails
  BY <1>3, <1>4 DEF SyncFails, ListenerError, ShutdownDone, ShutdownFails
<1>5. CASE StartServer
  BY <1>5 DEF StartServer, Cache!Open, requestVars
<1>6. CASE ShutDown
  BY <1>6 DEF ShutDown, ruleVars, httpVars, requestVars
<1>7. CASE Signal
  BY <1>7 DEF Signal, ruleVars, httpVars, requestVars
<1>8. CASE ListenFails
  <2>1. \A i \in DOMAIN errCh' : (i \in DOMAIN errCh /\ errCh'[i] = errCh[i]) \/ errCh'[i] = "error"
    BY <1>8 DEF ListenFails
  <2> QED
    BY <1>8, <2>1 DEF ListenFails, ruleVars, mainVars, requestVars
<1>9. CASE Listen \/ ListenerClosed
  BY <1>9 DEF Listen, ListenerClosed, ruleVars, mainVars, requestVars
<1>10. CASE IdleClosed
  BY <1>10 DEF IdleClosed, ruleVars, mainVars, requestVars
<1>11. ASSUME NEW r \in Requests, Accept(r) PROVE ServeInv'
  <2>1. main \in {"select", "shutting"}
    BY <1>11 DEF Accept, Running
  <2> QED
    BY <1>11, <2>1 DEF Accept, ruleVars, mainVars
<1>12. ASSUME NEW r \in Requests, Judge(r) PROVE ServeInv'
  BY <1>12 DEF Judge, ruleVars, mainVars, httpVars
<1>13. ASSUME NEW r \in Requests, NEW duration \in Durations, Record(r, duration) PROVE ServeInv'
  BY <1>13 DEF Record, ruleVars, mainVars, httpVars
<1>14. ASSUME NEW r \in Requests, RecordDenial(r) PROVE ServeInv'
  BY <1>14 DEF RecordDenial, ruleVars, mainVars, httpVars
<1>15. ASSUME NEW r \in Requests, Answer(r) PROVE ServeInv'
  BY <1>15 DEF Answer, ruleVars, mainVars
<1>16. CASE UNCHANGED vars
  BY <1>16 DEF vars, ruleVars, mainVars, httpVars, requestVars
<1> QED
  BY <1>1, <1>2, <1>4, <1>5, <1>6, <1>7, <1>8, <1>9, <1>10, <1>11, <1>12, <1>13, <1>14, <1>15, <1>16
  DEF Next, MainStep, ListenerStep, Serve

LEMMA ExitStep == IInv /\ [Next]_vars => ExitStatusIsTrue'
<1> SUFFICES ASSUME IInv, [Next]_vars, main' = "exited" PROVE ExitStatusIsTrue'
  BY DEF ExitStatusIsTrue
<1> USE DEF IInv, TypeOK, ServeInv, ExitStatusIsTrue
<1>1. CASE SyncFails
  <2>1. \A r \in Requests : phase[r] = "new"
    BY <1>1 DEF SyncFails
  <2> QED
    BY <1>1, <2>1 DEF SyncFails, Exit, ruleVars, InFlight
<1>2. CASE ListenerError
  <2>1. 1 \in DOMAIN errCh /\ errCh[1] = "error"
    BY <1>2 DEF ListenerError
  <2> QED
    BY <1>2, <2>1 DEF ListenerError, Exit
<1>3. CASE ShutdownDone
  <2>1. \A r \in Requests : phase[r] \in {"new", "answered"}
    BY <1>3 DEF ShutdownDone, NoRequestInFlight, InFlight, Phases
  <2> QED
    BY <1>3, <2>1 DEF ShutdownDone, Exit, InFlight
<1>4. CASE ShutdownFails
  BY <1>4 DEF ShutdownFails, Exit
<1>5. ASSUME main = "exited", UNCHANGED <<status, signalled, errCh, stage, phase>>
      PROVE  ExitStatusIsTrue'
  BY <1>5
<1>6. CASE ControllerStep \/ SyncDone \/ FirstRebuild \/ StartServer \/ ShutDown \/ Signal \/ ListenerStep
  BY <1>6 DEF ControllerStep, SyncDone, FirstRebuild, StartServer, ShutDown, Signal, ListenerStep,
     Listen, ListenFails, ListenerClosed, Running, mainVars
<1>7. CASE IdleClosed
  BY <1>5, <1>7 DEF IdleClosed, mainVars, requestVars, ruleVars
<1>8. ASSUME NEW r \in Requests, Accept(r) PROVE FALSE
  BY <1>8 DEF Accept, Running, mainVars
<1>9. ASSUME NEW r \in Requests, Serve(r) PROVE ExitStatusIsTrue'
  <2>1. main = "exited" /\ UNCHANGED <<status, signalled, errCh, stage>>
    BY <1>9 DEF Serve, Judge, Record, RecordDenial, Answer, mainVars, httpVars, ruleVars
  <2>2. phase[r] \in InFlight /\ \A q \in Requests \ {r} : phase'[q] = phase[q]
    BY <1>9 DEF Serve, Judge, Record, RecordDenial, Answer, InFlight
  <2>3. phase[r] \notin {"new", "answered", "cut"}
    BY <2>2 DEF InFlight
  <2> QED
    BY <2>1, <2>2, <2>3
<1>10. CASE UNCHANGED vars
  BY <1>5, <1>10 DEF vars, mainVars, httpVars, requestVars, ruleVars
<1> QED
  BY <1>1, <1>2, <1>3, <1>4, <1>6, <1>7, <1>8, <1>9, <1>10 DEF Next, MainStep

LEMMA IInvInit == Init => IInv
<1> SUFFICES ASSUME Init PROVE IInv
  OBVIOUS
<1>1. TypeOK
  BY TypeInit
<1>2. OrderInv
  BY <1>1, NoneOlderOrder DEF Init, Cache!Init, OrderInv, Judged, Recorded, TypeOK
<1>3. StartInv
  BY DEF Init, Cache!Init, StartInv
<1>4. ServeInv
  BY DEF Init, ServeInv
<1>5. InitialRulesJudge /\ ExitStatusIsTrue
  BY DEF Init, InitialRulesJudge, ExitStatusIsTrue, Judged, Recorded
<1>6. ErrChNeverFull
  BY DEF Init, ErrChNeverFull
<1> QED
  BY <1>1, <1>2, <1>3, <1>4, <1>5, <1>6 DEF IInv

LEMMA IInvAlways == Spec => []IInv
<1>1. IInv /\ [Next]_vars => IInv'
  BY TypeStep, OrderStep, StartStep, ServeStep, JudgeStep, ErrChStep, ExitStep DEF IInv
<1> QED
  BY <1>1, IInvInit, PTL DEF Spec

-----------------------------------------------------------------------------
(* Theorems                                                                *)

\* No request is judged before the rules of the synced cache are published.
THEOREM JudgedByInitialRules == Spec => []InitialRulesJudge
BY IInvAlways, PTL DEF IInv

\* The listener's goroutine never blocks on errCh.
THEOREM ListenerNeverStuck == Spec => []ErrChNeverFull
BY IInvAlways, PTL DEF IInv

\* A status of 0 tells that every accepted request was answered, and one of 1 has
\* its cause in Start, in the listener or after a signal.
THEOREM ExitStatusCorrect == Spec => []ExitStatusIsTrue
BY IInvAlways, PTL DEF IInv

\* A later verdict is never by older rules than an earlier one.
THEOREM VerdictsNeverGoBack == Spec => RulesNeverGoBack
<1> DEFINE Forward ==
        \A q, r \in Requests :
            Judged(q) /\ phase[r] = "accepted" /\ phase'[r] = "judged" =>
                Cache!NoneOlder(basis[q], basis'[r])
<1>1. IInv /\ [Next]_vars => [Forward]_vars
  <2> SUFFICES ASSUME IInv, [Next]_vars, NEW q \in Requests, NEW r \in Requests,
                      Judged(q), phase[r] = "accepted", phase'[r] = "judged"
               PROVE  Cache!NoneOlder(basis[q], basis'[r])
    BY DEF Forward
  <2>1. ~Judged(r) /\ Judged(r)'
    BY DEF Judged, Recorded
  <2>2. basis'[r] = reflected
    BY <2>1, JudgedByReflected DEF IInv
  <2> QED
    BY <2>2 DEF IInv, OrderInv
<1> QED
  BY <1>1, IInvAlways, PTL DEF Spec, RulesNeverGoBack

-----------------------------------------------------------------------------
(* The registry                                                            *)

\* ScrapeAddsUp as the registry holds it.
RegistryInv ==
    /\ registry.durationCount = Cardinality(RecordedRequests)
    /\ DOMAIN registry.admissionRequests = {RequestLabels(r) : r \in RecordedRequests}
    /\ \A labels \in AllRequestLabels :
          Sample(registry.admissionRequests, labels) = Cardinality(RecordedUnder(labels))
    /\ DOMAIN registry.violations = {DenialLabels(r) : r \in ReportedDenials}
    /\ \A labels \in AllDenialLabels :
          Sample(registry.violations, labels) = Cardinality(ReportedUnder(labels))

\* The registry keeps its fields, and only a denied request reports a violation.
ScrapeInv ==
    /\ DOMAIN registry = {"admissionRequests", "violations", "durationCount", "durationBuckets"}
    /\ \A r \in Requests : phase[r] = "violation" => denied[r]
    /\ Running => RegistryInv

\* What a scrape shows of the registry beside the buckets.
LEMMA RenderShows ==
    /\ render(registry).count = registry.durationCount
    /\ render(registry).infinity = registry.durationCount
    /\ render(registry).admissionRequests = registry.admissionRequests
    /\ render(registry).violations = registry.violations
BY DEF render

LEMMA RegistryScrape == ScrapeInv => ScrapeAddsUp
BY RenderShows DEF ScrapeInv, RegistryInv, ScrapeAddsUp

\* incrementCounter adds one to one sample, which it makes if need be.
LEMMA OneMore ==
    \A counter, labels :
        /\ DOMAIN incrementCounter(counter, labels) = DOMAIN counter \cup {labels}
        /\ Sample(incrementCounter(counter, labels), labels) = Sample(counter, labels) + 1
        /\ \A other : other # labels =>
              Sample(incrementCounter(counter, labels), other) = Sample(counter, other)
BY DEF incrementCounter, Sample

LEMMA CountsAreNatural ==
    /\ IsFiniteSet(RecordedRequests) /\ Cardinality(RecordedRequests) \in Nat
    /\ \A labels : IsFiniteSet(RecordedUnder(labels)) /\ IsFiniteSet(ReportedUnder(labels))
<1>1. RecordedRequests \in SUBSET Requests
  BY DEF RecordedRequests
<1>2. \A labels : RecordedUnder(labels) \in SUBSET Requests /\ ReportedUnder(labels) \in SUBSET Requests
  BY DEF RecordedUnder, ReportedUnder, RecordedRequests, ReportedDenials
<1>3. ASSUME NEW S \in SUBSET Requests PROVE IsFiniteSet(S)
  BY RequestsAreFinite, FS_Subset
<1> QED
  BY <1>1, <1>2, <1>3, FS_CardinalityType

\* What is counted does not change when nobody becomes recorded or reported.
LEMMA NothingCounted ==
    ASSUME ScrapeInv, Running, UNCHANGED registry,
           \A r \in Requests : /\ Recorded(r)' <=> Recorded(r)
                               /\ r \in ReportedDenials' <=> r \in ReportedDenials
                               /\ Recorded(r) => denied'[r] = denied[r]
    PROVE  RegistryInv'
<1>1. RecordedRequests' = RecordedRequests
  BY DEF RecordedRequests
<1>2. ReportedDenials' = ReportedDenials
  BY DEF ReportedDenials
<1>3. \A r \in RecordedRequests : RequestLabels(r)' = RequestLabels(r)
  BY DEF RecordedRequests, RequestLabels, Result
<1>4. \A labels : RecordedUnder(labels)' = RecordedUnder(labels)
  BY <1>1, <1>3 DEF RecordedUnder
<1>5. \A labels : ReportedUnder(labels)' = ReportedUnder(labels)
  BY <1>2 DEF ReportedUnder, DenialLabels
<1>6. {RequestLabels(r) : r \in RecordedRequests}' = {RequestLabels(r) : r \in RecordedRequests}
  BY <1>1, <1>3
<1>7. {DenialLabels(r) : r \in ReportedDenials}' = {DenialLabels(r) : r \in ReportedDenials}
  BY <1>2 DEF DenialLabels
<1>8. AllRequestLabels' = AllRequestLabels /\ AllDenialLabels' = AllDenialLabels
  BY DEF AllRequestLabels, AllDenialLabels, DenialLabels
<1> QED
  BY <1>1, <1>4, <1>5, <1>6, <1>7, <1>8 DEF ScrapeInv, RegistryInv

\* Record counts one more request, under its labels.
LEMMA RecordCounts ==
    ASSUME TypeOK, ScrapeInv, Running, NEW r \in Requests, NEW duration, Record(r, duration)
    PROVE  RegistryInv'
<1> DEFINE l == RequestLabels(r)
<1>1. /\ registry'.durationCount = registry.durationCount + 1
      /\ registry'.admissionRequests = incrementCounter(registry.admissionRequests, l)
      /\ registry'.violations = registry.violations
  BY DEF Record, RecordAdmission, RequestLabels, ScrapeInv
<1>2. denied' = denied /\ ~Recorded(r) /\ Recorded(r)'
      /\ \A q \in Requests \ {r} : phase'[q] = phase[q]
  BY DEF Record, Recorded, TypeOK
<1>3. RecordedRequests' = RecordedRequests \cup {r} /\ r \notin RecordedRequests
  BY <1>2 DEF RecordedRequests, Recorded
<1>4. \A q \in Requests : RequestLabels(q)' = RequestLabels(q)
  BY <1>2 DEF RequestLabels, Result
<1>5. ReportedDenials' = ReportedDenials
  BY <1>2 DEF ReportedDenials, Record, TypeOK
<1>6. \A labels : RecordedUnder(labels)' =
          IF labels = l THEN RecordedUnder(labels) \cup {r} ELSE RecordedUnder(labels)
  BY <1>3, <1>4 DEF RecordedUnder, RecordedRequests
<1>7. r \notin RecordedUnder(l)
  BY <1>3 DEF RecordedUnder
<1>8. Cardinality(RecordedRequests)' = Cardinality(RecordedRequests) + 1
  BY <1>3, CountsAreNatural, FS_AddElement
<1>9. Cardinality(RecordedUnder(l) \cup {r}) = Cardinality(RecordedUnder(l)) + 1
  BY <1>7, CountsAreNatural, FS_AddElement
<1>10. {RequestLabels(q) : q \in RecordedRequests}' = {RequestLabels(q) : q \in RecordedRequests} \cup {l}
  BY <1>3, <1>4 DEF RecordedRequests
<1>11. \A labels : ReportedUnder(labels)' = ReportedUnder(labels)
  BY <1>5 DEF ReportedUnder, DenialLabels
<1>12. {DenialLabels(q) : q \in ReportedDenials}' = {DenialLabels(q) : q \in ReportedDenials}
  BY <1>5 DEF DenialLabels
<1>13. AllRequestLabels' = AllRequestLabels /\ AllDenialLabels' = AllDenialLabels
  BY DEF AllRequestLabels, AllDenialLabels, DenialLabels
<1>14. l \in AllRequestLabels
  BY DEF AllRequestLabels, RequestLabels, Result
<1> HIDE DEF l
<1>0. /\ DOMAIN registry'.admissionRequests = DOMAIN registry.admissionRequests \cup {l}
      /\ Sample(registry'.admissionRequests, l) = Sample(registry.admissionRequests, l) + 1
      /\ \A other : other # l =>
            Sample(registry'.admissionRequests, other) = Sample(registry.admissionRequests, other)
  <2>1. /\ DOMAIN incrementCounter(registry.admissionRequests, l) = DOMAIN registry.admissionRequests \cup {l}
        /\ Sample(incrementCounter(registry.admissionRequests, l), l) = Sample(registry.admissionRequests, l) + 1
        /\ \A other : other # l =>
              Sample(incrementCounter(registry.admissionRequests, l), other) = Sample(registry.admissionRequests, other)
    BY OneMore, Zenon
  <2> QED
    BY <1>1, <2>1, Zenon
<1>15. ASSUME NEW labels \in AllRequestLabels
       PROVE  Sample(registry'.admissionRequests, labels) = Cardinality(RecordedUnder(labels))'
  <2>1. CASE labels = l
    BY <1>1, <1>6, <1>9, <1>14, <2>1, <1>0 DEF ScrapeInv, RegistryInv
  <2>2. CASE labels # l
    BY <1>1, <1>6, <2>2, <1>0 DEF ScrapeInv, RegistryInv
  <2> QED
    BY <2>1, <2>2
<1>16. DOMAIN registry'.admissionRequests = {RequestLabels(q) : q \in RecordedRequests}'
  BY <1>1, <1>10, <1>0 DEF ScrapeInv, RegistryInv
<1>17. registry'.durationCount = Cardinality(RecordedRequests)'
  BY <1>1, <1>8 DEF ScrapeInv, RegistryInv
<1>18. DOMAIN registry'.violations = {DenialLabels(q) : q \in ReportedDenials}'
  BY <1>1, <1>12 DEF ScrapeInv, RegistryInv
<1>19. \A labels \in AllDenialLabels :
          Sample(registry'.violations, labels) = Cardinality(ReportedUnder(labels))'
  BY <1>1, <1>11 DEF ScrapeInv, RegistryInv
<1> QED
  BY <1>13, <1>15, <1>16, <1>17, <1>18, <1>19 DEF RegistryInv

\* RecordDenial counts one more denial, under its labels.
LEMMA DenialCounts ==
    ASSUME TypeOK, ScrapeInv, Running, NEW r \in Requests, RecordDenial(r)
    PROVE  RegistryInv'
<1> DEFINE l == DenialLabels(r)
<1>1. /\ registry'.durationCount = registry.durationCount
      /\ registry'.admissionRequests = registry.admissionRequests
      /\ registry'.violations = incrementCounter(registry.violations, l)
  BY DEF RecordDenial, RecordViolation, DenialLabels, ScrapeInv
<1>2. denied' = denied /\ Recorded(r) /\ Recorded(r)' /\ denied[r] /\ phase[r] = "violation"
      /\ phase'[r] = "recorded" /\ \A q \in Requests \ {r} : phase'[q] = phase[q]
  BY DEF RecordDenial, Recorded, TypeOK, ScrapeInv
<1>3. RecordedRequests' = RecordedRequests
  BY <1>2 DEF RecordedRequests, Recorded
<1>4. \A q \in Requests : RequestLabels(q)' = RequestLabels(q)
  BY <1>2 DEF RequestLabels, Result
<1>5. ReportedDenials' = ReportedDenials \cup {r} /\ r \notin ReportedDenials
  BY <1>2 DEF ReportedDenials
<1>6. \A labels : ReportedUnder(labels)' =
          IF labels = l THEN ReportedUnder(labels) \cup {r} ELSE ReportedUnder(labels)
  BY <1>5 DEF ReportedUnder, DenialLabels
<1>7. r \notin ReportedUnder(l)
  BY <1>5 DEF ReportedUnder
<1>8. Cardinality(ReportedUnder(l) \cup {r}) = Cardinality(ReportedUnder(l)) + 1
  BY <1>7, CountsAreNatural, FS_AddElement
<1>9. {DenialLabels(q) : q \in ReportedDenials}' = {DenialLabels(q) : q \in ReportedDenials} \cup {l}
  BY <1>5 DEF DenialLabels
<1>10. \A labels : RecordedUnder(labels)' = RecordedUnder(labels)
  BY <1>3, <1>4 DEF RecordedUnder, RecordedRequests
<1>11. {RequestLabels(q) : q \in RecordedRequests}' = {RequestLabels(q) : q \in RecordedRequests}
  BY <1>3, <1>4 DEF RecordedRequests
<1>12. AllRequestLabels' = AllRequestLabels /\ AllDenialLabels' = AllDenialLabels
  BY DEF AllRequestLabels, AllDenialLabels, DenialLabels
<1>13. l \in AllDenialLabels
  BY DEF AllDenialLabels
<1> HIDE DEF l
<1>0. /\ DOMAIN registry'.violations = DOMAIN registry.violations \cup {l}
      /\ Sample(registry'.violations, l) = Sample(registry.violations, l) + 1
      /\ \A other : other # l =>
            Sample(registry'.violations, other) = Sample(registry.violations, other)
  <2>1. /\ DOMAIN incrementCounter(registry.violations, l) = DOMAIN registry.violations \cup {l}
        /\ Sample(incrementCounter(registry.violations, l), l) = Sample(registry.violations, l) + 1
        /\ \A other : other # l =>
              Sample(incrementCounter(registry.violations, l), other) = Sample(registry.violations, other)
    BY OneMore, Zenon
  <2> QED
    BY <1>1, <2>1, Zenon
<1>14. ASSUME NEW labels \in AllDenialLabels
       PROVE  Sample(registry'.violations, labels) = Cardinality(ReportedUnder(labels))'
  <2>1. CASE labels = l
    BY <1>1, <1>6, <1>8, <1>13, <2>1, <1>0 DEF ScrapeInv, RegistryInv
  <2>2. CASE labels # l
    BY <1>1, <1>6, <2>2, <1>0 DEF ScrapeInv, RegistryInv
  <2> QED
    BY <2>1, <2>2
<1>15. DOMAIN registry'.violations = {DenialLabels(q) : q \in ReportedDenials}'
  BY <1>1, <1>9, <1>0 DEF ScrapeInv, RegistryInv
<1>16. registry'.durationCount = Cardinality(RecordedRequests)'
  BY <1>1, <1>3 DEF ScrapeInv, RegistryInv
<1>17. DOMAIN registry'.admissionRequests = {RequestLabels(q) : q \in RecordedRequests}'
  BY <1>1, <1>11 DEF ScrapeInv, RegistryInv
<1>18. \A labels \in AllRequestLabels :
          Sample(registry'.admissionRequests, labels) = Cardinality(RecordedUnder(labels))'
  BY <1>1, <1>10 DEF ScrapeInv, RegistryInv
<1> QED
  BY <1>12, <1>14, <1>15, <1>16, <1>17, <1>18 DEF RegistryInv

\* No step but Record and RecordDenial makes a request a recorded or reported one.
LEMMA CountedBySteps ==
    ASSUME TypeOK, [Next]_vars, Running',
           ~ \E r \in Requests : RecordDenial(r) \/ \E duration \in Durations : Record(r, duration)
    PROVE  /\ UNCHANGED registry
           /\ \A r \in Requests : /\ Recorded(r)' <=> Recorded(r)
                                  /\ r \in ReportedDenials' <=> r \in ReportedDenials
                                  /\ Recorded(r) => denied'[r] = denied[r]
                                  /\ phase'[r] = "violation" => phase[r] = "violation"
<1> USE DEF TypeOK, Recorded, ReportedDenials
<1>1. ASSUME NEW q \in Requests, Judge(q) \/ Accept(q) \/ Answer(q)
      PROVE  /\ UNCHANGED registry
             /\ \A r \in Requests : /\ Recorded(r)' <=> Recorded(r)
                                    /\ r \in ReportedDenials' <=> r \in ReportedDenials
                                    /\ Recorded(r) => denied'[r] = denied[r]
                                    /\ phase'[r] = "violation" => phase[r] = "violation"
  BY <1>1 DEF Judge, Accept, Answer
<1>2. CASE UNCHANGED requestVars
  BY <1>2 DEF requestVars
<1>3. CASE \E code \in {0, 1} : Exit(code)
  BY <1>3 DEF Exit, Running
<1> QED
  BY <1>1, <1>2, <1>3
  DEF Next, MainStep, ControllerStep, SyncDone, FirstRebuild, SyncFails, StartServer, ShutDown,
      ListenerError, ShutdownDone, ShutdownFails, Signal, ListenerStep, Listen, ListenFails,
      ListenerClosed, IdleClosed, Serve, vars

LEMMA ExitLasts == [Next]_vars /\ Running' => Running
BY DEF Running, Next, MainStep, ControllerStep, SyncDone, FirstRebuild, SyncFails, StartServer,
   ShutDown, ListenerError, ShutdownDone, ShutdownFails, Signal, ListenerStep, Listen,
   ListenFails, ListenerClosed, IdleClosed, Serve, Accept, Judge, Record, RecordDenial, Answer,
   Exit, vars, mainVars

LEMMA RegistryFields ==
    ASSUME TypeOK, ScrapeInv, [Next]_vars
    PROVE  /\ DOMAIN registry' = DOMAIN registry
           /\ \A r \in Requests : phase'[r] = "violation" => denied'[r]
<1> USE DEF TypeOK, ScrapeInv
<1>1. ASSUME NEW q \in Requests, Judge(q) \/ Accept(q) \/ Answer(q)
      PROVE  /\ DOMAIN registry' = DOMAIN registry
             /\ \A r \in Requests : phase'[r] = "violation" => denied'[r]
  BY <1>1 DEF Judge, Accept, Answer
<1>2. ASSUME NEW q \in Requests, RecordDenial(q)
      PROVE  /\ DOMAIN registry' = DOMAIN registry
             /\ \A r \in Requests : phase'[r] = "violation" => denied'[r]
  BY <1>2 DEF RecordDenial, RecordViolation
<1>3. ASSUME NEW q \in Requests, NEW duration \in Durations, Record(q, duration)
      PROVE  /\ DOMAIN registry' = DOMAIN registry
             /\ \A r \in Requests : phase'[r] = "violation" => denied'[r]
  BY <1>3 DEF Record, RecordAdmission
<1>4. CASE UNCHANGED requestVars
  BY <1>4 DEF requestVars
<1>5. CASE \E code \in {0, 1} : Exit(code)
  BY <1>5 DEF Exit
<1> QED
  BY <1>1, <1>2, <1>3, <1>4, <1>5
  DEF Next, MainStep, ControllerStep, SyncDone, FirstRebuild, SyncFails, StartServer, ShutDown,
      ListenerError, ShutdownDone, ShutdownFails, Signal, ListenerStep, Listen, ListenFails,
      ListenerClosed, IdleClosed, Serve, vars

LEMMA ScrapeInit == Init => ScrapeInv
<1> SUFFICES ASSUME Init PROVE ScrapeInv
  OBVIOUS
<1>1. registry = NewRegistry /\ \A r \in Requests : phase[r] = "new"
  BY DEF Init
<1>2. RecordedRequests = {} /\ ReportedDenials = {}
  BY <1>1 DEF RecordedRequests, Recorded, ReportedDenials
<1>3. \A labels : RecordedUnder(labels) = {} /\ ReportedUnder(labels) = {}
  BY <1>2 DEF RecordedUnder, ReportedUnder
<1>4. /\ registry.durationCount = 0
      /\ DOMAIN registry.admissionRequests = {} /\ DOMAIN registry.violations = {}
      /\ DOMAIN registry = {"admissionRequests", "violations", "durationCount", "durationBuckets"}
  BY <1>1 DEF NewRegistry, NoSamples
<1>5. {RequestLabels(r) : r \in RecordedRequests} = {} /\ {DenialLabels(r) : r \in ReportedDenials} = {}
  BY <1>2
<1>6. \A labels : /\ Sample(registry.admissionRequests, labels) = 0
                  /\ Sample(registry.violations, labels) = 0
  BY <1>4 DEF Sample
<1>7. RegistryInv
  BY <1>2, <1>3, <1>4, <1>5, <1>6, FS_EmptySet DEF RegistryInv
<1> QED
  BY <1>1, <1>4, <1>7 DEF ScrapeInv

LEMMA ScrapeStep == TypeOK /\ ScrapeInv /\ [Next]_vars => ScrapeInv'
<1> SUFFICES ASSUME TypeOK, ScrapeInv, [Next]_vars PROVE ScrapeInv'
  OBVIOUS
<1>1. /\ DOMAIN registry' = {"admissionRequests", "violations", "durationCount", "durationBuckets"}
      /\ \A r \in Requests : phase'[r] = "violation" => denied'[r]
  BY RegistryFields DEF ScrapeInv
<1>2. ASSUME Running' PROVE RegistryInv'
  <2>1. Running
    BY <1>2, ExitLasts
  <2>2. ASSUME NEW r \in Requests, RecordDenial(r) PROVE RegistryInv'
    BY <2>1, <2>2, DenialCounts
  <2>3. ASSUME NEW r \in Requests, NEW duration \in Durations, Record(r, duration) PROVE RegistryInv'
    BY <2>1, <2>3, RecordCounts
  <2>4. CASE ~ \E r \in Requests : RecordDenial(r) \/ \E duration \in Durations : Record(r, duration)
    BY <1>2, <2>1, <2>4, CountedBySteps, NothingCounted
  <2> QED
    BY <2>2, <2>3, <2>4
<1> QED
  BY <1>1, <1>2 DEF ScrapeInv

\* A scrape adds up at every moment, however requests, signals and failures mix.
THEOREM ScrapesAddUp == Spec => []ScrapeAddsUp
<1>1. TypeOK /\ ScrapeInv /\ [Next]_vars => (TypeOK /\ ScrapeInv)'
  BY TypeStep, ScrapeStep
<1>2. Init => TypeOK /\ ScrapeInv
  BY TypeInit, ScrapeInit
<1> QED
  BY <1>1, <1>2, RegistryScrape, PTL DEF Spec

=============================================================================
