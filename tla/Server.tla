------------------------------- MODULE Server -------------------------------
(***************************************************************************)
(* The process as a whole: cmd/server's main, which starts the rule        *)
(* controller (RuleCache), opens the HTTP server, and waits for a signal   *)
(* or for the listener to fail; the listener's goroutine; and the requests,*)
(* each on a goroutine of its own, which read the rule store and write to  *)
(* the metrics registry (Metrics).                                         *)
(*                                                                         *)
(*   main --Start--> rule controller --Replace--> rule store --Match--+    *)
(*     |                                                              |    *)
(*     +--go--> listener --accept--> request: judge, record, answer <-+    *)
(*     |                                          |                        *)
(*     +<------------- errCh, signal              +--> registry <-- scrape *)
(*                                                                         *)
(* What a verdict is made of is Admission's subject.  Here a request is    *)
(* denied when the store holds a Denying rule, and a denial has one path.  *)
(* The process runs once: restarts of the controller are in RuleWatch.     *)
(***************************************************************************)
EXTENDS Metrics, Sequences, FiniteSets

CONSTANTS
    ConfigMaps, Rules, Plain, Invalid, Gone, Revisions,   \* as in RuleCache
    Denying,         \* the rules that deny the requests
    Requests,        \* the requests clients may send
    NamespaceOf      \* the namespace of each, "" for a cluster-wide object

ASSUME DenyingRules == Denying \subseteq Rules
ASSUME RequestsAreFinite == IsFiniteSet(Requests)
ASSUME RevisionsAreNatural == Revisions \subseteq Nat /\ 0 \in Revisions

VARIABLES
    known, taken, reflected, rules, stage,                \* RuleCache's
    main,            \* where main is
    status,          \* the exit status
    signalled,       \* ctx.Done: SIGTERM or an interrupt arrived
    listener,        \* the listener's goroutine
    errCh,           \* what the listener's goroutine sent main
    idle,            \* kept-alive connections without a request
    phase,           \* where each request is
    denied,          \* the verdict of each
    registry,        \* the metrics registry
    basis,           \* history: what the store reflected when each was judged
    initialRules     \* history: the cache when its sync was awaited

Cache == INSTANCE RuleCache

ruleVars == <<known, taken, reflected, rules, stage>>
mainVars == <<main, status, signalled>>
httpVars == <<listener, errCh, idle>>
requestVars == <<phase, denied, registry, basis>>
vars == <<ruleVars, mainVars, httpVars, requestVars, initialRules>>

Phases == {"new", "accepted", "judged", "violation", "recorded", "answered", "cut"}
InFlight == {"accepted", "judged", "violation", "recorded"}
NoRequestInFlight == \A r \in Requests : phase[r] \notin InFlight

Running == main # "exited"

Init ==
    /\ Cache!Init
    /\ main = "starting" /\ status = 0 /\ signalled = FALSE
    /\ listener = "off" /\ errCh = <<>> /\ idle = 0
    /\ phase = [r \in Requests |-> "new"]
    /\ denied = [r \in Requests |-> FALSE]
    /\ registry = NewRegistry
    /\ basis = [r \in Requests |-> Cache!NothingKnown]
    /\ initialRules = Cache!NothingKnown

-----------------------------------------------------------------------------
(* The rule controller                                                     *)

\* The informer learns and the handler rebuilds.  A signal stops the informers
\* in their own time.
ControllerStep ==
    /\ Running
    /\ \/ Cache!Learn
       \/ stage = "serving" /\ (Cache!Take \/ Cache!Publish)
    /\ UNCHANGED <<mainVars, httpVars, requestVars, initialRules>>

-----------------------------------------------------------------------------
(* main                                                                    *)

\* os.Exit, or the end of main: requests in flight get no answer.
Exit(code) ==
    /\ main' = "exited"
    /\ status' = code
    /\ listener' = "off"
    /\ idle' = 0
    /\ phase' = [r \in Requests |-> IF phase[r] \in InFlight THEN "cut" ELSE phase[r]]
    /\ UNCHANGED <<ruleVars, signalled, errCh, denied, registry, basis, initialRules>>

SyncDone ==
    /\ main = "starting"
    /\ Cache!Synced
    /\ initialRules' = known
    /\ UNCHANGED <<mainVars, httpVars, requestVars>>

\* WaitForCacheSync gives up, at its timeout or at a signal.
SyncFails ==
    /\ main = "starting" /\ stage = "syncing"
    /\ Exit(1)

\* The rebuild of Start.
FirstRebuild ==
    /\ main = "starting" /\ stage = "loading"
    /\ Cache!Take \/ Cache!Publish
    /\ UNCHANGED <<mainVars, httpVars, requestVars, initialRules>>

\* Mutant: the server is opened while Start is still loading.
StartServerEarly ==
    /\ main = "starting" /\ stage = "loading"
    /\ stage' = "serving"
    /\ main' = "select"
    /\ listener' = "opening"
    /\ UNCHANGED <<known, taken, reflected, rules>>
    /\ UNCHANGED <<status, signalled, errCh, idle, requestVars, initialRules>>

\* Start returns and the listener's goroutine is created.
StartServer ==
    /\ main = "starting"
    /\ Cache!Open
    /\ main' = "select"
    /\ listener' = "opening"
    /\ UNCHANGED <<status, signalled, errCh, idle, requestVars, initialRules>>

\* select takes ctx.Done and Shutdown closes the listener.  When errCh is ready
\* as well, select may take either.
ShutDown ==
    /\ main = "select" /\ signalled
    /\ main' = "shutting"
    /\ UNCHANGED <<ruleVars, status, signalled, httpVars, requestVars, initialRules>>

\* select takes errCh.  Before Shutdown nothing but an error can be in it.
ListenerError ==
    /\ main = "select" /\ errCh # <<>>
    /\ Exit(1)

\* Shutdown finds no request left.
ShutdownDone ==
    /\ main = "shutting" /\ NoRequestInFlight
    /\ Exit(0)

\* Mutants: Shutdown's error is not looked at; there is no deadline.
ShutdownErrorIgnored ==
    /\ main = "shutting"
    /\ Exit(0)

NoShutdownTimeout == FALSE

\* Shutdown returns an error: at ShutdownTimeout, which may pass also when the last
\* request is answered, since Shutdown looks only now and then and waits for every
\* connection; or when the listener could not be closed.
ShutdownFails ==
    /\ main = "shutting"
    /\ Exit(1)

MainStep ==
    \/ SyncDone \/ SyncFails \/ FirstRebuild \/ StartServer
    \/ ShutDown \/ ListenerError \/ ShutdownDone \/ ShutdownFails

Signal ==
    /\ Running /\ ~signalled
    /\ signalled' = TRUE
    /\ UNCHANGED <<ruleVars, main, status, httpVars, requestVars, initialRules>>

-----------------------------------------------------------------------------
(* net/http: the listener's goroutine and the connections                  *)

Listen ==
    /\ main = "select" /\ listener = "opening"
    /\ listener' = "open"
    /\ UNCHANGED <<ruleVars, mainVars, errCh, idle, requestVars, initialRules>>

\* Mutant: the goroutine reports the error and tries again.
ListenRetries ==
    /\ main = "select" /\ listener \in {"opening", "open"}
    /\ Len(errCh) < 2
    /\ listener' = "opening"
    /\ errCh' = Append(errCh, "error")
    /\ UNCHANGED <<ruleVars, mainVars, idle, requestVars, initialRules>>

\* The address is taken, the certificate cannot be read, or Accept fails.
ListenFails ==
    /\ main = "select" /\ listener \in {"opening", "open"}
    /\ listener' = "off"
    /\ errCh' = Append(errCh, "error")
    /\ UNCHANGED <<ruleVars, mainVars, idle, requestVars, initialRules>>

\* Once Shutdown was called ListenAndServe returns ErrServerClosed, open or not.
ListenerClosed ==
    /\ main = "shutting" /\ listener \in {"opening", "open"}
    /\ listener' = "off"
    /\ errCh' = Append(errCh, "nil")
    /\ UNCHANGED <<ruleVars, mainVars, idle, requestVars, initialRules>>

ListenerStep == Listen \/ ListenFails \/ ListenerClosed

\* A request arrives on a new connection, or on one that was kept alive.
Accept(r) ==
    /\ phase[r] = "new"
    /\ \/ main = "select" /\ listener = "open" /\ UNCHANGED idle
       \/ Running /\ idle > 0 /\ idle' = idle - 1
    /\ phase' = [phase EXCEPT ![r] = "accepted"]
    /\ UNCHANGED <<ruleVars, mainVars, listener, errCh, denied, registry, basis, initialRules>>

\* Idle connections end at IdleTimeout, at the client's will, or in Shutdown.
IdleClosed ==
    /\ idle > 0
    /\ idle' = 0
    /\ UNCHANGED <<ruleVars, mainVars, listener, errCh, requestVars, initialRules>>

-----------------------------------------------------------------------------
(* A request                                                               *)

\* Validate, as far as it depends on the store.
Judge(r) ==
    /\ phase[r] = "accepted"
    /\ denied' = [denied EXCEPT ![r] = \E entry \in rules : entry[2] \in Denying]
    /\ basis' = [basis EXCEPT ![r] = reflected]
    /\ phase' = [phase EXCEPT ![r] = "judged"]
    /\ UNCHANGED <<ruleVars, mainVars, httpVars, registry, initialRules>>

Result(r) == IF denied[r] THEN "denied" ELSE "allowed"

Record(r, duration) ==
    /\ phase[r] = "judged"
    /\ registry' = RecordAdmission(registry, NamespaceOf[r], Result(r), duration)
    /\ phase' = [phase EXCEPT ![r] = IF denied[r] THEN "violation" ELSE "recorded"]
    /\ UNCHANGED <<ruleVars, mainVars, httpVars, denied, basis, initialRules>>

RecordDenial(r) ==
    /\ phase[r] = "violation"
    /\ registry' = RecordViolation(registry, NamespaceOf[r], "enforce")
    /\ phase' = [phase EXCEPT ![r] = "recorded"]
    /\ UNCHANGED <<ruleVars, mainVars, httpVars, denied, basis, initialRules>>

\* The response is written; in Shutdown its connection is not kept.
Answer(r) ==
    /\ phase[r] = "recorded"
    /\ phase' = [phase EXCEPT ![r] = "answered"]
    /\ idle' = IF main = "shutting" THEN idle ELSE idle + 1
    /\ UNCHANGED <<ruleVars, mainVars, listener, errCh, denied, registry, basis, initialRules>>

Serve(r) ==
    Judge(r) \/ (\E duration \in Durations : Record(r, duration)) \/ RecordDenial(r) \/ Answer(r)

-----------------------------------------------------------------------------
Next ==
    \/ ControllerStep \/ MainStep \/ Signal \/ ListenerStep \/ IdleClosed
    \/ \E r \in Requests : Accept(r) \/ Serve(r)

Spec == Init /\ [][Next]_vars

\* main and the listener keep running, and timers fire.  Clients, the informer
\* and the requests owe nothing: a request may hang for ever.
FairSpec == Spec /\ WF_vars(MainStep) /\ WF_vars(ListenerStep)

-----------------------------------------------------------------------------
(* Properties                                                              *)

TypeOK ==
    /\ known \in Cache!Snapshots /\ reflected \in Cache!Snapshots
    /\ taken \subseteq Cache!Snapshots
    /\ rules \subseteq ConfigMaps \X Rules
    /\ stage \in Cache!Stages
    /\ main \in {"starting", "select", "shutting", "exited"}
    /\ status \in {0, 1}
    /\ signalled \in BOOLEAN
    /\ listener \in {"off", "opening", "open"}
    /\ errCh \in Seq({"nil", "error"})
    /\ idle \in Nat
    /\ phase \in [Requests -> Phases]
    /\ denied \in [Requests -> BOOLEAN]
    /\ IsRegistry(registry)
    /\ basis \in [Requests -> Cache!Snapshots]
    /\ initialRules \in Cache!Snapshots

Recorded(r) == phase[r] \in {"violation", "recorded", "answered"}
Judged(r) == phase[r] = "judged" \/ Recorded(r)

\* A request judged later is never judged by older rules: once somebody has been
\* answered by a new rule, nobody is by the version it replaced.
RulesNeverGoBack ==
    [][\A q, r \in Requests :
          Judged(q) /\ phase[r] = "accepted" /\ phase'[r] = "judged" =>
              Cache!NoneOlder(basis[q], basis'[r])]_vars

\* No request is judged before the rules of the synced cache are in the store,
\* although the listener's goroutine, Start and the requests run on their own.
InitialRulesJudge ==
    \A r \in Requests : Judged(r) => Cache!NoneOlder(initialRules, basis[r])

\* The goroutine that listens can always hand main its result: errCh, of capacity
\* one, gets one result at most, so that a failure is never stuck unseen.
ErrChNeverFull == Len(errCh) <= 1 /\ (listener # "off" => errCh = <<>>)

\* An exit status of 0 means that a signal ended the process and every request
\* accepted was answered, so that a request cut off always shows in the status.  A
\* status of 1 means that Start failed and nothing was accepted, that the listener
\* failed, or that a signal came; after a signal it says nothing of the requests.
ExitStatusIsTrue ==
    main = "exited" =>
        \/ status = 0 /\ signalled /\ \A r \in Requests : phase[r] \in {"new", "answered"}
        \/ status = 1 /\ stage = "syncing" /\ \A r \in Requests : phase[r] = "new"
        \/ status = 1 /\ (signalled \/ "error" \in {errCh[i] : i \in DOMAIN errCh})

\* What the registry has counted: admissions, and denials with their path.
RecordedRequests == {r \in Requests : Recorded(r)}
ReportedDenials == {r \in Requests : denied[r] /\ phase[r] \in {"recorded", "answered"}}

RequestLabels(r) == AdmissionLabels(NamespaceOf[r], Result(r))
DenialLabels(r) == ViolationLabels(NamespaceOf[r], "enforce")

AllRequestLabels ==
    {AdmissionLabels(NamespaceOf[r], result) : r \in Requests, result \in {"denied", "allowed"}}
AllDenialLabels == {DenialLabels(r) : r \in Requests}

RecordedUnder(labels) == {r \in RecordedRequests : RequestLabels(r) = labels}
ReportedUnder(labels) == {r \in ReportedDenials : DenialLabels(r) = labels}

\* A scrape at any moment adds up: each recorded request is in the count, in the
\* last bucket and in the sample of its labels, each denial that is past its
\* violation in that of its own, and no sample is there without a request; so
\* violations lag behind the denials by those not answered yet, and nothing else.
ScrapeAddsUp ==
    Running =>
        LET page == render(registry)
        IN  /\ page.infinity = page.count /\ page.count = Cardinality(RecordedRequests)
            /\ DOMAIN page.admissionRequests = {RequestLabels(r) : r \in RecordedRequests}
            /\ \A labels \in AllRequestLabels :
                  Sample(page.admissionRequests, labels) = Cardinality(RecordedUnder(labels))
            /\ DOMAIN page.violations = {DenialLabels(r) : r \in ReportedDenials}
            /\ \A labels \in AllDenialLabels :
                  Sample(page.violations, labels) = Cardinality(ReportedUnder(labels))

\* After a signal the process ends, whatever requests, clients and the rule
\* controller do: the deadlines of Start and of Shutdown see to it.
SignalStops == signalled ~> main = "exited"

\* metrics.go:125 "# TYPE drift_sentinel_admission_duration_seconds histogram": a
\* bucket counts what is at or below its bound, so none exceeds the +Inf bucket.
HistogramIsCumulative ==
    \A i \in 1 .. Buckets : render(registry).bucket[i] <= render(registry).infinity

=============================================================================
