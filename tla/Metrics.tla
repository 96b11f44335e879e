------------------------------- MODULE Metrics -------------------------------
(***************************************************************************)
(* The metrics registry of pkg/metrics, as far as requests write to it:    *)
(* each Record is one step under the registry's lock, and render reads all *)
(* of it under the same lock.  What the rule controller writes to it (the  *)
(* gauge and the config events) is in RuleWatch.                           *)
(*                                                                         *)
(* A counter is a function on the label sets that were counted so far.  Of *)
(* a duration only the first bucket that takes it matters: a number from 1 *)
(* to Buckets, or Buckets + 1 when it is beyond the last.                  *)
(***************************************************************************)
EXTENDS Naturals

CONSTANT Buckets     \* the length of histogramBuckets

ASSUME BucketsIsNatural == Buckets \in Nat

Durations == 1 .. Buckets + 1

NoSamples == [labels \in {} |-> 0]

NewRegistry ==
    [admissionRequests |-> NoSamples,
     violations        |-> NoSamples,
     durationCount     |-> 0,
     durationBuckets   |-> [i \in 1 .. Buckets |-> 0]]

IsCounter(counter) == counter \in [DOMAIN counter -> Nat]

IsRegistry(registry) ==
    /\ registry = [field \in DOMAIN NewRegistry |-> registry[field]]
    /\ IsCounter(registry.admissionRequests) /\ IsCounter(registry.violations)
    /\ registry.durationCount \in Nat
    /\ registry.durationBuckets \in [1 .. Buckets -> Nat]

namespaceOrUnknown(value) == IF value = "" THEN "unknown" ELSE value

Sample(counter, labels) == IF labels \in DOMAIN counter THEN counter[labels] ELSE 0

incrementCounter(counter, labels) ==
    [other \in DOMAIN counter \cup {labels} |->
        IF other = labels THEN Sample(counter, labels) + 1 ELSE counter[other]]

AdmissionLabels(namespace, result) ==
    [namespace |-> namespaceOrUnknown(namespace), result |-> result]

ViolationLabels(namespace, mode) == [namespace |-> namespaceOrUnknown(namespace), mode |-> mode]

\* Mutant: the raw namespace is the label.
RecordRawAdmission(registry, namespace, result, duration) ==
    [registry EXCEPT
        !.admissionRequests =
            incrementCounter(@, [namespace |-> namespace, result |-> result]),
        !.durationCount = @ + 1,
        !.durationBuckets = [i \in 1 .. Buckets |-> IF duration <= i THEN @[i] + 1 ELSE @[i]]]

\* Every bucket that takes the duration is counted up, not only the first.
RecordAdmission(registry, namespace, result, duration) ==
    [registry EXCEPT
        !.admissionRequests = incrementCounter(@, AdmissionLabels(namespace, result)),
        !.durationCount = @ + 1,
        !.durationBuckets = [i \in 1 .. Buckets |-> IF duration <= i THEN @[i] + 1 ELSE @[i]]]

RecordViolation(registry, namespace, mode) ==
    [registry EXCEPT !.violations = incrementCounter(@, ViolationLabels(namespace, mode))]

\* What a scrape shows: the counters as they are, and the buckets summed up.
render(registry) ==
    LET cumulative[i \in 0 .. Buckets] ==
            IF i = 0 THEN 0 ELSE cumulative[i - 1] + registry.durationBuckets[i]
    IN  [admissionRequests |-> registry.admissionRequests,
         violations        |-> registry.violations,
         bucket            |-> [i \in 1 .. Buckets |-> cumulative[i]],
         infinity          |-> registry.durationCount,
         count             |-> registry.durationCount]

=============================================================================
