------------------------------ MODULE RuleCache ------------------------------
(***************************************************************************)
(* What the rule controller promises to the rest of the process, without   *)
(* threads, notifications, gates or metrics: the rules published are those *)
(* of one snapshot of the informer's cache, snapshots are taken and        *)
(* published one after the other, and nothing is served before the first   *)
(* one taken of a synced cache is published.                               *)
(*                                                                         *)
(* RuleWatch implements this specification; Server composes it with the    *)
(* HTTP server.  A version is as in RuleWatch: the resourceVersion of a    *)
(* write and the content it left.                                          *)
(***************************************************************************)
EXTENDS Naturals

CONSTANTS
    ConfigMaps,
    Rules,           \* what ParseConfigMap can return without an error
    Plain, Invalid, Gone,
    Revisions        \* the resourceVersions there may be, 0 among them

VARIABLES
    known,           \* the informer's cache
    taken,           \* the snapshot of it in hand: none, or one
    reflected,       \* the snapshot that is published
    rules,           \* the rule store
    stage            \* how far Controller.Start is

cacheVars == <<known, taken, reflected, rules, stage>>

Version == [rv : Revisions, content : Rules \cup {Plain, Invalid, Gone}]
Snapshots == [ConfigMaps -> Version]
Stages == {"syncing", "loading", "loaded", "serving"}

NothingKnown == [k \in ConfigMaps |-> [rv |-> 0, content |-> Gone]]

\* Mutant: the continue after a parse error is lost.
RulesAndInvalid(snapshot) ==
    {<<k, snapshot[k].content>> :
        k \in {j \in ConfigMaps : snapshot[j].content \in Rules \cup {Invalid}}}

\* The rules of a snapshot: what does not parse, or is no rule, is skipped.
RulesOf(snapshot) ==
    {<<k, snapshot[k].content>> : k \in {j \in ConfigMaps : snapshot[j].content \in Rules}}

NoneOlder(older, newer) == \A k \in ConfigMaps : older[k].rv <= newer[k].rv

Init ==
    /\ known = NothingKnown /\ taken = {} /\ reflected = NothingKnown
    /\ rules = {}
    /\ stage = "syncing"

\* The informer moves on.
Learn ==
    /\ known' \in Snapshots
    /\ \A k \in ConfigMaps : known'[k] = known[k] \/ known[k].rv < known'[k].rv
    /\ UNCHANGED <<taken, reflected, rules, stage>>

\* WaitForCacheSync returns.
Synced ==
    /\ stage = "syncing"
    /\ stage' = "loading"
    /\ UNCHANGED <<known, taken, reflected, rules>>

\* Mutant: rebuilds overlap, each with a snapshot of its own.
TakeAlongside ==
    /\ stage \in {"loading", "serving"}
    /\ taken' = taken \cup {known}
    /\ UNCHANGED <<known, reflected, rules, stage>>

Take ==
    /\ stage \in {"loading", "serving"}
    /\ taken = {}
    /\ taken' = {known}
    /\ UNCHANGED <<known, reflected, rules, stage>>

Publish ==
    \E snapshot \in taken :
        /\ reflected' = snapshot
        /\ rules' = RulesOf(snapshot)
        /\ taken' = taken \ {snapshot}
        /\ stage' = IF stage = "loading" THEN "loaded" ELSE stage
        /\ UNCHANGED known

\* Start returns and the server may answer.
Open ==
    /\ stage = "loaded"
    /\ stage' = "serving"
    /\ UNCHANGED <<known, taken, reflected, rules>>

\* The process is started again and has everything to learn.
StartAgain ==
    /\ known' = NothingKnown /\ taken' = {} /\ reflected' = NothingKnown
    /\ rules' = {}
    /\ stage' = "syncing"

Next == Learn \/ Synced \/ Take \/ Publish \/ Open \/ StartAgain

Spec == Init /\ [][Next]_cacheVars

=============================================================================
