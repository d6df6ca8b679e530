------------------------------ MODULE Collection ------------------------------
(***************************************************************************)
(* The collection of one device, scan after scan (internal/collect/        *)
(* collect.go, internal/schema/entity.go): the plan of the collectors,     *)
(* their run one after another, and the entities and errors of the report. *)
(* Between two scans nothing changes on the device; a source may fail.     *)
(*                                                                         *)
(* Collectors share nothing but the report, by their names: the model runs *)
(* those of `part`, a few at a time.                                       *)
(***************************************************************************)
EXTENDS LinuxCollectors, DarwinCollectors, WindowsCollectors

CONSTANTS
    Parts(_),       \* the parts of a list of collectors that are looked at
    MaxScans,       \* bound: scans of the device
    MaxFailures,    \* bound: sources that fail, and collectors that panic
    MaxListItems    \* of the configuration; 0 is no limit

VARIABLES
    os, part,       \* the system, the names of the collectors that are run
    device,         \* what the sources of the device hold
    failures,       \* sources that failed and collectors that panicked
    scanning,       \* whether a scan is running
    outcome,        \* what reading a source comes to in this scan
    todo,           \* the rest of the plan
    entities, errs, \* the report so far
    reports         \* the finished scans

vars == <<os, part, device, failures, scanning, outcome, todo, entities, errs, reports>>
given == <<os, part, device>>

-----------------------------------------------------------------------------
(* The plan.                                                                *)

BaseCollectorsOf(system) ==
    CASE system = "windows" -> WindowsBase [] system = "darwin" -> DarwinBase
      [] OTHER -> LinuxBase

PlatformCollectors(system) ==
    CASE system = "windows" -> WindowsPlatform [] system = "darwin" -> DarwinPlatform
      [] OTHER -> LinuxPlatform

All(system) == BaseCollectorsOf(system) \o PlatformCollectors(system)

\* What a session asks for: how deep, and the two costly entities.
Sessions == [level : {Minimal, Quick, Full}, costly : BOOLEAN]

planCollectors(system, session) ==
    LET Eligible(c) == /\ c.level <= session.level
                       /\ c.name \in {"appx_packages", "processes"} => session.costly
    IN  SelectSeq(All(system), Eligible)

\* ... of the collectors with these names.
Planned(system, session, names) ==
    SelectSeq(planCollectors(system, session), LAMBDA c : c.name \in names)

SourcesOf(plan) == UNION {Sources(plan[i]) : i \in DOMAIN plan}
ScannedOf(plan) ==
    UNION {{r.source : r \in {plan[i].reads[n] : n \in {m \in DOMAIN plan[i].reads :
                                                        plan[i].reads[m].scanned}}} :
           i \in DOMAIN plan}

-----------------------------------------------------------------------------
(* Entities.                                                                *)

\* The n-th record of a key gets a key of its own.
UniqueKeys(recs) ==
    [i \in DOMAIN recs |->
        <<recs[i].key, recs[i].number,
          1 + Cardinality({j \in 1..i - 1 : /\ recs[j].key = recs[i].key
                                            /\ recs[j].number = recs[i].number})>>]

\* Records by their keys; two fingerprints differ if other sources went in.
BuildEntity(recs) ==
    LET keys == UniqueKeys(recs) IN
    [k \in Range(keys) |-> recs[CHOOSE i \in DOMAIN recs : keys[i] = k].from]

\* Mutant: one record more than the limit.
TrimmedToOneMore(recs) ==
    IF MaxListItems > 0 /\ Len(recs) > MaxListItems THEN SubSeq(recs, 1, MaxListItems + 1) ELSE recs

Trimmed(recs) ==
    IF MaxListItems > 0 /\ Len(recs) > MaxListItems THEN SubSeq(recs, 1, MaxListItems) ELSE recs

-----------------------------------------------------------------------------
Init ==
    /\ os \in {"linux", "darwin", "windows"}
    /\ part \in Parts(All(os))
    /\ device \in [SourcesOf(SelectSeq(All(os), LAMBDA c : c.name \in part)) ->
                    {"rows", "empty", "absent"}]
    /\ failures = 0
    /\ scanning = FALSE /\ outcome = device /\ todo = <<>>
    /\ entities = <<>> /\ errs = {}
    /\ reports = <<>>

\* A scan begins: its plan is made, and what its sources will come to.
Start(session) ==
    /\ ~scanning /\ Len(reports) < MaxScans
    /\ scanning' = TRUE
    /\ todo' = Planned(os, session, part)
    /\ \E F \in SUBSET SourcesOf(todo') :
         /\ failures + Cardinality(F) <= MaxFailures
         /\ failures' = failures + Cardinality(F)
         /\ \E midway \in SUBSET {s \in F \cap ScannedOf(todo') : device[s] = "rows"} :
              outcome' = [s \in DOMAIN device |->
                            CASE s \in midway -> "cut"
                              [] s \in F \ midway -> "failed"
                              [] OTHER -> device[s]]
    /\ entities' = <<>> /\ errs' = {}
    /\ UNCHANGED <<given, reports>>

\* One step of runPlan, with the answer of a collector.
Report(c, answer) ==
    /\ errs' = IF answer.err THEN errs \cup {c.name} ELSE errs
    /\ entities' = IF answer.err /\ answer.recs = <<>> THEN entities
                   ELSE (c.name :> BuildEntity(Trimmed(answer.recs))) @@ entities
    /\ todo' = Tail(todo)
    /\ UNCHANGED <<given, scanning, outcome, reports>>

RunCollector ==
    /\ todo # <<>>
    /\ \E reads \in ReadOrders(Head(todo)) :
         Report(Head(todo), Collect(Head(todo), reads, outcome))
    /\ UNCHANGED failures

\* runCollector recovers: no records, an error.
Panics ==
    /\ todo # <<>> /\ failures < MaxFailures
    /\ failures' = failures + 1
    /\ Report(Head(todo), [err |-> TRUE, recs |-> <<>>])

Finish ==
    /\ scanning /\ todo = <<>>
    /\ reports' = Append(reports, [entities |-> entities, errs |-> errs, outcome |-> outcome])
    /\ scanning' = FALSE /\ outcome' = device
    /\ entities' = <<>> /\ errs' = {}
    /\ UNCHANGED <<given, failures, todo>>

Next == (\E session \in Sessions : Start(session)) \/ RunCollector \/ Panics \/ Finish

Spec == Init /\ [][Next]_vars

-----------------------------------------------------------------------------
(* Properties.                                                              *)

Reports == INSTANCE Delta
             WITH Entities <- part, Keys <- {}, Fingerprints <- SUBSET DOMAIN device

\* Every part of the state has its type; an entity is one of the part, its
\* records come from sources of the device and are no more than the
\* configuration allows (collect.go:76-78).
CollectionTypeOK ==
    /\ os \in {"linux", "darwin", "windows"}
    /\ part \subseteq {c.name : c \in Range(All(os))}
    /\ failures \in 0..MaxFailures
    /\ scanning \in BOOLEAN
    /\ outcome \in [DOMAIN device -> Outcomes]
    /\ \A i \in DOMAIN todo : todo[i].name \in part
    /\ DOMAIN entities \subseteq part /\ errs \subseteq part
    /\ \A e \in DOMAIN entities : \A k \in DOMAIN entities[e] :
         entities[e][k] \subseteq DOMAIN device
    /\ MaxListItems > 0 => \A e \in DOMAIN entities :
                             Cardinality(DOMAIN entities[e]) <= MaxListItems
    /\ Len(reports) <= MaxScans

\* Entities that leave out what they cannot read, by the system.
BestEffortEntities ==
    {"wifi_networks", "proxy_config", "scheduled_tasks", "remote_access", "privileged_members",
     "password_policy", "update_health", "runtimes"}
        \cup (IF os = "windows"
              THEN {"software", "routes", "arp_neighbors", "network_profiles", "usb_history"}
              ELSE {"reliability"})
        \cup (IF os = "linux" THEN {"hardware"} ELSE {})

\* Sources that other entities leave out when they cannot be read.
BestEffortSources ==
    {<<"volumes", "disk.Usage">>, <<"os", "CurrentVersion">>, <<"uac", "EnableLUA">>,
     <<"logged_on_users", "quser">>, <<"monitors", "WmiMonitorID">>, <<"recovery", "reagentc">>}
        \cup {"network_interfaces"} \X
              {"/proc/net/route", "/etc/resolv.conf", "speed", "route get default",
               "Win32_NetworkAdapter", "Win32_NetworkAdapterConfiguration"}

Unchanged(delta) == DOMAIN delta.records = {} /\ delta.removed = {}

\* A scan that finds an entity changed on a device that did not change has
\* said so among its errors, or the scan before it had; what changes in silence
\* is that one of the entities and sources above could not be read, or one of
\* several package databases, or the numbers of Linux' cron entries
\* (collect.go:54-80, and what every collector does when a read fails).
ChangesExplained ==
    \A n \in 2..Len(reports) :
        LET cur == reports[n]
            old == reports[n - 1]
            delta == Reports!BuildDelta(cur.entities, old.entities)
        IN  \A e \in DOMAIN cur.entities \cap DOMAIN old.entities :
              \/ Unchanged(delta[e])
              \/ e \in cur.errs \cup old.errs
              \/ \E s \in DOMAIN device :
                    /\ cur.outcome[s] # old.outcome[s]
                    /\ \/ e \in BestEffortEntities \/ <<e, s>> \in BestEffortSources
                       \/ e = "software" /\ \E other \in DOMAIN device \ {s} : device[other] = "rows"
              \/ e = "scheduled_tasks" /\ os = "linux"
=============================================================================
