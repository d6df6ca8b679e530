------------------------------ MODULE Enrollment ------------------------------
(***************************************************************************)
(* How serve mode comes by its device key (internal/agent/prepare.go,      *)
(* enroll.go, state.go): a key given by flag, environment or file, the key *)
(* of the state file, or the exchange of a single-use enrollment token.    *)
(* Several processes may share the state file (the service and a console   *)
(* run); each may crash at any step and be started again.                  *)
(*                                                                         *)
(* A key is known by the server that issued it and the device it names, so *)
(* the device id of a state is a part of its key.  Server and disk are     *)
(* external.                                                               *)
(***************************************************************************)
EXTENDS Naturals, FiniteSets

CONSTANTS
    Procs,      \* the agent processes that share the state file
    Servers,    \* the Bifrost URLs that pass ValidateBifrostURL
    BadUrl,     \* one that does not
    Tokens,     \* the enrollment tokens the operator minted
    Configs,    \* the resolved configurations the processes are started with
    InitFiles,  \* what may lie at the state path before the first start
    MaxStarts,  \* bound: how often each process is started
    Given,      \* the device the operator's own keys name
    BadKey,     \* a text that is no device key
    Garbage,    \* a state file that cannot be read or decoded
    None        \* an unset option or field, no file, nothing in hand

Keys == [server : Servers, device : Tokens \cup {Given}]

ServeConfigs == [url : Servers \cup {BadUrl}, key : Keys \cup {BadKey, None},
                 token : Tokens \cup {None}]
DeviceStates == [url : Servers \cup {None}, key : Keys \cup {BadKey, None}]
StateFiles   == DeviceStates \cup {None, Garbage}

ASSUME EnrollmentAssumption ==
    /\ Configs \subseteq ServeConfigs
    /\ InitFiles \subseteq StateFiles
    /\ MaxStarts \in Nat
    /\ BadUrl \notin Servers /\ Given \notin Tokens
    /\ BadKey \notin Keys /\ Garbage \notin DeviceStates
    /\ None \notin Servers \cup {BadUrl, BadKey, Garbage} \cup Tokens \cup Keys
    /\ None \notin ServeConfigs \cup DeviceStates

\* Whoever gives a key names its server: the operator's own keys are those of
\* the URL beside them, and so is the key of the first state file; one that
\* names no server is of every server the agents are started with.
ASSUME GivenKeysAssumption ==
    /\ \A c \in Configs : c.key \in Keys => c.key.server = c.url
    /\ \A f \in InitFiles \cap DeviceStates : f.key \in Keys =>
          IF f.url # None THEN f.key.server = f.url
          ELSE \A c \in Configs : c.url \in Servers => f.key.server = c.url

VARIABLES
    file,     \* the state file
    ppc,      \* where PrepareServe of each process is
    cfg,      \* its configuration
    state,    \* the device state in its hands
    starts,   \* how often it was started
    spent,    \* the tokens the server has exchanged
    \* --- history
    saved,    \* the devices whose state was written to the file
    excused   \* tokens spent for nothing, for a reason the code does not control

prepareVars == <<file, ppc, cfg, state, starts, spent, saved, excused>>

TypeOK ==
    /\ file \in StateFiles
    /\ ppc \in [Procs -> {"off", "begin", "compare", "load", "probe", "enroll",
                          "write", "rename", "ready", "refused"}]
    /\ cfg \in [Procs -> Configs \cup {None}]
    /\ state \in [Procs -> DeviceStates \cup {None}]
    /\ starts \in [Procs -> 0 .. MaxStarts]
    /\ spent \subseteq Tokens
    /\ saved \subseteq Tokens \cup {Given}
    /\ excused \subseteq spent

Init ==
    /\ file \in InitFiles
    /\ ppc = [p \in Procs |-> "off"]
    /\ cfg = [p \in Procs |-> None]
    /\ state = [p \in Procs |-> None]
    /\ starts = [p \in Procs |-> 0]
    /\ spent = {}
    /\ saved = {}
    /\ excused = {}

-----------------------------------------------------------------------------
Start(p, c) ==
    /\ ppc[p] = "off" /\ starts[p] < MaxStarts
    /\ ppc' = [ppc EXCEPT ![p] = "begin"]
    /\ cfg' = [cfg EXCEPT ![p] = c]
    /\ starts' = [starts EXCEPT ![p] = @ + 1]
    /\ UNCHANGED <<file, state, spent, saved, excused>>

Goto(p, l) ==
    /\ ppc' = [ppc EXCEPT ![p] = l]
    /\ UNCHANGED <<file, cfg, state, starts, spent, saved, excused>>

\* With s in hand.
Take(p, s, l) ==
    /\ ppc' = [ppc EXCEPT ![p] = l]
    /\ state' = [state EXCEPT ![p] = s]

ValidDeviceKeyFormat(k) == k \in Keys

\* LoadServeConfig fails: the configuration file cannot be read or decoded.
ConfigFails(p) == ppc[p] = "begin" /\ Goto(p, "refused")

\* The URL and the configured key are checked before anything is read.
Begin(p) ==
    /\ ppc[p] = "begin"
    /\ LET c == cfg[p] IN
       CASE c.url \notin Servers -> Goto(p, "refused")
         [] c.url \in Servers /\ c.key = None -> Goto(p, "load")
         [] c.url \in Servers /\ c.key = BadKey -> Goto(p, "refused")
         [] c.url \in Servers /\ ValidDeviceKeyFormat(c.key) ->
              /\ Take(p, [url |-> c.url, key |-> c.key], "compare")
              /\ UNCHANGED <<file, cfg, starts, spent, saved, excused>>

\* persistIfChanged.
PersistIfChanged(p) ==
    /\ ppc[p] = "compare"
    /\ Goto(p, IF file = state[p] THEN "ready" ELSE "write")

-----------------------------------------------------------------------------
\* LoadDeviceState: a missing file is the zero state.
Loaded   == IF file = None THEN [url |-> None, key |-> None] ELSE file
LoadErr  == file = Garbage
HasKey   == ~LoadErr /\ Loaded.key # None

\* Mutant: whatever server the key belongs to.
UsableAnywhere(p) == HasKey /\ ValidDeviceKeyFormat(Loaded.key)

\* The persisted key is well formed and not another server's.
Usable(p) ==
    /\ HasKey /\ ValidDeviceKeyFormat(Loaded.key)
    /\ Loaded.url \in {None, cfg[p].url}

LoadKey(p) ==
    /\ ppc[p] = "load" /\ Usable(p)
    /\ Take(p, [url |-> cfg[p].url, key |-> Loaded.key], "ready")
    /\ UNCHANGED <<file, cfg, starts, spent, saved, excused>>

\* A key of another server, or no key at all: refused, token or not.
LoadUnusable(p) ==
    /\ ppc[p] = "load" /\ HasKey /\ ~Usable(p)
    /\ Goto(p, "refused")

\* No key: enroll, if there is a token, whether the file is missing or broken.
LoadNoKey(p) ==
    /\ ppc[p] = "load" /\ ~HasKey
    /\ Goto(p, IF cfg[p].token # None THEN "probe" ELSE "refused")

\* ensureStateWritable: a temporary file can be created, or not.
Probe(p) ==
    /\ ppc[p] = "probe"
    /\ \E l \in {"enroll", "refused"} : Goto(p, l)

-----------------------------------------------------------------------------
(* Enroll.                                                                  *)

\* Mutant: the token is kept where the key belongs.
EnrolledKeepsToken(p) ==
    /\ ppc[p] = "enroll" /\ cfg[p].token \notin spent
    /\ spent' = spent \cup {cfg[p].token}
    /\ Take(p, [url |-> cfg[p].url, key |-> cfg[p].token], "write")
    /\ UNCHANGED <<file, cfg, starts, saved, excused>>

\* The server exchanges a token once; the new device is known by its token.
Enrolled(p) ==
    /\ ppc[p] = "enroll" /\ cfg[p].token \notin spent
    /\ spent' = spent \cup {cfg[p].token}
    /\ Take(p, [url |-> cfg[p].url,
                key |-> [server |-> cfg[p].url, device |-> cfg[p].token]], "write")
    /\ UNCHANGED <<file, cfg, starts, saved, excused>>

\* HTTP 4xx: the token has been used.
EnrollRejected(p) ==
    /\ ppc[p] = "enroll" /\ cfg[p].token \in spent
    /\ Goto(p, "refused")

\* No answer, an answer that fails a check, a refused redirect, or a cancelled
\* context; the server may have exchanged the token.
EnrollFails(p) ==
    /\ ppc[p] = "enroll"
    /\ \/ UNCHANGED <<spent, excused>>
       \/ /\ cfg[p].token \notin spent
          /\ spent' = spent \cup {cfg[p].token}
          /\ excused' = excused \cup {cfg[p].token}
    /\ ppc' = [ppc EXCEPT ![p] = "refused"]
    /\ UNCHANGED <<file, cfg, state, starts, saved>>

-----------------------------------------------------------------------------
(* SaveDeviceState: a temporary file beside the state file, then a rename.  *)

\* The token whose key p holds, if it was not saved: lost with p.
InHand(p) ==
    IF state[p] # None /\ state[p].key \in Keys /\ ppc[p] \in {"write", "rename"}
    THEN ({state[p].key.device} \cap spent) \ saved ELSE {}

\* Mutant: the state file itself is truncated and written.
WriteInPlace(p) ==
    /\ ppc[p] = "write"
    /\ file' = Garbage
    /\ ppc' = [ppc EXCEPT ![p] = "rename"]
    /\ UNCHANGED <<cfg, state, starts, spent, saved, excused>>

WriteTemp(p) ==
    /\ ppc[p] = "write"
    /\ Goto(p, "rename")

\* Mutant: the caller goes on as if the state had been saved.
SaveErrorIgnored(p) ==
    /\ ppc[p] \in {"write", "rename"}
    /\ Goto(p, "ready")

\* The directory, the temporary file or the rename fails: refuse to serve.
SaveFails(p) ==
    /\ ppc[p] \in {"write", "rename"}
    /\ excused' = excused \cup InHand(p)
    /\ ppc' = [ppc EXCEPT ![p] = "refused"]
    /\ UNCHANGED <<file, cfg, state, starts, spent, saved>>

Rename(p) ==
    /\ ppc[p] = "rename"
    /\ file' = state[p]
    /\ saved' = saved \cup {state[p].key.device}
    /\ ppc' = [ppc EXCEPT ![p] = "ready"]
    /\ UNCHANGED <<cfg, state, starts, spent, excused>>

\* NewServe fails: the identity is there, and nothing serves with it.
NewServeFails(p) == ppc[p] = "ready" /\ Goto(p, "refused")

\* The process ends, by returning or by a crash at any step.
End(p) ==
    /\ ppc[p] # "off"
    /\ ppc' = [ppc EXCEPT ![p] = "off"]
    /\ cfg' = [cfg EXCEPT ![p] = None]
    /\ state' = [state EXCEPT ![p] = None]
    /\ excused' = excused \cup InHand(p)
    /\ UNCHANGED <<file, starts, spent, saved>>

Prepare(p) ==
    \/ ConfigFails(p) \/ Begin(p) \/ PersistIfChanged(p)
    \/ LoadKey(p) \/ LoadUnusable(p) \/ LoadNoKey(p)
    \/ Probe(p) \/ Enrolled(p) \/ EnrollRejected(p) \/ EnrollFails(p)
    \/ WriteTemp(p) \/ SaveFails(p) \/ Rename(p)

Next == \E p \in Procs :
    (\E c \in Configs : Start(p, c)) \/ Prepare(p) \/ NewServeFails(p) \/ End(p)

Spec == Init /\ [][Next]_prepareVars

-----------------------------------------------------------------------------
HoldsKey(f) == f \in DeviceStates /\ f.key \in Keys

\* A key is only ever used with, and filed under, the server that issued it:
\* not after the URL was changed, not with two processes at one state file.
KeyStaysWithItsServer ==
    /\ HoldsKey(file) /\ file.url # None => file.key.server = file.url
    /\ \A p \in Procs : ppc[p] = "ready" =>
          state[p].url = cfg[p].url /\ state[p].key.server = cfg[p].url

\* A spent token has left its key in the state file, or a process is about to
\* save it, or it was lost for a reason outside the code: no usable answer, a
\* failed save, a crash.
TokenAccounted ==
    \A t \in spent :
        t \in saved \cup excused \/ \E p \in Procs : t \in InHand(p)

\* What was a usable state stays one: no crash, failure or second process
\* leaves a broken or a missing file where a key was.
KeyNeverLost == [][HoldsKey(file) => HoldsKey(file')]_file
=============================================================================
