--------------------------- MODULE ServeModeProofs ---------------------------
(***************************************************************************)
(* Theorems about ServeMode and the Enrollment it contains, for every set  *)
(* of processes, servers, tokens and configurations, and any number of     *)
(* starts.                                                                 *)
(*                                                                         *)
(* What concerns the identity is proved of Enrollment by itself; serve     *)
(* mode inherits it, because each of its steps is a step of Enrollment or  *)
(* leaves that alone (ServeModeEnrolls).                                   *)
(***************************************************************************)
EXTENDS ServeMode, TLAPS

\* What the code builds itself: a device state whose key is of its server.
Proper(s) ==
    /\ s \in [url : Servers, key : Keys]
    /\ s.key.server = s.url

\* The file is the one that was there, or one of ours.
FileInv == file \in InitFiles \/ Proper(file)

\* A process that is on has a configuration, whose URL was checked before
\* anything else is done; what it means to save or to serve with is proper and
\* of the server it is configured for.
HandInv ==
    \A p \in Procs :
        /\ ppc[p] # "off" => cfg[p] \in Configs
        /\ ppc[p] \notin {"off", "begin", "refused"} => cfg[p].url \in Servers
        /\ ppc[p] \in {"probe", "enroll"} => cfg[p].token \in Tokens
        /\ ppc[p] \in {"compare", "write", "rename", "ready"} =>
              Proper(state[p]) /\ state[p].url = cfg[p].url

IdentityInv == TypeOK /\ FileInv /\ HandInv

\* The parts of a state and of a configuration.
LEMMA StateParts ==
  /\ \A s : Proper(s) => /\ s \in DeviceStates /\ s.key \in Keys /\ s.url \in Servers
                         /\ s.key.server = s.url /\ s.key.device \in Tokens \cup {Given}
                         /\ s # None /\ s # Garbage
  /\ \A c \in Configs : /\ c.url \in Servers \cup {BadUrl}
                        /\ c.key \in Keys \cup {BadKey, None}
                        /\ c.token \in Tokens \cup {None}
                        /\ c # None
BY EnrollmentAssumption DEF Proper, DeviceStates, Keys, ServeConfigs

\* A new configuration finds no process on and the file as it was.
LEMMA IdentityInit == Init => IdentityInv
BY EnrollmentAssumption DEF Init, IdentityInv, TypeOK, FileInv, HandInv, StateFiles

-----------------------------------------------------------------------------
\* The steps of PrepareServe that only move on, with what the process needs to
\* know where it arrives.
LEMMA GotoKeeps ==
  ASSUME IdentityInv, NEW p \in Procs, NEW l, Goto(p, l),
         ppc[p] # "off",
         l \in {"load", "probe", "enroll", "write", "rename", "ready", "refused"},
         l # "refused" => cfg[p].url \in Servers,
         l \in {"probe", "enroll"} => cfg[p].token \in Tokens,
         l \in {"write", "rename", "ready"} =>
            Proper(state[p]) /\ state[p].url = cfg[p].url
  PROVE  IdentityInv'
BY Zenon DEF Goto, IdentityInv, TypeOK, FileInv, HandInv

\* A start, the preparation of an identity at any step, and an end.
LEMMA IdentityStep ==
  ASSUME IdentityInv, Next
  PROVE  IdentityInv'
<1> USE DEF IdentityInv
<1>1. ASSUME NEW p \in Procs, NEW c \in Configs, Start(p, c) PROVE IdentityInv'
  BY <1>1, EnrollmentAssumption DEF Start, TypeOK, FileInv, HandInv
<1>2. ASSUME NEW p \in Procs, Begin(p) PROVE IdentityInv'
  <2> DEFINE c == cfg[p]
  <2>1. c \in Configs /\ c.url \in Servers \cup {BadUrl}
        /\ c.key \in Keys \cup {BadKey, None} /\ c.token \in Tokens \cup {None}
    BY <1>2, StateParts DEF Begin, HandInv
  <2>2. CASE c.url \notin Servers
    BY <1>2, <2>2, GotoKeeps DEF Begin
  <2>3. CASE c.url \in Servers /\ c.key = None
    BY <1>2, <2>3, GotoKeeps, EnrollmentAssumption DEF Begin, ValidDeviceKeyFormat
  <2>4. CASE c.url \in Servers /\ c.key = BadKey
    BY <1>2, <2>4, GotoKeeps, EnrollmentAssumption DEF Begin, ValidDeviceKeyFormat
  <2>5. CASE c.url \in Servers /\ c.key \in Keys
    <3>1. /\ Take(p, [url |-> c.url, key |-> c.key], "compare")
          /\ UNCHANGED <<file, cfg, starts, spent, saved, excused>>
      BY <1>2, <2>5, EnrollmentAssumption DEF Begin, ValidDeviceKeyFormat
    <3>2. Proper([url |-> c.url, key |-> c.key])
      BY <2>1, <2>5, GivenKeysAssumption DEF Proper
    <3> QED BY <1>2, <3>1, <3>2, StateParts DEF Take, Begin, TypeOK, FileInv, HandInv
  <2> QED BY <2>1, <2>2, <2>3, <2>4, <2>5
<1>3. ASSUME NEW p \in Procs, PersistIfChanged(p) PROVE IdentityInv'
  BY <1>3, GotoKeeps DEF PersistIfChanged, HandInv
<1>4. ASSUME NEW p \in Procs, LoadKey(p) PROVE IdentityInv'
  <2>1. cfg[p] \in Configs /\ cfg[p].url \in Servers
    BY <1>4 DEF LoadKey, HandInv
  <2>2. file \in DeviceStates /\ file # None /\ file.key \in Keys
        /\ file.url \in {None, cfg[p].url} /\ Loaded = file
    BY <1>4, EnrollmentAssumption
       DEF LoadKey, Usable, HasKey, LoadErr, Loaded, ValidDeviceKeyFormat, TypeOK, StateFiles
  <2>3. file.key.server = cfg[p].url
    <3>1. CASE Proper(file)
      BY <2>2, <3>1, EnrollmentAssumption DEF Proper
    <3>2. CASE file \in InitFiles
      BY <2>1, <2>2, <3>2, GivenKeysAssumption
    <3> QED BY <3>1, <3>2 DEF FileInv
  <2>4. Proper([url |-> cfg[p].url, key |-> Loaded.key])
    BY <2>1, <2>2, <2>3 DEF Proper
  <2> QED BY <1>4, <2>1, <2>4, StateParts DEF LoadKey, Take, TypeOK, FileInv, HandInv
<1>5. ASSUME NEW p \in Procs, LoadUnusable(p) PROVE IdentityInv'
  BY <1>5, GotoKeeps DEF LoadUnusable
<1>6. ASSUME NEW p \in Procs, LoadNoKey(p) PROVE IdentityInv'
  BY <1>6, GotoKeeps, StateParts DEF LoadNoKey, HandInv
<1>7. ASSUME NEW p \in Procs, Probe(p) PROVE IdentityInv'
  BY <1>7, GotoKeeps DEF Probe, HandInv
<1>8. ASSUME NEW p \in Procs, Enrolled(p) PROVE IdentityInv'
  <2>1. cfg[p].url \in Servers /\ cfg[p].token \in Tokens
    BY <1>8 DEF Enrolled, HandInv
  <2>2. Proper([url |-> cfg[p].url,
                key |-> [server |-> cfg[p].url, device |-> cfg[p].token]])
    BY <2>1 DEF Proper, Keys
  <2> QED BY <1>8, <2>1, <2>2, StateParts DEF Enrolled, Take, TypeOK, FileInv, HandInv
<1>9. ASSUME NEW p \in Procs, EnrollRejected(p) PROVE IdentityInv'
  BY <1>9, GotoKeeps DEF EnrollRejected
<1>10. ASSUME NEW p \in Procs, EnrollFails(p) PROVE IdentityInv'
  BY <1>10 DEF EnrollFails, TypeOK, FileInv, HandInv
<1>11. ASSUME NEW p \in Procs, WriteTemp(p) PROVE IdentityInv'
  BY <1>11, GotoKeeps DEF WriteTemp, HandInv
<1>12. ASSUME NEW p \in Procs, SaveFails(p) PROVE IdentityInv'
  BY <1>12 DEF SaveFails, InHand, TypeOK, FileInv, HandInv
<1>13. ASSUME NEW p \in Procs, Rename(p) PROVE IdentityInv'
  <2>1. Proper(state[p])
    BY <1>13 DEF Rename, HandInv
  <2> QED BY <1>13, <2>1, StateParts DEF Rename, TypeOK, FileInv, HandInv, StateFiles
<1>14. ASSUME NEW p \in Procs, End(p) PROVE IdentityInv'
  BY <1>14 DEF End, InHand, TypeOK, FileInv, HandInv
<1>15. ASSUME NEW p \in Procs, ConfigFails(p) \/ NewServeFails(p) PROVE IdentityInv'
  BY <1>15, GotoKeeps DEF ConfigFails, NewServeFails
<1> QED
  BY <1>1, <1>2, <1>3, <1>4, <1>5, <1>6, <1>7, <1>8, <1>9, <1>10, <1>11, <1>12,
     <1>13, <1>14, <1>15 DEF Next, Prepare

\* Every variable of the enrollment keeps its type, and every key its server,
\* whichever process read, was given or was issued it.
LEMMA IdentityInvariance == Spec => []IdentityInv
<1>1. IdentityInv /\ UNCHANGED prepareVars => IdentityInv'
  BY Zenon DEF IdentityInv, TypeOK, FileInv, HandInv, prepareVars
<1> QED BY <1>1, IdentityInit, IdentityStep, PTL DEF Spec

-----------------------------------------------------------------------------
(* Tokens.                                                                  *)

\* What a step of p leaves of the tokens in the hands of the others.
LEMMA OthersHold ==
  ASSUME IdentityInv, NEW p \in Procs, NEW q \in Procs, q # p,
         ppc'[q] = ppc[q], state'[q] = state[q], spent \subseteq spent', saved' = saved
  PROVE  InHand(q) \subseteq InHand(q)'
BY DEF InHand

\* A step that touches no token and takes none out of a hand.
LEMMA AccountedStays ==
  ASSUME TokenAccounted, spent' = spent, saved \subseteq saved', excused \subseteq excused',
         \A q \in Procs : InHand(q) \subseteq InHand(q)' \cup saved' \cup excused'
  PROVE  TokenAccounted'
BY DEF TokenAccounted

\* The checks of the URL and the configured key, as moves.
LEMMA BeginMoves ==
  ASSUME IdentityInv, NEW p \in Procs, Begin(p)
  PROVE  \/ \E l : Goto(p, l)
         \/ \E s, l : Take(p, s, l) /\ UNCHANGED <<file, spent, saved, excused>>
<1>1. cfg[p] \in Configs /\ cfg[p].url \in Servers \cup {BadUrl}
      /\ cfg[p].key \in Keys \cup {BadKey, None}
  BY StateParts DEF Begin, IdentityInv, HandInv
<1> QED BY <1>1 DEF Begin, ValidDeviceKeyFormat

\* A token is put into a hand when it is spent, and leaves it only for the
\* file or with the failure that loses it.
LEMMA TokenStep ==
  ASSUME IdentityInv, TokenAccounted, Next
  PROVE  TokenAccounted'
<1> USE DEF IdentityInv
<1> DEFINE Moves(p) == \A q \in Procs : q # p => ppc'[q] = ppc[q] /\ state'[q] = state[q]
<1>1. ASSUME NEW p \in Procs, NEW c \in Configs, Start(p, c) PROVE TokenAccounted'
  <2>1. Moves(p) /\ ppc[p] = "off" /\ UNCHANGED <<spent, saved, excused>>
    BY <1>1 DEF Start, TypeOK
  <2> QED BY <2>1, AccountedStays DEF InHand
<1>2. ASSUME NEW p \in Procs, NEW l, Goto(p, l),
             ppc[p] \in {"write", "rename"} => l \in {"write", "rename"}
      PROVE  TokenAccounted'
  <2>1. Moves(p) /\ ppc'[p] = l /\ state' = state /\ UNCHANGED <<spent, saved, excused>>
    BY <1>2 DEF Goto, TypeOK
  <2> QED BY <1>2, <2>1, AccountedStays DEF InHand
<1>3. ASSUME NEW p \in Procs, NEW s, NEW l, Take(p, s, l),
             ppc[p] \in {"begin", "load"}, UNCHANGED <<spent, saved, excused>>
      PROVE  TokenAccounted'
  <2>1. Moves(p)
    BY <1>3 DEF Take, TypeOK
  <2> QED BY <1>3, <2>1, AccountedStays DEF InHand
<1>4. ASSUME NEW p \in Procs, Begin(p) PROVE TokenAccounted'
  <2>1. ppc[p] = "begin"
    BY <1>4 DEF Begin
  <2> QED BY <1>2, <1>3, <1>4, <2>1, BeginMoves
<1>5. ASSUME NEW p \in Procs, LoadKey(p) PROVE TokenAccounted'
  BY <1>3, <1>5 DEF LoadKey
<1>6. ASSUME NEW p \in Procs,
             \/ PersistIfChanged(p) \/ LoadUnusable(p) \/ LoadNoKey(p) \/ Probe(p)
             \/ EnrollRejected(p) \/ WriteTemp(p) \/ ConfigFails(p) \/ NewServeFails(p)
      PROVE  TokenAccounted'
  BY <1>2, <1>6
     DEF ConfigFails, NewServeFails, PersistIfChanged, LoadUnusable, LoadNoKey, Probe, EnrollRejected, WriteTemp
<1>7. ASSUME NEW p \in Procs, Enrolled(p) PROVE TokenAccounted'
  <2> DEFINE t == cfg[p].token
             s == [url |-> cfg[p].url, key |-> [server |-> cfg[p].url, device |-> t]]
  <2>1. /\ Moves(p) /\ ppc[p] = "enroll" /\ ppc'[p] = "write" /\ state'[p] = s
        /\ spent' = spent \cup {t} /\ UNCHANGED <<saved, excused>>
    BY <1>7 DEF Enrolled, Take, TypeOK
  <2>2. s # None /\ s.key \in Keys /\ s.key.device = t
    <3>1. Proper(s)
      BY <1>7 DEF Enrolled, HandInv, Proper, Keys
    <3> QED BY <3>1, StateParts
  <2>3. t \in saved' \/ t \in InHand(p)'
    BY <2>1, <2>2 DEF InHand
  <2>4. \A q \in Procs : InHand(q) \subseteq InHand(q)'
    BY <2>1, OthersHold DEF InHand
  <2> QED BY <2>1, <2>3, <2>4 DEF TokenAccounted
<1>8. ASSUME NEW p \in Procs, EnrollFails(p) PROVE TokenAccounted'
  <2>1. /\ Moves(p) /\ ppc[p] = "enroll" /\ state' = state /\ saved' = saved
        /\ \/ UNCHANGED <<spent, excused>>
           \/ spent' = spent \cup {cfg[p].token} /\ excused' = excused \cup {cfg[p].token}
    BY <1>8 DEF EnrollFails, TypeOK
  <2>2. \A q \in Procs : InHand(q) \subseteq InHand(q)'
    BY <2>1, OthersHold DEF InHand
  <2> QED BY <2>1, <2>2 DEF TokenAccounted
<1>9. ASSUME NEW p \in Procs, SaveFails(p) \/ End(p) PROVE TokenAccounted'
  <2>1. Moves(p) /\ excused' = excused \cup InHand(p) /\ UNCHANGED <<spent, saved>>
    BY <1>9 DEF SaveFails, End, TypeOK
  <2>2. \A q \in Procs : q # p => InHand(q) \subseteq InHand(q)'
    BY <2>1, OthersHold
  <2> QED BY <2>1, <2>2, AccountedStays
<1>10. ASSUME NEW p \in Procs, Rename(p) PROVE TokenAccounted'
  <2>1. /\ Moves(p) /\ state' = state /\ saved' = saved \cup {state[p].key.device}
        /\ UNCHANGED <<spent, excused>>
    BY <1>10 DEF Rename, TypeOK
  <2>2. \A q \in Procs : InHand(q) \subseteq InHand(q)' \cup saved'
    BY <2>1 DEF InHand
  <2> QED BY <2>1, <2>2, AccountedStays
<1> QED
  BY <1>1, <1>4, <1>5, <1>6, <1>7, <1>8, <1>9, <1>10 DEF Next, Prepare

-----------------------------------------------------------------------------
(* What serve mode adds.                                                    *)

\* Each step of serve mode is a step of the enrollment, or leaves it alone.
LEMMA ServeModeEnrolls == ServeModeSpec => Spec
<1>1. ServeModeInit => Init
  BY DEF ServeModeInit
<1>2. [ServeModeNext]_vars => [Next]_prepareVars
  <2> SUFFICES ASSUME ServeModeNext PROVE [Next]_prepareVars
    BY Zenon DEF vars
  <2>1. ASSUME NEW c \in Configs, StartService(c) PROVE Next
    BY <2>1, ServeModeAssumption DEF StartService, Next
  <2>2. ASSUME NEW p \in Procs, NEW c \in Configs, StartConsole(p, c) PROVE Next
    BY <2>2 DEF StartConsole, Next
  <2>3. ASSUME NEW p \in Procs, PrepareServe(p) PROVE Next
    BY <2>3 DEF PrepareServe, Next
  <2>4. ASSUME NEW p \in Procs, ConsoleEnds(p) PROVE Next
    BY <2>4 DEF ConsoleEnds, Next
  <2>5. CASE ServiceEnds
    BY <2>5, ServeModeAssumption DEF ServiceEnds, Next
  <2>6. CASE RefusedToServe \/ BeginServing \/ ServeReturns \/ Handling
    BY <2>6, Zenon DEF RefusedToServe, BeginServing, ServeReturns, Handling
  <2>7. CASE \/ Serving(H!Hints) \/ Serving(H!Claims) \/ Serving(H!TimerFires)
             \/ Serving(H!Server)
    BY <2>7, Zenon DEF Serving
  <2>8. ASSUME NEW p \in Procs, RefuseToServe(p) PROVE Next
    BY <2>8 DEF RefuseToServe, Next
  <2> QED
    BY <2>1, <2>2, <2>3, <2>4, <2>5, <2>6, <2>7, <2>8, Zenon DEF ServeModeNext
<1> QED BY <1>1, <1>2, PTL DEF ServeModeSpec, Spec

\* A key is only ever used with, and filed under, the server that issued it,
\* with any number of agents at one state file and any changes of the URL
\* between their starts (prepare.go:34-88).
THEOREM KeysKeepTheirServer == ServeModeSpec => []KeyStaysWithItsServer
<1>1. IdentityInv => KeyStaysWithItsServer
  BY GivenKeysAssumption
     DEF IdentityInv, FileInv, HandInv, KeyStaysWithItsServer, HoldsKey, Proper
<1> QED BY <1>1, IdentityInvariance, ServeModeEnrolls, PTL

\* A spent token has left its key in the state file, or a process is about to
\* save it, or it was lost for a reason that is not the code's
\* (prepare.go:64-88, state.go).
THEOREM TokensAccounted == ServeModeSpec => []TokenAccounted
<1>1. Init => TokenAccounted
  BY DEF Init, TokenAccounted
<1>2. TokenAccounted /\ UNCHANGED prepareVars => TokenAccounted'
  BY Zenon DEF TokenAccounted, InHand, prepareVars
<1>3. Spec => []TokenAccounted
  BY <1>1, <1>2, TokenStep, IdentityInvariance, PTL DEF Spec
<1> QED BY <1>3, ServeModeEnrolls, PTL

\* A state file with a key is only ever replaced by one with a key: by the
\* rename of a complete file (state.go, SaveDeviceState).
THEOREM KeysAreNeverLost == ServeModeSpec => KeyNeverLost
<1>1. IdentityInv /\ Next => (HoldsKey(file) => HoldsKey(file'))
  <2> SUFFICES ASSUME IdentityInv, Next, file' # file PROVE HoldsKey(file')
    OBVIOUS
  <2>1. PICK p \in Procs : Rename(p)
    BY BeginMoves, Zenon
       DEF Next, Prepare, Start, Goto, ConfigFails, NewServeFails, PersistIfChanged, LoadKey, LoadUnusable, LoadNoKey,
           Probe, Enrolled, EnrollRejected, EnrollFails, WriteTemp, SaveFails, End
  <2>2. Proper(state[p])
    BY <2>1 DEF Rename, IdentityInv, HandInv
  <2> QED BY <2>1, <2>2, StateParts DEF Rename, HoldsKey
<1>2. IdentityInv /\ [Next]_prepareVars => [HoldsKey(file) => HoldsKey(file')]_file
  BY <1>1, Zenon DEF prepareVars
<1> QED BY <1>2, IdentityInvariance, ServeModeEnrolls, PTL DEF Spec, KeyNeverLost

-----------------------------------------------------------------------------
(* The service.                                                             *)

\* The service's process is on exactly while Execute is under way or has
\* returned, and serves only with an identity that is ready.
ServiceInv ==
    /\ ppc[Service] = "off" <=> spc = "off"
    /\ lpc # "off" => ppc[Service] = "ready"
    /\ spc = "off" => lpc = "off" /\ done = NoCode

\* The exit code is there, or has been taken, only when serve is over.
OverInv ==
    spc = "return" \/ done # NoCode =>
        lpc = "ended" \/ (lpc = "off" /\ ppc[Service] = "refused")

ServeModeInv == IdentityInv /\ H!TypeOK /\ S!TypeOK /\ ServiceInv /\ OverInv

LEMMA ServeModeInvInit == ServeModeInit => ServeModeInv
<1> SUFFICES ASSUME ServeModeInit PROVE ServeModeInv
  OBVIOUS
<1>1. IdentityInv
  BY IdentityInit DEF ServeModeInit
<1>2. H!TypeOK
  <2>1. ctxDone \in BOOLEAN /\ wake \in BOOLEAN
    BY Zenon DEF ServeModeInit, H!Init, S!Init
  <2>2. attempt \in 0 .. BackoffSteps
    BY ServeModeAssumption DEF ServeModeInit, H!Init
  <2> QED BY <2>1, <2>2 DEF ServeModeInit, H!Init, H!TypeOK
<1>3. S!TypeOK
  BY DEF ServeModeInit, S!Init, S!TypeOK
<1>4. ServiceInv /\ OverInv
  BY ServeModeAssumption DEF ServeModeInit, Init, H!Init, S!Init, ServiceInv, OverInv
<1> QED BY <1>1, <1>2, <1>3, <1>4 DEF ServeModeInv

\* The goroutines of the hint client and the claim loop keep their types, and a
\* loop that is off or has ended stays so.
LEMMA HintStep ==
  ASSUME H!TypeOK,
         H!Hints \/ H!Claims \/ H!TimerFires \/ H!Server, UNCHANGED ctxDone
  PROVE  H!TypeOK' /\ (lpc \in {"off", "ended"} => lpc' = lpc) /\ (lpc = "off" <=> lpc' = "off")
<1> USE DEF H!TypeOK
<1>1. CASE H!Hints
  <2> USE DEF H!Hints, H!HintsEnd, H!DialFails, H!DialWorks, H!ReadHint, H!ReadOther,
              H!ReadFails, H!BackoffOver, H!BackoffCancelled, H!loopVars
  <2>1. ctxDone' \in BOOLEAN /\ wake' \in BOOLEAN
    BY <1>1, Zenon
  <2>2. attempt' \in 0 .. BackoffSteps
    BY <1>1, ServeModeAssumption
  <2>3. lpc' = lpc /\ timer' = timer /\ queue' = queue
    BY <1>1
  <2>4. hpc' \in {"off", "dial", "backoff", "read", "ended"} /\ frames' \in {"none", "hint", "other"}
    BY <1>1
  <2> QED BY <2>1, <2>2, <2>3, <2>4
<1>2. CASE H!Claims
  BY <1>2
     DEF H!Claims, H!SelectDone, H!SelectWake, H!SelectTimer, H!ClaimFails, H!NothingQueued,
         H!ClaimJob, H!Processed, H!Claiming, H!socketVars
<1>3. CASE H!TimerFires
  BY <1>3 DEF H!TimerFires, H!socketVars
<1>4. CASE H!Server
  BY <1>4 DEF H!Server, H!Enqueue, H!SendsOther, H!loopVars
<1> QED BY <1>1, <1>2, <1>3, <1>4

\* What a step of the enrollment does to the place of the service's process,
\* when another process takes it, or the service itself.
LEMMA PlaceOfService ==
  ASSUME IdentityInv, NEW p \in Procs
  PROVE  /\ \A c \in Configs : Start(p, c) =>
               ppc[p] = "off" /\ ppc'[p] = "begin"
               /\ (p # Service => ppc'[Service] = ppc[Service])
         /\ End(p) => ppc[p] # "off" /\ ppc'[p] = "off"
               /\ (p # Service => ppc'[Service] = ppc[Service])
         /\ Prepare(p) =>
               ppc[p] \notin {"off", "ready", "refused"} /\ ppc'[p] # "off"
               /\ (p # Service => ppc'[Service] = ppc[Service])
         /\ NewServeFails(p) =>
               ppc[p] = "ready" /\ ppc'[p] = "refused"
               /\ (p # Service => ppc'[Service] = ppc[Service])
<1> USE ServeModeAssumption DEF IdentityInv, TypeOK
<1>1. ASSUME NEW c \in Configs, Start(p, c)
      PROVE  ppc[p] = "off" /\ ppc'[p] = "begin" /\ (p # Service => ppc'[Service] = ppc[Service])
  BY <1>1 DEF Start
<1>2. ASSUME End(p)
      PROVE  ppc[p] # "off" /\ ppc'[p] = "off" /\ (p # Service => ppc'[Service] = ppc[Service])
  BY <1>2 DEF End
<1>3. ASSUME NEW l, ppc' = [ppc EXCEPT ![p] = l]
      PROVE  ppc'[p] = l /\ (p # Service => ppc'[Service] = ppc[Service])
  BY <1>3
<1>4. ASSUME Prepare(p)
      PROVE  ppc[p] \notin {"off", "ready", "refused"}
             /\ \E l : l # "off" /\ ppc' = [ppc EXCEPT ![p] = l]
  <2>1. CASE Begin(p)
    <3>1. cfg[p] \in Configs /\ cfg[p].url \in Servers \cup {BadUrl}
          /\ cfg[p].key \in Keys \cup {BadKey, None}
      BY <2>1, StateParts DEF Begin, HandInv
    <3> QED BY <2>1, <3>1 DEF Begin, ValidDeviceKeyFormat, Goto, Take
  <2>2. CASE \/ PersistIfChanged(p) \/ LoadKey(p) \/ LoadUnusable(p) \/ LoadNoKey(p) \/ Probe(p)
    BY <2>2 DEF PersistIfChanged, LoadKey, LoadUnusable, LoadNoKey, Probe, Goto, Take
  <2>4. CASE ConfigFails(p)
    BY <2>4 DEF ConfigFails, Goto
  <2>3. CASE \/ Enrolled(p) \/ EnrollRejected(p) \/ EnrollFails(p)
             \/ WriteTemp(p) \/ SaveFails(p) \/ Rename(p)
    BY <2>3 DEF Enrolled, EnrollRejected, EnrollFails, WriteTemp, SaveFails, Rename, Goto, Take
  <2> QED BY <1>4, <2>1, <2>2, <2>3, <2>4 DEF Prepare
<1>5. ASSUME NewServeFails(p)
      PROVE  ppc[p] = "ready" /\ ppc'[p] = "refused" /\ (p # Service => ppc'[Service] = ppc[Service])
  BY <1>5 DEF NewServeFails, Goto
<1> QED BY <1>1, <1>2, <1>3, <1>4, <1>5

\* The steps of the service handler and of its serve goroutine keep their types.
LEMMA HandlerStep ==
  ASSUME S!TypeOK, ctxDone \in BOOLEAN,
         S!Execute \/ S!Returns(0) \/ S!Returns(2) \/ S!Handler \/ S!Exit
  PROVE  S!TypeOK' /\ ctxDone' \in BOOLEAN
<1>0. 0 \in S!Codes /\ 2 \in S!Codes
  BY SMT DEF S!Codes
<1> USE DEF S!Execute, S!Returns, S!Handler, S!SeesDone, S!Stop, S!Stopped, S!Exit, S!TypeOK
<1>1. ctxDone' \in BOOLEAN
  BY Zenon
<1>2. done' \in S!Codes \cup {NoCode}
  BY <1>0, Zenon
<1>3. spc' \in {"off", "run", "stop", "return"} /\ status' \in {"stopped", "running", "stop pending"}
  OBVIOUS
<1>4. report' = NoCode \/ report' \in [specific : BOOLEAN, code : S!Codes]
  <2>1. CASE S!SeesDone
    <3>1. report' = [specific |-> done # 0, code |-> done] /\ done \in S!Codes
      BY <2>1, Zenon
    <3> QED BY <3>1, Zenon
  <2>2. CASE S!Stopped
    <3>1. report' = [specific |-> FALSE, code |-> done] /\ done \in S!Codes
      BY <2>2, Zenon
    <3> QED BY <3>1, Zenon
  <2>3. CASE S!Execute \/ S!Returns(0) \/ S!Returns(2) \/ S!Stop \/ S!Exit
    BY <2>3, Zenon
  <2> QED BY <2>1, <2>2, <2>3
<1> QED BY <1>1, <1>2, <1>3, <1>4

\* Types that a step does not touch.
LEMMA TypesKept ==
  /\ H!TypeOK /\ UNCHANGED serving /\ ctxDone' \in BOOLEAN => H!TypeOK'
  /\ S!TypeOK /\ UNCHANGED service => S!TypeOK'
  /\ H!TypeOK => ctxDone \in BOOLEAN
<1>1. H!TypeOK /\ UNCHANGED serving /\ ctxDone' \in BOOLEAN => H!TypeOK'
  BY Zenon DEF H!TypeOK, serving
<1>2. S!TypeOK /\ UNCHANGED service => S!TypeOK'
  BY Zenon DEF S!TypeOK, service
<1>3. H!TypeOK => ctxDone \in BOOLEAN
  BY Zenon DEF H!TypeOK
<1> QED BY <1>1, <1>2, <1>3

\* The service handler, the preparation and the loop keep what they know of
\* each other.
LEMMA ServeModeStep ==
  ASSUME ServeModeInv, IdentityInv', ServeModeNext
  PROVE  ServeModeInv'
<1> DEFINE Goal == H!TypeOK' /\ S!TypeOK' /\ ServiceInv' /\ OverInv'
<1> USE ServeModeAssumption DEF ServeModeInv
<1> SUFFICES Goal
  OBVIOUS
<1>1. ASSUME NEW c \in Configs, StartService(c) PROVE Goal
  <2>1. H!TypeOK' /\ S!TypeOK'
    BY <1>1, HandlerStep, TypesKept DEF StartService
  <2>2. ppc'[Service] = "begin" /\ ppc[Service] = "off"
    BY <1>1, PlaceOfService DEF StartService
  <2>3. ServiceInv' /\ OverInv'
    BY <1>1, <2>2 DEF StartService, S!Execute, ServiceInv, OverInv, serving
  <2> QED BY <2>1, <2>3
<1>2. ASSUME NEW p \in Procs, p # Service,
             (\E c \in Configs : StartConsole(p, c)) \/ ConsoleEnds(p)
      PROVE  Goal
  <2>1. ppc'[Service] = ppc[Service] /\ UNCHANGED <<service, serving>>
    BY <1>2, PlaceOfService DEF StartConsole, ConsoleEnds
  <2>2. H!TypeOK' /\ S!TypeOK'
    BY <2>1, TypesKept DEF service
  <2>3. ServiceInv' /\ OverInv'
    BY <2>1 DEF ServiceInv, OverInv, service, serving
  <2> QED BY <2>2, <2>3
<1>3. ASSUME NEW p \in Procs, PrepareServe(p) PROVE Goal
  <2>1. /\ ppc'[Service] # ppc[Service] =>
              ppc[Service] \notin {"off", "ready", "refused"} /\ ppc'[Service] # "off"
        /\ UNCHANGED <<service, serving>>
    BY <1>3, PlaceOfService DEF PrepareServe
  <2>2. H!TypeOK' /\ S!TypeOK'
    BY <2>1, TypesKept DEF service
  <2>3. ServiceInv' /\ OverInv'
    BY <2>1 DEF ServiceInv, OverInv, service, serving
  <2> QED BY <2>2, <2>3
<1>4. CASE RefusedToServe
  <2>1. H!TypeOK' /\ S!TypeOK'
    BY <1>4, HandlerStep, TypesKept DEF RefusedToServe
  <2>2. ServiceInv' /\ OverInv'
    BY <1>4 DEF RefusedToServe, S!Returns, ServiceInv, OverInv, serving, prepareVars
  <2> QED BY <2>1, <2>2
<1>5. CASE BeginServing
  <2>1. S!TypeOK'
    BY <1>5, TypesKept DEF BeginServing
  <2>2. H!TypeOK'
    <3>1. ctxDone' \in BOOLEAN /\ wake' \in BOOLEAN
      BY <1>5, Zenon DEF BeginServing, H!Begin, H!TypeOK, service
    <3> QED BY <1>5, <3>1 DEF BeginServing, H!Begin, H!TypeOK
  <2>3. ServiceInv' /\ OverInv'
    BY <1>5 DEF BeginServing, H!Begin, ServiceInv, OverInv, service, prepareVars
  <2> QED BY <2>1, <2>2, <2>3
<1>6. CASE ServeReturns
  <2>1. H!TypeOK' /\ S!TypeOK'
    BY <1>6, HandlerStep, TypesKept DEF ServeReturns
  <2>2. ServiceInv' /\ OverInv'
    BY <1>6 DEF ServeReturns, S!Returns, ServiceInv, OverInv, serving, prepareVars
  <2> QED BY <2>1, <2>2
<1>7. CASE ServiceEnds
  <2>1. S!TypeOK'
    BY <1>7, HandlerStep, TypesKept DEF ServiceEnds
  <2>2. H!TypeOK'
    <3>1. ctxDone' \in BOOLEAN /\ wake' \in BOOLEAN
      BY <1>7, Zenon DEF ServiceEnds, S!Exit, H!Reset
    <3> QED BY <1>7, <3>1 DEF ServiceEnds, H!Reset, H!TypeOK
  <2>3. ppc'[Service] = "off"
    BY <1>7, PlaceOfService DEF ServiceEnds
  <2>4. ServiceInv' /\ OverInv'
    BY <1>7, <2>3 DEF ServiceEnds, S!Exit, H!Reset, ServiceInv, OverInv
  <2> QED BY <2>1, <2>2, <2>4
<1>8. CASE Handling
  <2>1. H!TypeOK' /\ S!TypeOK'
    BY <1>8, HandlerStep, TypesKept DEF Handling
  <2>2. ServiceInv' /\ OverInv'
    BY <1>8 DEF Handling, S!Handler, S!SeesDone, S!Stop, S!Stopped, ServiceInv, OverInv,
       serving, prepareVars
  <2> QED BY <2>1, <2>2
<1>9. CASE \/ Serving(H!Hints) \/ Serving(H!Claims) \/ Serving(H!TimerFires)
           \/ Serving(H!Server)
  <2>1. /\ H!Hints \/ H!Claims \/ H!TimerFires \/ H!Server
        /\ UNCHANGED <<prepareVars, service>>
    BY <1>9, Zenon DEF Serving
  <2>2. /\ H!TypeOK' /\ (lpc \in {"off", "ended"} => lpc' = lpc) /\ (lpc = "off" <=> lpc' = "off")
    BY <2>1, HintStep DEF service
  <2>3. S!TypeOK'
    BY <2>1, TypesKept
  <2>4. ServiceInv' /\ OverInv'
    BY <2>1, <2>2 DEF ServiceInv, OverInv, service, prepareVars
  <2> QED BY <2>2, <2>3, <2>4
<1>10. (\A p : ConsoleEnds(p) => p # Service) /\ (\A p, c : StartConsole(p, c) => p # Service)
  BY DEF ConsoleEnds, StartConsole
<1>11. ASSUME NEW p \in Procs, RefuseToServe(p) PROVE Goal
  <2>1. /\ ppc'[Service] # ppc[Service] => lpc = "off" /\ ppc'[Service] = "refused"
        /\ ppc[Service] = "off" <=> ppc'[Service] = "off"
        /\ UNCHANGED <<service, serving>>
    BY <1>11, PlaceOfService DEF RefuseToServe
  <2>2. H!TypeOK' /\ S!TypeOK'
    BY <2>1, TypesKept DEF service
  <2>3. ServiceInv' /\ OverInv'
    BY <2>1 DEF ServiceInv, OverInv, service, serving
  <2> QED BY <2>2, <2>3
<1> HIDE DEF Goal
<1> QED
  BY <1>1, <1>2, <1>3, <1>4, <1>5, <1>6, <1>7, <1>8, <1>9, <1>10, <1>11 DEF ServeModeNext

\* The identity, the handler, the hint client and the loop are always in the
\* states the code knows.
THEOREM ServeModeInvariance == ServeModeSpec => []ServeModeInv
<1>1. ServeModeInv /\ UNCHANGED vars => ServeModeInv'
  <2>1. ServeModeInv /\ UNCHANGED vars => IdentityInv'
    BY Zenon DEF ServeModeInv, IdentityInv, TypeOK, FileInv, HandInv, prepareVars, vars
  <2>2. ServeModeInv /\ UNCHANGED vars => H!TypeOK' /\ S!TypeOK'
    BY TypesKept, Zenon DEF ServeModeInv, vars, service
  <2>3. ServeModeInv /\ UNCHANGED vars => ServiceInv' /\ OverInv'
    BY Zenon DEF ServeModeInv, ServiceInv, OverInv, vars, prepareVars, service, serving
  <2> QED BY <2>1, <2>2, <2>3 DEF ServeModeInv
<1>2. ServeModeSpec => []IdentityInv
  BY IdentityInvariance, ServeModeEnrolls, PTL
<1> QED BY <1>1, <1>2, ServeModeInvInit, ServeModeStep, PTL DEF ServeModeSpec

\* Every variable of serve mode keeps its type.
THEOREM ServeModeTypeCorrect == ServeModeSpec => []ServeModeTypeOK
<1>1. ServeModeInv => ServeModeTypeOK
  BY DEF ServeModeInv, IdentityInv, ServeModeTypeOK
<1> QED BY <1>1, ServeModeInvariance, PTL

\* When Execute has returned, its process has nothing left to do: serve mode
\* has ended or never began, and no identity is half prepared
\* (service_windows.go:30-77, main.go serveWithContext).
THEOREM StoppedIsOver == ServeModeSpec => []StoppedMeansOver
<1>1. ServeModeInv => StoppedMeansOver
  BY DEF ServeModeInv, OverInv, StoppedMeansOver
<1> QED BY <1>1, ServeModeInvariance, PTL
=============================================================================
