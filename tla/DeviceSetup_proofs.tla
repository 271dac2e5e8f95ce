------------------------- MODULE DeviceSetup_proofs -------------------------
(***************************************************************************)
(* Proofs about DeviceSetup, for any number of processes, keys and         *)
(* commands.                                                               *)
(***************************************************************************)
EXTENDS DeviceSetup, FiniteSetTheorems, TLAPS

-----------------------------------------------------------------------------
(* Types.                                                                  *)

(* identity.Load returns to a place of the command, with a key, and a command *)
(* that talks to the server has one.                                          *)
Placed(p) ==
    /\ pc[p] \in {"profile", "load", "save", "write"} =>
          then[p] \in {"end", "stat", "dial", "run", "ask"}
    /\ pc[p] \in {"save", "write", "dial", "request", "registered", "saveProfile",
                  "writeProfile"} => kp[p] # Absent
    /\ "stat" \in {pc[p], then[p]} => cmd[p] \in {"rotate", "force"}

TypeInv == TypeOK /\ \A p \in Procs : Placed(p)

(* A command starts.                                                          *)
LEMMA TypeStart ==
  ASSUME TypeInv, NEW p \in Procs,
         NEW c \in {"show", "rotate", "force", "connect", "import"},
         NEW l \in {"load", "profile"}, NEW r \in {"end", "stat", "dial", "run", "ask"},
         r = "stat" => c \in {"rotate", "force"},
         Start(p, c, l, r)
  PROVE  TypeInv'
BY SetupAssumption
   DEF TypeInv, TypeOK, Placed, Start, Goto, files, server, history, Absent, Torn

(* A command ends, or is killed.                                              *)
LEMMA TypeOver ==
  ASSUME TypeInv, NEW p \in Procs, Over(p),
         UNCHANGED <<files, server, counts, forced, stale, profiled>>,
         cutShort' \subseteq 1..MaxKeys, died' \in BOOLEAN, badEnd' \in BOOLEAN
  PROVE  TypeInv'
BY SetupAssumption DEF TypeInv, TypeOK, Placed, Over, files, server, counts, Absent, Torn

(* The steps of identity.Load.                                                *)
LEMMA TypeLoad ==
  ASSUME TypeInv, NEW p \in Procs,
         Load(p) \/ Generate(p) \/ SaveOpens(p) \/ SaveWrites(p)
  PROVE  TypeInv'
<1> USE SetupAssumption
    DEF TypeInv, TypeOK, Placed, Goto, files, server, counts, history, Absent, Torn
<1>1. CASE Load(p)
  BY <1>1 DEF Load
<1>2. CASE Generate(p)
  BY <1>2 DEF Generate
<1>3. CASE SaveOpens(p)
  BY <1>3 DEF SaveOpens
<1>4. CASE SaveWrites(p)
  BY <1>4 DEF SaveWrites
<1>5. QED BY <1>1, <1>2, <1>3, <1>4

(* The steps of keys rotate.                                                  *)
LEMMA TypeRotate ==
  ASSUME TypeInv, NEW p \in Procs, BackupCheck(p) \/ BackupRename(p)
  PROVE  TypeInv'
<1>1. CASE BackupCheck(p)
  <2>1. CASE Over(p)
    BY <1>1, <2>1, TypeOver DEF BackupCheck, TypeInv, TypeOK, history
  <2>2. CASE Goto(p, "rename") /\ Looked(p) /\ UNCHANGED <<cmd, kp, fd>>
    BY <1>1, <2>2, SetupAssumption DEF BackupCheck, Looked, TypeInv, TypeOK, Placed,
       Goto, files, server, counts, history, Absent, Torn
  <2>3. QED BY <1>1, <2>1, <2>2 DEF BackupCheck
<1>2. CASE BackupRename(p)
  <2>1. CASE key = Absent
    BY <1>2, <2>1, TypeOver DEF BackupRename, TypeInv, TypeOK, files
  <2>2. CASE key # Absent
    BY <1>2, <2>2, SetupAssumption DEF BackupRename, TypeInv, TypeOK, Placed, Goto,
       server, counts, Absent, Torn
  <2>3. QED BY <2>1, <2>2
<1>3. QED BY <1>1, <1>2

(* The server registers the key of a command, or refuses.                     *)
LEMMA TypeBootstrap ==
  ASSUME TypeInv, NEW p \in Procs, Bootstrap(p)
  PROVE  TypeInv'
<1> USE SetupAssumption DEF TypeInv, TypeOK, Placed, Bootstrap
<1>1. devs \subseteq 1..MaxKeys /\ kp[p] \in 1..MaxKeys /\ uses \in 0..Uses
  BY DEF Absent
<1>2. devs' \subseteq 1..MaxKeys /\ uses' \in 0..Uses
  <2> HIDE DEF TypeInv
  <2>1. CASE uses < Uses
    <3>1. devs' = devs \cup {kp[p]} /\ uses' = uses + 1
      BY <2>1
    <3>2. uses' \in 0..Uses
      BY <1>1, <2>1, <3>1
    <3>3. ASSUME NEW k \in devs' PROVE k \in 1..MaxKeys
      BY <1>1, <3>1
    <3>4. QED BY <3>2, <3>3
  <2>2. CASE ~(uses < Uses)
    BY <1>1, <2>2, Zenon DEF server
  <2>3. QED BY <2>1, <2>2
<1>3. CASE uses < Uses
  BY <1>2, <1>3 DEF Goto, files, server, counts, history, Absent, Torn
<1>4. CASE ~(uses < Uses)
  BY <1>4, TypeOver DEF history
<1>5. QED BY <1>3, <1>4

(* import writes its profile and ends.                                        *)
LEMMA TypeSaves ==
  ASSUME TypeInv, NEW p \in Procs, SaveProfileWrites(p)
  PROVE  TypeInv'
<1>1. profiled \subseteq 1..MaxKeys /\ kp[p] \in 1..MaxKeys
  BY SetupAssumption DEF SaveProfileWrites, TypeInv, TypeOK, Placed, Absent
<1>2. profiled' \subseteq 1..MaxKeys
  BY <1>1, Zenon DEF SaveProfileWrites
<1>3. QED BY <1>2, SetupAssumption DEF SaveProfileWrites, TypeInv, TypeOK, Placed, Over,
             server, counts, Absent, Torn

(* The steps of import, and init's question.                                  *)
LEMMA TypeImport ==
  ASSUME TypeInv, NEW p \in Procs,
         \/ Answer(p) \/ Dial(p) \/ Bootstrap(p) \/ BootstrapOK(p)
         \/ SaveProfileOpens(p) \/ SaveProfileWrites(p)
  PROVE  TypeInv'
<1> USE SetupAssumption
    DEF TypeInv, TypeOK, Placed, Goto, files, server, counts, history, Absent, Torn
<1>1. CASE Bootstrap(p)
  BY <1>1, TypeBootstrap
<1>2. CASE BootstrapOK(p)
  BY <1>2 DEF BootstrapOK
<1>3. CASE SaveProfileOpens(p)
  BY <1>3 DEF SaveProfileOpens
<1>4. CASE SaveProfileWrites(p)
  BY <1>4, TypeSaves
<1>5. CASE Dial(p)
  BY <1>5 DEF Dial
<1>6. CASE Answer(p)
  <2>1. CASE Over(p)
    BY <1>6, <2>1, TypeOver DEF Answer
  <2>2. CASE ~Over(p)
    BY <1>6, <2>2 DEF Answer
  <2>3. QED BY <2>1, <2>2
<1>7. QED BY <1>1, <1>2, <1>3, <1>4, <1>5, <1>6

(* The steps of connect.                                                      *)
LEMMA TypeConnect ==
  ASSUME TypeInv, NEW p \in Procs,
         LoadProfile(p) \/ WriteStatus(p) \/ Disconnect(p)
  PROVE  TypeInv'
<1>1. CASE LoadProfile(p)
  <2>1. CASE UnmarshalYAML(profile)
    BY <1>1, <2>1, SetupAssumption DEF LoadProfile, TypeInv, TypeOK, Placed, Goto,
       files, server, counts, history, Absent, Torn
  <2>2. CASE ~UnmarshalYAML(profile)
    BY <1>1, <2>2, TypeOver DEF LoadProfile, TypeInv, TypeOK
  <2>3. QED BY <2>1, <2>2
<1>2. CASE WriteStatus(p)
  BY <1>2, SetupAssumption DEF WriteStatus, TypeInv, TypeOK, Placed, Goto, server,
     counts, history, Absent, Torn
<1>3. CASE Disconnect(p)
  BY <1>3, SetupAssumption DEF Disconnect, TypeInv, TypeOK, Placed, Over, server,
     counts, history, Absent, Torn
<1>4. QED BY <1>1, <1>2, <1>3

(* Actions of Next that start a command.                                      *)
Starts(p) ==
    \/ KeysShow(p) \/ KeysExport(p) \/ Doctor(p) \/ InitWizard(p)
    \/ Rotate(p) \/ Import(p) \/ Connect(p)

(* Actions of Next that end one and leave the files and the server alone.     *)
Stops(p) ==
    \/ Killed(p) \/ Ends(p) \/ LoadFails(p) \/ DialFails(p) \/ BootstrapTimesOut(p)
    \/ SaveProfileFails(p) \/ ClientPanics(p)

(* What a start is, whatever the command.                                     *)
LEMMA StartsIs ==
  ASSUME NEW p \in Procs, Starts(p)
  PROVE  \E c \in {"show", "rotate", "force", "connect", "import"},
            l \in {"load", "profile"}, r \in {"end", "stat", "dial", "run", "ask"} :
              (r = "stat" => c \in {"rotate", "force"}) /\ Start(p, c, l, r)
BY DEF Starts, KeysShow, KeysExport, Doctor, InitWizard, Rotate, Import, Connect

(* What such an end is, whatever the command.                                 *)
LEMMA StopsIs ==
  ASSUME TypeInv, NEW p \in Procs, Stops(p)
  PROVE  /\ Over(p)
         /\ UNCHANGED <<files, server, counts, forced, stale, profiled>>
         /\ cutShort' \subseteq 1..MaxKeys /\ died' \in BOOLEAN /\ badEnd' \in BOOLEAN
         /\ (died => died') /\ (pc[p] = "up" => died')
         /\ cutShort \subseteq cutShort' /\ (Owing(p) => kp[p] \in cutShort')
<1>0. /\ cutShort \subseteq 1..MaxKeys /\ (Owing(p) => kp[p] \in 1..MaxKeys)
      /\ died \in BOOLEAN /\ badEnd \in BOOLEAN
  BY SetupAssumption DEF TypeInv, TypeOK, Placed, Owing, Absent
<1>8. ASSUME CutShort(p)
      PROVE  /\ cutShort' \subseteq 1..MaxKeys
             /\ cutShort \subseteq cutShort' /\ (Owing(p) => kp[p] \in cutShort')
  BY <1>0, <1>8, Zenon DEF CutShort
<1> USE <1>0 DEF history, Owing
<1>1. CASE Killed(p)
  BY <1>1, <1>8, Zenon DEF Killed
<1>2. CASE Ends(p)
  BY <1>2 DEF Ends
<1>3. CASE LoadFails(p)
  BY <1>3 DEF LoadFails
<1>4. CASE DialFails(p)
  BY <1>4 DEF DialFails
<1>5. CASE BootstrapTimesOut(p)
  BY <1>5, <1>8 DEF BootstrapTimesOut
<1>6. CASE ClientPanics(p)
  BY <1>6 DEF ClientPanics
<1>7. CASE SaveProfileFails(p)
  BY <1>7, <1>8 DEF SaveProfileFails
<1>9. QED BY <1>1, <1>2, <1>3, <1>4, <1>5, <1>6, <1>7 DEF Stops

(* Every step keeps the types.                                                *)
LEMMA TypeStep == TypeInv /\ [Next]_vars => TypeInv'
<1> SUFFICES ASSUME TypeInv, [Next]_vars PROVE TypeInv'
  OBVIOUS
<1>1. CASE UNCHANGED vars
  BY <1>1 DEF vars, files, server, procs, counts, history, TypeInv, TypeOK, Placed
<1>2. ASSUME NEW p \in Procs, Starts(p) PROVE TypeInv'
  BY <1>2, StartsIs, TypeStart
<1>3. ASSUME NEW p \in Procs, Stops(p) PROVE TypeInv'
  BY <1>3, StopsIs, TypeOver
<1>4. CASE StatusAges
  BY <1>4, SetupAssumption DEF StatusAges, TypeInv, TypeOK, Placed, procs, server,
     counts, history, Absent, Torn
<1>5. QED
  BY Zenon, <1>1, <1>2, <1>3, <1>4, TypeLoad, TypeRotate, TypeImport, TypeConnect
  DEF Next, Step, Starts, Stops

(* The initial state has its types.                                           *)
LEMMA TypeInit == Init => TypeInv
<1> SUFFICES ASSUME Init PROVE TypeInv
  OBVIOUS
<1>1. {key, bak} \subseteq {Absent, Torn} \cup 1..MaxKeys
  BY DEF Init
<1>2. {forced, stale, died, badEnd} \subseteq BOOLEAN
  BY Zenon DEF Init
<1>3. \A p \in Procs : Placed(p)
  BY DEF Init, Placed
<1>4. QED BY <1>1, <1>2, <1>3, SetupAssumption DEF Init, TypeInv, TypeOK, Absent

(* Every variable keeps its type, for any number of processes and keys: the   *)
(* invite is never used beyond its limit and no command returns to nowhere.   *)
THEOREM SetupTypeCorrect == Spec => []TypeOK
<1>1. TypeInv => TypeOK
  BY DEF TypeInv
<1>2. QED BY <1>1, TypeInit, TypeStep, PTL DEF Spec

-----------------------------------------------------------------------------
(* The private keys of registered devices.                                  *)

(* As long as no file was replaced that somebody relied on: every file that   *)
(* is open for writing is torn and open once only, a command that is about to *)
(* register has its key in a file, and a rename replaces no backup.           *)
KeysSafe ==
    /\ devs \subseteq {key, bak}
    /\ \A p \in Procs :
          /\ fd[p] = "key" => key = Torn
          /\ fd[p] = "bak" => bak = Torn
          /\ pc[p] = "write" => fd[p] \in {"key", "bak"}
          /\ pc[p] \in {"dial", "request"} => kp[p] \in {key, bak}
          /\ pc[p] = "rename" => then[p] = "clear" \/ cmd[p] = "force"
    /\ \A p, q \in Procs : fd[p] = fd[q] /\ fd[p] \in {"key", "bak"} => p = q

KeyInv == forced \/ stale \/ KeysSafe

(* A process that ends relies on nothing any more.                            *)
LEMMA KeyOver ==
  ASSUME TypeInv, KeyInv, NEW p \in Procs, Over(p),
         UNCHANGED <<key, bak, devs, forced, stale>>
  PROVE  KeyInv'
<1> SUFFICES ASSUME KeysSafe PROVE KeysSafe'
  BY DEF KeyInv
<1>1. /\ pc'[p] = "idle" /\ fd'[p] = "none"
      /\ \A q \in Procs : q # p =>
            /\ pc'[q] = pc[q] /\ fd'[q] = fd[q] /\ kp'[q] = kp[q]
            /\ cmd'[q] = cmd[q] /\ then'[q] = then[q]
  BY DEF Over, TypeInv, TypeOK
<1>2. QED BY <1>1 DEF KeysSafe

(* Nor does one that goes on to a place where nothing is written.             *)
LEMMA KeyGoto ==
  ASSUME TypeInv, KeyInv, NEW p \in Procs, NEW l, Goto(p, l),
         l \notin {"write", "dial", "request", "rename"},
         UNCHANGED <<key, bak, devs, forced, stale, cmd, then, kp, fd>>
  PROVE  KeyInv'
<1> SUFFICES ASSUME KeysSafe PROVE KeysSafe'
  BY DEF KeyInv
<1>1. pc'[p] = l /\ \A q \in Procs : q # p => pc'[q] = pc[q]
  BY DEF Goto, TypeInv, TypeOK
<1>2. QED BY <1>1 DEF KeysSafe

(* identity.Load keeps what was in the files.                                 *)
LEMMA KeyLoad ==
  ASSUME TypeInv, KeyInv, NEW p \in Procs,
         Load(p) \/ Generate(p) \/ SaveOpens(p) \/ SaveWrites(p)
  PROVE  KeyInv'
<1> USE DEF KeyInv, TypeInv, TypeOK, Placed, Goto, files, server, counts, history
<1>1. CASE Load(p)
  BY <1>1 DEF Load, KeysSafe
<1>2. CASE Generate(p)
  BY <1>2 DEF Generate, KeysSafe
<1>3. CASE SaveOpens(p)
  <2>1. CASE key # Absent
    BY <1>3, <2>1, Zenon DEF SaveOpens
  <2>2. CASE key = Absent /\ KeysSafe
    <3>1. \A q \in Procs : fd[q] # "key"
      BY <2>2 DEF KeysSafe, Absent, Torn
    <3>2. /\ key' = Torn /\ UNCHANGED <<bak, devs, kp, cmd, then>>
          /\ fd' = [fd EXCEPT ![p] = "key"] /\ pc' = [pc EXCEPT ![p] = "write"]
      BY <1>3 DEF SaveOpens
    <3>3. \A k \in devs : k = bak
      <4>1. ASSUME NEW k \in devs PROVE k = bak
        <5>1. k \in 1..MaxKeys /\ k \in {key, bak}
          BY <2>2, <4>1 DEF KeysSafe
        <5>2. QED BY <2>2, <5>1 DEF Absent
      <4>2. QED BY <4>1
    <3>4. \A q \in Procs : pc[q] \in {"dial", "request"} => kp[q] = bak
      BY <2>2 DEF KeysSafe, Absent
    <3>5. KeysSafe'
      BY SMTT(40), <2>2, <3>1, <3>2, <3>3, <3>4 DEF KeysSafe
    <3>6. QED BY <3>5
  <2>3. QED BY <1>3, <2>1, <2>2 DEF SaveOpens
<1>4. CASE SaveWrites(p)
  BY SMTT(40), <1>4 DEF SaveWrites, KeysSafe, Absent, Torn
<1>5. QED BY <1>1, <1>2, <1>3, <1>4

(* keys rotate keeps the key in the backup.                                   *)
LEMMA KeyRotate ==
  ASSUME TypeInv, KeyInv, NEW p \in Procs, BackupCheck(p) \/ BackupRename(p)
  PROVE  KeyInv'
<1> USE DEF KeyInv, TypeInv, TypeOK, Placed, Goto, files, server, counts, history
<1>1. CASE BackupCheck(p)
  <2>1. CASE Over(p)
    BY SMTT(40), <1>1, <2>1 DEF BackupCheck, Over, KeysSafe
  <2>2. CASE Goto(p, "rename") /\ Looked(p) /\ UNCHANGED <<cmd, kp, fd>>
    <3>1. bak # Absent => cmd[p] = "force"
      BY <1>1, <2>2 DEF BackupCheck, Over
    <3>2. QED BY <1>1, <2>2, <3>1, SMTT(40) DEF BackupCheck, Looked, KeysSafe
  <2>3. QED BY <1>1, <2>1, <2>2 DEF BackupCheck
<1>2. CASE BackupRename(p)
  <2>1. CASE key = Absent
    BY <1>2, <2>1 DEF BackupRename, Over, KeysSafe
  <2>2. CASE key # Absent /\ KeysSafe /\ bak # Absent
    BY <1>2, <2>2, Zenon DEF BackupRename, KeysSafe
  <2>3. CASE key # Absent /\ KeysSafe /\ bak = Absent
    <3>1. \A q \in Procs : fd[q] # "bak"
      BY <2>3 DEF KeysSafe, Absent, Torn
    <3>2. /\ key' = Absent /\ bak' = key /\ UNCHANGED <<devs, kp, cmd>>
          /\ \A q \in Procs : fd'[q] = IF fd[q] = "key" THEN "bak" ELSE fd[q]
          /\ pc' = [pc EXCEPT ![p] = "load"]
      BY <1>2, <2>3, <3>1 DEF BackupRename
    <3>3. (\A k \in devs : k = key) /\ \A q \in Procs : pc[q] \in {"dial", "request"} => kp[q] = key
      BY <2>3 DEF KeysSafe, Absent
    <3>4. devs' \subseteq {key', bak'}
      BY <3>2, <3>3
    <3>5. \A q \in Procs :
            /\ fd'[q] = "key" => key' = Torn
            /\ fd'[q] = "bak" => bak' = Torn
            /\ pc'[q] = "write" => fd'[q] \in {"key", "bak"}
            /\ pc'[q] \in {"dial", "request"} => kp'[q] \in {key', bak'}
            /\ pc'[q] = "rename" => then'[q] = "clear" \/ cmd'[q] = "force"
      BY <1>2, <2>3, <3>1, <3>2, <3>3 DEF KeysSafe, BackupRename
    <3>6. \A q, r \in Procs : fd'[q] = fd'[r] /\ fd'[q] \in {"key", "bak"} => q = r
      BY <2>3, <3>1, <3>2 DEF KeysSafe
    <3>7. QED BY <3>4, <3>5, <3>6 DEF KeysSafe
  <2>4. QED BY <1>2, <2>1, <2>2, <2>3 DEF BackupRename
<1>3. QED BY <1>1, <1>2

(* Every step keeps the keys safe.                                            *)
LEMMA KeyStep == TypeInv /\ KeyInv /\ [Next]_vars => KeyInv'
<1> SUFFICES ASSUME TypeInv, KeyInv, [Next]_vars PROVE KeyInv'
  OBVIOUS
<1>1. CASE UNCHANGED vars \/ StatusAges
  BY <1>1 DEF vars, files, server, procs, counts, history, StatusAges, KeyInv, KeysSafe
<1>2. ASSUME NEW p \in Procs, Starts(p) PROVE KeyInv'
  <2>1. PICK c \in {"show", "rotate", "force", "connect", "import"},
             l \in {"load", "profile"}, r \in {"end", "stat", "dial", "run", "ask"} :
               Start(p, c, l, r)
    BY <1>2, StartsIs
  <2>2. QED BY <2>1 DEF Start, Goto, files, server, history, KeyInv, KeysSafe,
               TypeInv, TypeOK
<1>3. ASSUME NEW p \in Procs, Stops(p) PROVE KeyInv'
  BY <1>3, StopsIs, KeyOver DEF files, server
<1>4. ASSUME NEW p \in Procs, Bootstrap(p) PROVE KeyInv'
  <2>1. CASE uses < Uses /\ KeysSafe
    <3>1. kp[p] \in {key, bak} /\ devs' = devs \cup {kp[p]}
      BY <1>4, <2>1 DEF Bootstrap, KeysSafe
    <3>2. pc'[p] = "registered" /\ \A q \in Procs : q # p => pc'[q] = pc[q]
      BY <1>4, <2>1 DEF Bootstrap, Goto, TypeInv, TypeOK
    <3>3. UNCHANGED <<key, bak, cmd, then, kp, fd>>
      BY <1>4, <2>1 DEF Bootstrap, files
    <3>4. QED BY <2>1, <3>1, <3>2, <3>3 DEF KeyInv, KeysSafe
  <2>2. CASE ~(uses < Uses)
    BY <1>4, <2>2, KeyOver DEF Bootstrap, files, server, history
  <2>3. QED BY <1>4, <2>1, <2>2 DEF Bootstrap, KeyInv, history
<1>5. ASSUME NEW p \in Procs,
             \/ BootstrapOK(p) \/ SaveProfileOpens(p) \/ SaveProfileWrites(p)
             \/ LoadProfile(p) \/ WriteStatus(p) \/ Disconnect(p)
      PROVE  KeyInv'
  <2>1. CASE BootstrapOK(p) \/ SaveProfileOpens(p) \/ SaveProfileWrites(p)
    BY <2>1, KeyGoto, KeyOver
    DEF BootstrapOK, SaveProfileOpens, SaveProfileWrites, files, server, history
  <2>2. CASE LoadProfile(p)
    BY <2>2, KeyGoto, KeyOver DEF LoadProfile, files, server
  <2>3. CASE WriteStatus(p) \/ Disconnect(p)
    BY <2>3, KeyGoto, KeyOver DEF WriteStatus, Disconnect, server, history
  <2>4. QED BY <1>5, <2>1, <2>2, <2>3
<1>6. ASSUME NEW p \in Procs, Dial(p) PROVE KeyInv'
  BY <1>6 DEF Dial, Goto, files, server, history, KeyInv, KeysSafe, TypeInv, TypeOK
<1>7. ASSUME NEW p \in Procs, Answer(p) PROVE KeyInv'
  <2>1. CASE Over(p)
    BY <1>7, <2>1, KeyOver DEF Answer, files, server, history
  <2>2. CASE ~Over(p)
    BY <1>7, <2>2 DEF Answer, Goto, files, server, history, KeyInv, KeysSafe, TypeInv, TypeOK
  <2>3. QED BY <2>1, <2>2
<1>8. QED
  BY Zenon, <1>1, <1>2, <1>3, <1>4, <1>5, <1>6, <1>7, KeyLoad, KeyRotate
  DEF Next, Step, Starts, Stops

(* The private key of a registered device is in the identity file or its      *)
(* backup, whichever commands overlap and wherever they are killed, unless    *)
(* --force was given or a file changed between a look at it and its           *)
(* replacement.                                                               *)
THEOREM KeysAreKept == Spec => []RegisteredKeyKept
<1>1. Init => TypeInv /\ KeyInv
  BY TypeInit DEF Init, KeyInv, KeysSafe
<1>2. KeyInv => RegisteredKeyKept
  BY DEF KeyInv, KeysSafe, RegisteredKeyKept
<1>3. QED BY <1>1, <1>2, TypeStep, KeyStep, PTL DEF Spec

-----------------------------------------------------------------------------
(* Profiles and registrations.                                              *)

(* An import that was registered has its key there, and a registered key has  *)
(* a profile, an import that still owes it, or a cause for not having one.    *)
ImportInv ==
    /\ profiled \subseteq devs
    /\ IsFiniteSet(devs) /\ Cardinality(devs) <= uses
    /\ \A p \in Procs : Owing(p) => kp[p] \in devs
    /\ StrandedHasCause

(* A step that registers nothing and saves no profile.                        *)
LEMMA ImportKept ==
  ASSUME ImportInv, UNCHANGED <<devs, uses, profiled>>, cutShort \subseteq cutShort',
         \A q \in Procs : Owing(q)' => Owing(q) /\ kp'[q] = kp[q],
         \A q \in Procs : Owing(q) => (Owing(q)' /\ kp'[q] = kp[q]) \/ kp[q] \in cutShort'
  PROVE  ImportInv'
<1>1. StrandedHasCause'
  <2> SUFFICES ASSUME NEW k \in devs
               PROVE  \/ k \in profiled \cup cutShort'
                      \/ \E q \in Procs : Owing(q)' /\ kp'[q] = k
    BY DEF StrandedHasCause
  <2>1. k \in profiled \cup cutShort \/ \E q \in Procs : Owing(q) /\ kp[q] = k
    BY Zenon DEF ImportInv, StrandedHasCause
  <2>2. QED BY <2>1, Zenon
<1>2. QED BY <1>1, Zenon DEF ImportInv

(* The server registers a key.                                                *)
LEMMA ImportBootstrap ==
  ASSUME TypeInv, ImportInv, NEW p \in Procs, Bootstrap(p)
  PROVE  ImportInv'
<1>1. UNCHANGED <<profiled, cutShort>> /\ pc[p] = "request" /\ uses \in Nat
  BY SetupAssumption DEF Bootstrap, files, history, TypeInv, TypeOK
<1>2. CASE uses < Uses
  <2>1. /\ devs' = devs \cup {kp[p]} /\ uses' = uses + 1 /\ UNCHANGED kp
        /\ pc' = [pc EXCEPT ![p] = "registered"]
    BY <1>2 DEF Bootstrap, Goto
  <2>2. IsFiniteSet(devs') /\ Cardinality(devs') <= uses'
    <3>1. /\ IsFiniteSet(devs) /\ Cardinality(devs) \in Nat
          /\ Cardinality(devs) <= uses
      BY FS_CardinalityType DEF ImportInv
    <3>2. /\ IsFiniteSet(devs \cup {kp[p]})
          /\ Cardinality(devs \cup {kp[p]}) \in {Cardinality(devs), Cardinality(devs) + 1}
      BY <3>1, FS_AddElement
    <3>3. QED BY <1>1, <2>1, <3>1, <3>2
  <2>3. Owing(p)' /\ \A q \in Procs : q # p => (Owing(q)' <=> Owing(q))
    BY <1>1, <2>1 DEF Owing, TypeInv, TypeOK
  <2>4. StrandedHasCause'
    BY <1>1, <2>1, <2>3, Zenon DEF ImportInv, StrandedHasCause
  <2>5. QED BY <1>1, <2>1, <2>2, <2>3, <2>4, Zenon DEF ImportInv
<1>3. CASE ~(uses < Uses)
  <2>1. UNCHANGED <<devs, uses>> /\ Over(p)
    BY <1>3 DEF Bootstrap, server
  <2>2. /\ ~Owing(p) /\ ~Owing(p)'
        /\ \A q \in Procs : q # p => (Owing(q)' <=> Owing(q)) /\ kp'[q] = kp[q]
    BY <1>1, <2>1 DEF Over, Owing, TypeInv, TypeOK
  <2>3. QED BY <1>1, <2>1, <2>2, ImportKept, Zenon
<1>4. QED BY <1>2, <1>3

(* import saves the profile of the key it registered.                         *)
LEMMA ImportSaves ==
  ASSUME TypeInv, ImportInv, NEW p \in Procs, SaveProfileWrites(p)
  PROVE  ImportInv'
<1>1. kp[p] \in devs
  BY DEF SaveProfileWrites, ImportInv, Owing
<1>2. profiled' = profiled \cup {kp[p]} /\ UNCHANGED <<devs, uses, cutShort>>
  BY DEF SaveProfileWrites, server
<1>3. /\ ~Owing(p)'
      /\ \A q \in Procs : q # p => (Owing(q)' <=> Owing(q)) /\ kp'[q] = kp[q]
  BY DEF SaveProfileWrites, Over, Owing, TypeInv, TypeOK
<1>4. StrandedHasCause'
  BY <1>2, <1>3, Zenon DEF ImportInv, StrandedHasCause
<1>5. QED BY <1>1, <1>2, <1>3, <1>4, Zenon DEF ImportInv

(* Every step keeps it.                                                       *)
LEMMA ImportStep == TypeInv /\ ImportInv /\ [Next]_vars => ImportInv'
<1> SUFFICES ASSUME TypeInv, ImportInv, [Next]_vars PROVE ImportInv'
  OBVIOUS
<1>1. CASE UNCHANGED vars \/ StatusAges
  <2>1. UNCHANGED <<devs, uses, profiled, cutShort, pc, kp>>
    BY Zenon, <1>1 DEF vars, files, server, procs, counts, history, StatusAges
  <2>2. \A q \in Procs : (Owing(q)' <=> Owing(q)) /\ kp'[q] = kp[q]
    BY Zenon, <2>1 DEF Owing
  <2>3. QED BY <2>1, <2>2, ImportKept
<1>2. ASSUME NEW p \in Procs, Starts(p) PROVE ImportInv'
  <2>1. PICK c \in {"show", "rotate", "force", "connect", "import"},
             l \in {"load", "profile"}, r \in {"end", "stat", "dial", "run", "ask"} :
               Start(p, c, l, r)
    BY <1>2, StartsIs
  <2>2. UNCHANGED <<devs, uses, profiled, cutShort, kp>>
    BY <2>1, Zenon DEF Start, files, server, history
  <2>3. \A q \in Procs : Owing(q)' <=> Owing(q)
    BY <2>1 DEF Start, Goto, Owing, TypeInv, TypeOK
  <2>4. QED BY <2>2, <2>3, ImportKept
<1>3. ASSUME NEW p \in Procs, Stops(p) PROVE ImportInv'
  <2>1. /\ Over(p) /\ UNCHANGED <<devs, uses, profiled>>
        /\ cutShort \subseteq cutShort' /\ (Owing(p) => kp[p] \in cutShort')
    BY <1>3, StopsIs DEF files, server
  <2>2. /\ ~Owing(p)'
        /\ \A q \in Procs : q # p => (Owing(q)' <=> Owing(q)) /\ kp'[q] = kp[q]
    BY <2>1 DEF Over, Owing, TypeInv, TypeOK
  <2>3. QED BY <2>1, <2>2, ImportKept
<1>4. ASSUME NEW p \in Procs,
             \/ Load(p) \/ Generate(p) \/ SaveOpens(p) \/ SaveWrites(p)
             \/ BackupCheck(p) \/ BackupRename(p) \/ LoadProfile(p)
             \/ Answer(p) \/ WriteStatus(p) \/ Disconnect(p)
      PROVE  ImportInv'
  <2>1. ~Owing(p) /\ UNCHANGED <<devs, uses, profiled, cutShort>>
    BY <1>4, SMTT(40) DEF Load, Generate, SaveOpens, SaveWrites, BackupCheck, BackupRename,
       LoadProfile, Answer, WriteStatus, Disconnect, Owing, files, server, history
  <2>2. /\ ~Owing(p)'
        /\ \A q \in Procs : q # p => (Owing(q)' <=> Owing(q)) /\ kp'[q] = kp[q]
    <3> USE DEF Owing, Goto, Over, TypeInv, TypeOK, Placed
    <3>1. CASE Load(p) \/ Generate(p) \/ SaveOpens(p) \/ SaveWrites(p)
      BY <3>1 DEF Load, Generate, SaveOpens, SaveWrites
    <3>2. CASE BackupCheck(p) \/ BackupRename(p)
      BY <3>2, SMTT(40) DEF BackupCheck, BackupRename
    <3>3. CASE LoadProfile(p) \/ Answer(p) \/ WriteStatus(p) \/ Disconnect(p)
      BY <3>3 DEF LoadProfile, Answer, WriteStatus, Disconnect
    <3>4. QED BY <1>4, <3>1, <3>2, <3>3, Zenon
  <2>3. QED BY <2>1, <2>2, ImportKept
<1>5. ASSUME NEW p \in Procs, Dial(p) \/ BootstrapOK(p) \/ SaveProfileOpens(p)
      PROVE  ImportInv'
  <2>1. UNCHANGED <<devs, uses, profiled, cutShort, kp>>
    BY <1>5 DEF Dial, BootstrapOK, SaveProfileOpens, files, server, history
  <2>2. \A q \in Procs : Owing(q)' <=> Owing(q)
    BY <1>5 DEF Dial, BootstrapOK, SaveProfileOpens, Goto, Owing, TypeInv, TypeOK
  <2>3. QED BY <2>1, <2>2, ImportKept
<1>6. QED
  BY Zenon, <1>1, <1>2, <1>3, <1>4, <1>5, ImportBootstrap, ImportSaves
  DEF Next, Step, Starts, Stops

(* The initial state has no device and no profile of import.                  *)
LEMMA ImportInit == Init => ImportInv
BY FS_EmptySet DEF Init, ImportInv, StrandedHasCause, Owing

(* A key that import saved a profile for is registered at the server, and the *)
(* invite is not stretched, however often import is run or killed.            *)
THEOREM ProfilesAreRegistered == Spec => []ProfileMeansRegistered
<1>1. TypeInv /\ ImportInv => ProfileMeansRegistered
  <2> SUFFICES ASSUME TypeInv, ImportInv PROVE ProfileMeansRegistered
    OBVIOUS
  <2>1. Cardinality(devs) \in Nat /\ Cardinality(devs) <= uses
    BY FS_CardinalityType DEF ImportInv
  <2>2. uses \in 0..Uses
    BY DEF TypeInv, TypeOK
  <2>3. QED BY <2>1, <2>2, SetupAssumption DEF ImportInv, ProfileMeansRegistered
<1>2. QED BY <1>1, TypeInit, TypeStep, ImportInit, ImportStep, PTL DEF Spec

(* A registered device without a profile comes only from its own import, which *)
(* was killed, lost the answer or could not save the profile after the server   *)
(* had registered it.                                                           *)
THEOREM StrandingHasCause == Spec => []StrandedHasCause
<1>1. ImportInv => StrandedHasCause
  BY DEF ImportInv
<1>2. QED BY <1>1, TypeInit, TypeStep, ImportInit, ImportStep, PTL DEF Spec

-----------------------------------------------------------------------------
(* The status file.                                                         *)

(* A step that writes no status and takes down no connect keeps the record    *)
(* true.                                                                      *)
LEMMA StatusKept ==
  ASSUME StatusMeansUp, status' # "absent" => status # "absent", died => died',
         \A q \in Procs : pc[q] = "up" => pc'[q] = "up" \/ died'
  PROVE  StatusMeansUp'
BY DEF StatusMeansUp, SomeUp

(* Every step keeps it true.                                                  *)
LEMMA StatusStep == TypeInv /\ StatusMeansUp /\ [Next]_vars => StatusMeansUp'
<1> SUFFICES ASSUME TypeInv, StatusMeansUp, [Next]_vars PROVE StatusMeansUp'
  OBVIOUS
<1>1. CASE UNCHANGED vars \/ StatusAges
  BY <1>1, StatusKept, SMTT(40) DEF vars, files, procs, history, StatusAges
<1>2. ASSUME NEW p \in Procs, Starts(p) PROVE StatusMeansUp'
  <2>1. PICK c \in {"show", "rotate", "force", "connect", "import"},
             l \in {"load", "profile"}, r \in {"end", "stat", "dial", "run", "ask"} :
               Start(p, c, l, r)
    BY <1>2, StartsIs
  <2>2. \A q \in Procs : pc[q] = "up" => pc'[q] = "up"
    BY <2>1 DEF Start, Goto, TypeInv, TypeOK
  <2>3. QED BY <2>1, <2>2, StatusKept DEF Start, files, history
<1>3. ASSUME NEW p \in Procs, Stops(p) PROVE StatusMeansUp'
  <2>1. /\ Over(p) /\ UNCHANGED status
        /\ (died => died') /\ (pc[p] = "up" => died')
    BY <1>3, StopsIs DEF files
  <2>2. \A q \in Procs : pc[q] = "up" => pc'[q] = "up" \/ died'
    BY <2>1 DEF Over, TypeInv, TypeOK
  <2>3. QED BY <2>1, <2>2, StatusKept
<1>4. ASSUME NEW p \in Procs,
             \/ Load(p) \/ Generate(p) \/ SaveOpens(p) \/ SaveWrites(p)
             \/ BackupCheck(p) \/ BackupRename(p) \/ LoadProfile(p)
             \/ Answer(p) \/ Dial(p) \/ Bootstrap(p) \/ BootstrapOK(p)
             \/ SaveProfileOpens(p) \/ SaveProfileWrites(p)
      PROVE  StatusMeansUp'
  <2>1. pc[p] # "up" /\ UNCHANGED <<status, died>>
    BY <1>4, SMTT(40) DEF Load, Generate, SaveOpens, SaveWrites, BackupCheck, BackupRename,
       LoadProfile, Answer, Dial, Bootstrap, BootstrapOK, SaveProfileOpens,
       SaveProfileWrites,
       files, history
  <2>2. \A q \in Procs : q # p => pc'[q] = pc[q]
    BY <1>4 DEF Load, Generate, SaveOpens, SaveWrites, BackupCheck, BackupRename,
       LoadProfile, Answer, Dial, Bootstrap, BootstrapOK, SaveProfileOpens,
       SaveProfileWrites,
       Goto, Over, TypeInv, TypeOK
  <2>3. QED BY <2>1, <2>2, StatusKept
<1>5. ASSUME NEW p \in Procs, WriteStatus(p) \/ Disconnect(p) PROVE StatusMeansUp'
  BY <1>5 DEF WriteStatus, Disconnect, Goto, StatusMeansUp, SomeUp, TypeInv, TypeOK
<1>6. QED
  BY Zenon, <1>1, <1>2, <1>3, <1>4, <1>5 DEF Next, Step, Starts, Stops

(* A status file, fresh or old, stands for a connect that is up, or comes     *)
(* from one that ended without its deferred Remove.                           *)
THEOREM StatusIsOwned == Spec => []StatusMeansUp
<1>1. Init => StatusMeansUp
  BY DEF Init, StatusMeansUp
<1>2. QED BY <1>1, TypeInit, TypeStep, StatusStep, PTL DEF Spec
=============================================================================
