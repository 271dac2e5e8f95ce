---------------------------- MODULE DeviceSetup -----------------------------
(***************************************************************************)
(* The files of a device and the commands that use them: the identity and  *)
(* its backup (pkg/identity, keys rotate), the profile (import, connect)   *)
(* and the status file (connect, status), with commands that run at the    *)
(* same time, commands that are killed, and a bootstrap whose answer is    *)
(* lost.                                                                   *)
(*                                                                         *)
(* os.WriteFile truncates, then writes, in place: a file is absent, torn   *)
(* or whole.  A key is its number in the order of generation.  The server  *)
(* is one invite of limit Uses and the set of keys registered with it;     *)
(* Registry has the details.                                               *)
(***************************************************************************)
EXTENDS Integers, FiniteSets

CONSTANTS
    Procs,     \* command processes
    Uses,      \* limit of the invite
    MaxKeys,   \* bound: keys generated
    MaxRuns    \* bound: commands started

ASSUME SetupAssumption ==
    IsFiniteSet(Procs) /\ Uses \in Nat /\ MaxKeys \in Nat /\ MaxRuns \in Nat

VARIABLES
    key, bak,    \* the identity file and its .bak
    profile,     \* profiles/default.yaml
    status,      \* status.json: absent, present, or old (not rewritten for 30 s)
    devs, uses,  \* the server: registered keys, uses of the invite
    cmd,         \* process -> the command it runs
    pc,          \* process -> where it is
    then,        \* process -> where identity.Load returns to
    kp,          \* process -> the key pair it loaded
    fd,          \* process -> the file it writes the key to, by its present name
    made, runs,  \* keys generated and commands started so far
    forced,      \* history: keys rotate --force replaced a backup
    stale,       \* history: a file was replaced that was not there when looked for
    profiled,    \* history: keys that import saved a profile for
    cutShort,    \* history: registered keys whose import was killed, lost the answer or
                 \* could not save the profile
    died,        \* history: a connect ended without its defers
    badEnd       \* history: a connect could not read the profile import had saved

files == <<key, bak, profile, status>>
server == <<devs, uses>>
procs == <<cmd, pc, then, kp, fd>>
counts == <<made, runs>>
history == <<forced, stale, profiled, cutShort, died, badEnd>>
vars == <<files, server, procs, counts, history>>

Absent == 0
Torn == -1

Init ==
    /\ key = Absent /\ bak = Absent /\ status = "absent"
    /\ profile \in {"absent", "hand"}   \* perhaps one written by hand
    /\ devs = {} /\ uses = 0
    /\ cmd = [p \in Procs |-> "none"] /\ pc = [p \in Procs |-> "idle"]
    /\ then = [p \in Procs |-> "idle"]
    /\ kp = [p \in Procs |-> Absent] /\ fd = [p \in Procs |-> "none"]
    /\ made = 0 /\ runs = 0
    /\ forced = FALSE /\ stale = FALSE /\ profiled = {} /\ cutShort = {}
    /\ died = FALSE /\ badEnd = FALSE

-----------------------------------------------------------------------------
(* Commands.                                                               *)

Goto(p, l) == pc' = [pc EXCEPT ![p] = l]

\* The process is over, in whatever way.
Over(p) ==
    /\ pc' = [pc EXCEPT ![p] = "idle"] /\ cmd' = [cmd EXCEPT ![p] = "none"]
    /\ then' = [then EXCEPT ![p] = "idle"]
    /\ kp' = [kp EXCEPT ![p] = Absent] /\ fd' = [fd EXCEPT ![p] = "none"]

Start(p, c, l, r) ==
    /\ pc[p] = "idle" /\ runs < MaxRuns
    /\ runs' = runs + 1
    /\ cmd' = [cmd EXCEPT ![p] = c] /\ Goto(p, l) /\ then' = [then EXCEPT ![p] = r]
    /\ UNCHANGED <<files, server, kp, fd, made, history>>

\* These load the identity and do no more to it.
KeysShow(p) == Start(p, "show", "load", "end")
KeysExport(p) == Start(p, "show", "load", "end")
Doctor(p) == Start(p, "show", "load", "end")
Rotate(p) == \E f \in {"rotate", "force"} : Start(p, f, "load", "stat")
Connect(p) == Start(p, "connect", "profile", "run")

\* import goes on from here with a link that decodes, has not expired and is signed
\* where it names a server key; with any other it ends before it touches anything.
Import(p) == Start(p, "import", "load", "dial")

\* init loads the identity and asks whether to run doctor, which loads it again.
InitWizard(p) == Start(p, "show", "load", "ask")

Answer(p) ==
    /\ pc[p] = "ask"
    /\ \/ /\ Goto(p, "load") /\ then' = [then EXCEPT ![p] = "end"]
          /\ UNCHANGED <<cmd, kp, fd>>
       \/ Over(p)
    /\ UNCHANGED <<files, server, counts, history>>

\* An import that is registered and still owes its profile.
Owing(p) == pc[p] \in {"registered", "saveProfile", "writeProfile"}

CutShort(p) == cutShort' = IF Owing(p) THEN cutShort \cup {kp[p]} ELSE cutShort

\* The process is killed; connect leaves its status file behind.
Killed(p) ==
    /\ pc[p] # "idle"
    /\ Over(p)
    /\ died' = (died \/ pc[p] = "up")
    /\ CutShort(p)
    /\ UNCHANGED <<files, server, counts, forced, stale, profiled, badEnd>>

Ends(p) ==
    /\ pc[p] = "end"
    /\ Over(p)
    /\ UNCHANGED <<files, server, counts, history>>

-----------------------------------------------------------------------------
(* identity.Load.                                                          *)

Load(p) ==
    /\ pc[p] = "load" /\ key > 0
    /\ kp' = [kp EXCEPT ![p] = key] /\ Goto(p, then[p])
    /\ UNCHANGED <<files, server, cmd, then, fd, counts, history>>

LoadFails(p) ==
    /\ pc[p] = "load" /\ key = Torn
    /\ Over(p)
    /\ UNCHANGED <<files, server, counts, history>>

\* The file is not there: a key pair is generated ...
Generate(p) ==
    /\ pc[p] = "load" /\ key = Absent /\ made < MaxKeys
    /\ made' = made + 1
    /\ kp' = [kp EXCEPT ![p] = made + 1] /\ Goto(p, "save")
    /\ UNCHANGED <<files, server, cmd, then, fd, runs, history>>

\* ... and saved: truncate whatever is there by now ...
SaveOpens(p) ==
    /\ pc[p] = "save"
    /\ key' = Torn /\ stale' = (stale \/ key # Absent)
    /\ fd' = [fd EXCEPT ![p] = "key"] /\ Goto(p, "write")
    /\ UNCHANGED <<bak, profile, status, server, cmd, then, kp, counts,
                   forced, profiled, cutShort, died, badEnd>>

\* ... and write.  The open file may have been renamed meanwhile.
SaveWrites(p) ==
    /\ pc[p] = "write"
    /\ key' = IF fd[p] = "key" THEN kp[p] ELSE key
    /\ bak' = IF fd[p] = "bak" THEN kp[p] ELSE bak
    /\ fd' = [fd EXCEPT ![p] = "none"] /\ Goto(p, then[p])
    /\ UNCHANGED <<profile, status, server, cmd, then, kp, counts, history>>

-----------------------------------------------------------------------------
(* keys rotate.                                                            *)

\* What the look at the backup found is kept for the history.
Looked(p) == then' = [then EXCEPT ![p] = IF bak = Absent THEN "clear" ELSE "replace"]

\* A mistake: an existing backup does not stop the rotation.
BackupCheckDropped(p) ==
    /\ pc[p] = "stat"
    /\ Goto(p, "rename") /\ Looked(p)
    /\ UNCHANGED <<files, server, cmd, kp, fd, counts, history>>

BackupCheck(p) ==
    /\ pc[p] = "stat"
    /\ IF bak # Absent /\ cmd[p] = "rotate"
       THEN Over(p)
       ELSE Goto(p, "rename") /\ Looked(p) /\ UNCHANGED <<cmd, kp, fd>>
    /\ UNCHANGED <<files, server, counts, history>>

\* os.Rename replaces the backup; who has either file open keeps it.  Then Load
\* generates, because the file has gone.
BackupRename(p) ==
    /\ pc[p] = "rename"
    /\ IF key = Absent
       THEN Over(p) /\ UNCHANGED <<key, bak, forced, stale>>
       ELSE /\ key' = Absent /\ bak' = key
            /\ forced' = (forced \/ (cmd[p] = "force" /\ bak # Absent))
            /\ stale' = (stale \/ (then[p] = "clear" /\ bak # Absent))
            /\ fd' = [q \in Procs |-> CASE fd[q] = "key" -> "bak"
                                        [] fd[q] = "bak" -> "gone"
                                        [] OTHER -> fd[q]]
            /\ Goto(p, "load") /\ then' = [then EXCEPT ![p] = "end"]
            /\ UNCHANGED <<cmd, kp>>
    /\ UNCHANGED <<profile, status, server, counts, profiled, cutShort, died, badEnd>>

-----------------------------------------------------------------------------
(* import.                                                                 *)

\* The connection to the server and its TLS handshake are made with no deadline: they
\* succeed, fail, or go on for as long as the peer says nothing.
Dial(p) ==
    /\ pc[p] = "dial"
    /\ Goto(p, "request")
    /\ UNCHANGED <<files, server, cmd, then, kp, fd, counts, history>>

DialFails(p) ==
    /\ pc[p] = "dial"
    /\ Over(p)
    /\ UNCHANGED <<files, server, counts, history>>

\* A mistake: the profile is written before the server has answered.
BootstrapAfterSave(p) ==
    /\ pc[p] = "request"
    /\ profile' = "imported" /\ profiled' = profiled \cup {kp[p]} /\ Over(p)
    /\ UNCHANGED <<key, bak, status, server, counts, forced, stale, cutShort, died, badEnd>>

\* The server handles the bootstrap request: an invite that is used up is refused.
Bootstrap(p) ==
    /\ pc[p] = "request"
    /\ IF uses < Uses
       THEN /\ devs' = devs \cup {kp[p]} /\ uses' = uses + 1
            /\ Goto(p, "registered") /\ UNCHANGED <<cmd, then, kp, fd>>
       ELSE Over(p) /\ UNCHANGED server
    /\ UNCHANGED <<files, counts, history>>

\* The answer arrives ...
BootstrapOK(p) ==
    /\ pc[p] = "registered"
    /\ Goto(p, "saveProfile")
    /\ UNCHANGED <<files, server, cmd, then, kp, fd, counts, history>>

\* A mistake: the read of the answer has no deadline.
BootstrapNeverTimesOut(p) == FALSE /\ UNCHANGED vars

\* ... or the write or the read fails, after 15 s at the latest.
BootstrapTimesOut(p) ==
    /\ pc[p] \in {"request", "registered"}
    /\ Over(p)
    /\ CutShort(p)
    /\ UNCHANGED <<files, server, counts, forced, stale, profiled, died, badEnd>>

\* A mistake: a profile that is there is kept.
SaveProfileKeepsOld(p) ==
    /\ pc[p] = "saveProfile"
    /\ IF profile = "absent"
       THEN profile' = "torn" /\ Goto(p, "writeProfile") /\ UNCHANGED <<cmd, then, kp, fd>>
       ELSE profile' = profile /\ Over(p)
    /\ UNCHANGED <<key, bak, status, server, counts, history>>

\* SaveClientProfile: truncate, then write.  The durations have no MarshalYAML, so
\* the file has `duration: 1s' where UnmarshalYAML wants 1s.
SaveProfileOpens(p) ==
    /\ pc[p] = "saveProfile"
    /\ profile' = "torn" /\ Goto(p, "writeProfile")
    /\ UNCHANGED <<key, bak, status, server, cmd, then, kp, fd, counts, history>>

SaveProfileWrites(p) ==
    /\ pc[p] = "writeProfile"
    /\ profile' = "imported" /\ profiled' = profiled \cup {kp[p]} /\ Over(p)
    /\ UNCHANGED <<key, bak, status, server, counts, forced, stale, cutShort, died, badEnd>>

\* Its directory, the open or the write fails; a file that was truncated stays so.
SaveProfileFails(p) ==
    /\ pc[p] \in {"saveProfile", "writeProfile"}
    /\ Over(p)
    /\ CutShort(p)
    /\ UNCHANGED <<files, server, counts, forced, stale, profiled, died, badEnd>>

-----------------------------------------------------------------------------
(* connect and status.                                                     *)

\* A duration is taken if it is written as a string, which Marshal does not do.
UnmarshalYAML(f) == f = "hand"

\* LoadClientProfile.
LoadProfile(p) ==
    /\ pc[p] = "profile"
    /\ IF UnmarshalYAML(profile)
       THEN Goto(p, "load") /\ UNCHANGED <<cmd, then, kp, fd, badEnd>>
       ELSE /\ Over(p)
            /\ badEnd' = (badEnd \/ profile = "imported")
    /\ UNCHANGED <<files, server, counts, forced, stale, profiled, cutShort, died>>

\* A mistake: the status is written once.
WriteStatusOnce(p) ==
    /\ pc[p] = "run"
    /\ status' = "present" /\ Goto(p, "up")
    /\ UNCHANGED <<key, bak, profile, server, cmd, then, kp, fd, counts, history>>

\* The client runs beside; half a second later connect reports that it is up and
\* writes the status, and again every ten seconds.  The status is written in one step:
\* a reader that meets the truncated file says for once that it is corrupted.
WriteStatus(p) ==
    /\ pc[p] \in {"run", "up"}
    /\ status' = "present" /\ Goto(p, "up")
    /\ UNCHANGED <<key, bak, profile, server, cmd, then, kp, fd, counts, history>>

\* connect passes no metrics: the first attempt of the client, whether it succeeds
\* (RecordConnect) or fails (RecordReconnect), dereferences nil and ends the process.
ClientPanics(p) ==
    /\ pc[p] \in {"run", "up"}
    /\ Over(p)
    /\ died' = TRUE
    /\ UNCHANGED <<files, server, counts, forced, stale, profiled, cutShort, badEnd>>

\* Ctrl+C, or a proxy cannot listen: the deferred Remove runs.
Disconnect(p) ==
    /\ pc[p] = "up"
    /\ status' = "absent" /\ Over(p)
    /\ UNCHANGED <<key, bak, profile, server, counts, history>>

\* Half a minute in which nobody rewrites the status.
StatusAges ==
    /\ status = "present" /\ \A p \in Procs : pc[p] # "up"
    /\ status' = "old"
    /\ UNCHANGED <<key, bak, profile, server, procs, counts, history>>

\* A mistake: the age of the record is not looked at.
ShowsConnectedAnyAge == status # "absent"

\* What the status command says, and what it should say.
ShowsConnected == status = "present"
SomeUp == \E p \in Procs : pc[p] = "up"

-----------------------------------------------------------------------------
Step(p) ==
    \/ Load(p) \/ LoadFails(p) \/ Generate(p) \/ SaveOpens(p) \/ SaveWrites(p)
    \/ BackupCheck(p) \/ BackupRename(p)
    \/ BootstrapTimesOut(p) \/ SaveProfileOpens(p) \/ SaveProfileWrites(p)
    \/ LoadProfile(p) \/ Ends(p)

Next ==
    \/ \E p \in Procs :
          \/ KeysShow(p) \/ KeysExport(p) \/ Doctor(p) \/ InitWizard(p)
          \/ Rotate(p) \/ Import(p) \/ Connect(p) \/ Killed(p) \/ Step(p)
          \/ Answer(p) \/ Dial(p) \/ DialFails(p) \/ Bootstrap(p) \/ BootstrapOK(p)
          \/ SaveProfileFails(p)
          \/ WriteStatus(p) \/ ClientPanics(p) \/ Disconnect(p)
    \/ StatusAges

Spec == Init /\ [][Next]_vars

\* A process that is not killed goes on, its deadlines pass and its ticker fires.  The
\* server and the user owe no answer, a dial need not end, and connect may stay up.
FairSpec ==
    Spec /\ WF_vars(StatusAges)
         /\ \A p \in Procs : WF_vars(Step(p)) /\ WF_vars(WriteStatus(p))

-----------------------------------------------------------------------------
(* Properties.                                                             *)

\* Every variable keeps its type.
TypeOK ==
    /\ {key, bak} \subseteq {Absent, Torn} \cup 1..MaxKeys
    /\ profile \in {"absent", "hand", "torn", "imported"}
    /\ status \in {"absent", "present", "old"}
    /\ devs \subseteq 1..MaxKeys /\ uses \in 0..Uses
    /\ cmd \in [Procs -> {"none", "show", "rotate", "force", "connect", "import"}]
    /\ pc \in [Procs -> {"idle", "load", "save", "write", "stat", "rename", "dial",
                         "request", "registered", "saveProfile", "writeProfile",
                         "profile", "run", "up", "ask", "end"}]
    /\ then \in [Procs -> {"idle", "end", "stat", "clear", "replace", "dial", "run", "ask"}]
    /\ kp \in [Procs -> 0..MaxKeys] /\ fd \in [Procs -> {"none", "key", "bak", "gone"}]
    /\ made \in 0..MaxKeys /\ runs \in 0..MaxRuns
    /\ profiled \subseteq 1..MaxKeys /\ cutShort \subseteq 1..MaxKeys
    /\ {forced, stale, died, badEnd} \subseteq BOOLEAN

\* The private key of a registered device is in the identity file or its backup
\* ("old key is moved to .bak", keys.go), wherever the commands are killed.  It can
\* be lost by --force, and where another command comes between a look at a file and
\* its replacement: two first runs, or two rotations.
RegisteredKeyKept == devs \subseteq {key, bak} \/ forced \/ stale

\* A key that import has saved a profile for is one the server knows, and no more
\* devices are registered than the invite allows, however often import is retried.
ProfileMeansRegistered == profiled \subseteq devs /\ Cardinality(devs) <= Uses

\* A device that is registered got its profile, unless its own import was killed, did
\* not see the server's answer or could not write the file (import_cmd.go:126).  (A
\* retry does not help then: the invite is used.)
StrandedHasCause ==
    \A k \in devs :
        k \in profiled \cup cutShort \/ \E p \in Procs : Owing(p) /\ kp[p] = k

\* The status file is there only while a connect is up, or after one that ended
\* without its defers ("Write status file; remove on exit", connect.go).
StatusMeansUp == status # "absent" => died \/ SomeUp

\* What status shows comes round to the truth, which is whether a connect is up, not
\* whether its tunnel is: a connect that died is shown no more, and one that is up is
\* shown again after another connect, which perhaps only failed to listen, has removed
\* the file they share.
StatusConverges == []<>(ShowsConnected <=> SomeUp)

\* A command other than connect ends, or waits in one of two places: import for a
\* server that takes the connection and says nothing (import_cmd.go:99 dials with
\* context.Background()), init for its user (init_cmd.go:93).  Once past the dial the
\* deadlines of BootstrapClient end an import, whatever the server does.
CommandsEnd ==
    \A p \in Procs :
        []<>(\/ cmd[p] = "connect"
             \/ pc[p] \in {"idle", "dial", "ask"}
             \/ pc[p] = "load" /\ made = MaxKeys)

\* After an import said Ready, connect finds a profile it can read ("written by
\* `daxson import` and read by `daxson connect`", config.go:284).  It does not.
ImportedProfileLoads == ~badEnd
=============================================================================
