------------------------------ MODULE Registry ------------------------------
(***************************************************************************)
(* The device and invite registry, internal/registry/registry.go, and the  *)
(* processes that use it: the server (daxson serve: the authentication     *)
(* handlers of internal/auth/device.go and the dashboard) and the commands *)
(* daxson invite and daxson devices, which load the same file.             *)
(*                                                                         *)
(* A process holds the registry in memory.  Registry.mu is held for a      *)
(* whole operation, the save included, so a process does one operation at  *)
(* a time; the steps of the save (open the temporary file, write it,       *)
(* rename it) interleave with the other process and with crashes.  Nothing *)
(* keeps the processes apart, and none reads the file again after its      *)
(* start: a process can work on a copy that lacks what another has saved,  *)
(* and save it.  Three histories tell when that happens.                   *)
(*                                                                         *)
(* Data.  A token, a device key and a device id are model values.  Labels  *)
(* and times are left out, except whether an invite has expired.           *)
(***************************************************************************)
EXTENDS Naturals, Sequences, FiniteSets

CONSTANTS
  Tokens,        \* invite tokens that GenerateToken may return
  Pubs,          \* device public keys
  Ids,           \* device ids
  DeviceID,      \* shortDeviceID: the id of each key
  MaxUsesArgs,   \* the --max-uses arguments
  Faulty,        \* a step of save may fail (disk full, permissions)
  MaxStarts      \* bound: number of process starts

ASSUME RegistryAssumption ==
  /\ DeviceID \in [Pubs -> Ids]
  /\ MaxUsesArgs \subseteq Nat
  /\ 0 \in MaxUsesArgs
  /\ Faulty \in BOOLEAN
  /\ MaxStarts \in Nat

Procs == {"serve", "cli"}

(* Device, InviteRecord and storeData.  The invites are a function: a token  *)
(* names at most one record.                                                 *)
Devices == [pub : Pubs, revoked : BOOLEAN]
Invites == [made : BOOLEAN, maxUses : MaxUsesArgs, uses : Nat, revoked : BOOLEAN]
Stores  == [devices : Seq(Devices), invites : [Tokens -> Invites]]

NoInvite   == [made |-> FALSE, maxUses |-> 0, uses |-> 0, revoked |-> FALSE]
EmptyStore == [devices |-> <<>>, invites |-> [t \in Tokens |-> NoInvite]]

(* A file: absent, just truncated, holding part of a store or a mix of two,  *)
(* or holding the JSON of a store.                                           *)
Files   == [st : {"absent", "empty", "torn", "whole"}, data : Stores]
Absent  == [st |-> "absent", data |-> EmptyStore]
Empty   == [st |-> "empty", data |-> EmptyStore]
Torn    == [st |-> "torn", data |-> EmptyStore]
Whole(s) == [st |-> "whole", data |-> s]

(* The operation of a process, with the token and the key it is about.       *)
None == "none"
Op(kind, t, k) == [kind |-> kind, token |-> t, pub |-> k]
NoOp == Op("none", None, None)
Ops  ==
  {NoOp} \union {Op(kind, None, k) : kind \in {"auth", "revokeDevice"}, k \in Pubs}
         \union {Op(kind, t, None) : kind \in {"create", "revokeInvite"}, t \in Tokens}
         \union {Op("bootstrap", t, k) : t \in Tokens, k \in Pubs}

VARIABLES
  mem,        \* Registry.data of each process
  pc,         \* where each process is: down, idle, or in a step of save
  op,         \* the operation whose save is in progress
  path,       \* the registry file
  tmp,        \* the temporary file, path + ".tmp"
  fd,         \* what the file that a process has open is now called
  expired,    \* invites whose ExpiresAt has passed
  starts,     \* number of process starts
  behind,     \* processes that lack an update which another has saved (history)
  lost,       \* such a process has saved its copy over the update (history)
  mixed,      \* two processes have saved at the same time (history)
  announced,  \* tokens whose creation was reported as done (history)
  withdrawn,  \* tokens that a revocation was asked for (history)
  barred,     \* keys whose revocation was reported as done (history)
  admitted,   \* keys whose Bootstrap was answered OK after its save (history)
  oks,        \* number of Bootstraps answered OK after their save (history)
  refused     \* tokens that a server which is not stale called invalid (history)

procVars == <<mem, pc, op>>
shareVars == <<behind, lost, mixed>>
fileVars == <<path, tmp, fd>>
histVars == <<announced, withdrawn, barred, admitted, oks, refused>>
vars == <<procVars, fileVars, expired, starts, shareVars, histVars>>

(* The memory of the server may lack what another process has saved.         *)
Stale == "serve" \in behind \/ lost \/ mixed

TypeOK ==
  /\ mem \in [Procs -> Stores]
  /\ pc \in [Procs -> {"down", "idle", "open", "write", "rename", "saved", "failed"}]
  /\ op \in [Procs -> Ops]
  /\ path \in Files
  /\ tmp \in Files
  /\ fd \in [Procs -> {"none", "tmp", "path", "gone"}]
  /\ expired \subseteq Tokens
  /\ starts \in Nat
  /\ behind \subseteq Procs
  /\ lost \in BOOLEAN
  /\ mixed \in BOOLEAN
  /\ announced \subseteq Tokens
  /\ withdrawn \subseteq Tokens
  /\ barred \subseteq Pubs
  /\ admitted \subseteq Pubs
  /\ oks \in [Tokens -> Nat]
  /\ refused \subseteq Tokens

Init ==
  /\ mem = [p \in Procs |-> EmptyStore]
  /\ pc = [p \in Procs |-> "down"]
  /\ op = [p \in Procs |-> NoOp]
  /\ path = Absent
  /\ tmp = Absent
  /\ fd = [p \in Procs |-> "none"]
  /\ expired = {}
  /\ starts = 0
  /\ behind = {} /\ lost = FALSE /\ mixed = FALSE
  /\ announced = {}
  /\ withdrawn = {}
  /\ barred = {}
  /\ admitted = {}
  /\ oks = [t \in Tokens |-> 0]
  /\ refused = {}

-----------------------------------------------------------------------------
(* Starting and stopping.                                                    *)

(* Load: a missing file is an empty registry; a file that does not parse is   *)
(* an error and the process does not start.                                   *)
Load(p) ==
  /\ pc[p] = "down"
  /\ starts < MaxStarts
  /\ path.st \in {"absent", "whole"}
  /\ mem' = [mem EXCEPT ![p] = path.data]
  /\ pc' = [pc EXCEPT ![p] = "idle"]
  /\ starts' = starts + 1
  /\ UNCHANGED <<op, fileVars, expired, shareVars, histVars>>

(* A write that is cut short leaves part of the text in the file.            *)
PartialWrite(p) ==
  /\ tmp' \in (IF pc[p] = "write" /\ fd[p] = "tmp" THEN {tmp, Torn} ELSE {tmp})
  /\ path' \in (IF pc[p] = "write" /\ fd[p] = "path" THEN {path, Torn} ELSE {path})
  /\ fd' = [fd EXCEPT ![p] = "none"]

(* A process stops or crashes at any point.  A command whose argument matches *)
(* nothing ends here too.                                                     *)
Stop(p) ==
  /\ pc[p] # "down"
  /\ PartialWrite(p)
  /\ mem' = [mem EXCEPT ![p] = EmptyStore]
  /\ pc' = [pc EXCEPT ![p] = "down"]
  /\ op' = [op EXCEPT ![p] = NoOp]
  /\ behind' = behind \ {p}
  /\ UNCHANGED <<expired, starts, lost, mixed, histVars>>

(* Time passes the ExpiresAt of an invite.                                   *)
Expire(t) ==
  /\ t \in announced \ expired
  /\ expired' = expired \union {t}
  /\ UNCHANGED <<procVars, fileVars, starts, shareVars, histVars>>

-----------------------------------------------------------------------------
(* Operations.  Each changes the memory and, with the lock held, starts a     *)
(* save.                                                                      *)

BeginSave(p, s, o) ==
  /\ mem' = [mem EXCEPT ![p] = s]
  /\ pc' = [pc EXCEPT ![p] = "open"]
  /\ op' = [op EXCEPT ![p] = o]

(* The first device of the list whose key is in K.                           *)
IsFirst(devs, K, i) ==
  /\ i \in 1..Len(devs)
  /\ devs[i].pub \in K
  /\ \A j \in 1..(i - 1) : devs[j].pub \notin K

(* A mistake in AuthorizeDevice: any record of the key that is not revoked    *)
(* will do, not the first.                                                    *)
AuthorizeDeviceAnyRecord(p, k) ==
  /\ p = "serve"
  /\ pc[p] = "idle"
  /\ \E i \in 1..Len(mem[p].devices) :
       mem[p].devices[i].pub = k /\ ~mem[p].devices[i].revoked
  /\ BeginSave(p, mem[p], Op("auth", None, k))
  /\ UNCHANGED <<fileVars, expired, starts, shareVars, histVars>>

(* AuthorizeDevice, answered OK: LastSeenAt is set and the store saved; the   *)
(* result of the save is ignored.  The answers Revoked and Unknown change     *)
(* nothing.                                                                   *)
AuthorizeDevice(p, k) ==
  /\ p = "serve"
  /\ pc[p] = "idle"
  /\ \E i \in 1..Len(mem[p].devices) :
       /\ IsFirst(mem[p].devices, {k}, i)
       /\ ~mem[p].devices[i].revoked
  /\ BeginSave(p, mem[p], Op("auth", None, k))
  /\ UNCHANGED <<fileVars, expired, starts, shareVars, histVars>>

Limit(maxUses) == IF maxUses <= 0 THEN 1 ELSE maxUses

(* Bootstrap that is answered InvalidToken.  A client knows a token once its  *)
(* creation has been reported.  The answers Expired and Used change nothing.  *)
BootstrapRefused(p, t) ==
  /\ p = "serve"
  /\ pc[p] = "idle"
  /\ t \in announced
  /\ ~mem[p].invites[t].made \/ mem[p].invites[t].revoked
  /\ refused' = IF Stale THEN refused ELSE refused \union {t}
  /\ UNCHANGED <<procVars, fileVars, expired, starts, shareVars, announced, withdrawn,
                 barred, admitted, oks>>

(* A mistake in Bootstrap: the limit is compared with the uses before this   *)
(* one.                                                                      *)
BootstrapOneMore(p, t, k) ==
  LET inv == mem[p].invites[t] IN
  /\ p = "serve"
  /\ pc[p] = "idle"
  /\ t \in announced
  /\ inv.made /\ ~inv.revoked
  /\ t \notin expired
  /\ inv.uses <= Limit(inv.maxUses)
  /\ BeginSave(p, [devices |-> Append(mem[p].devices, [pub |-> k, revoked |-> FALSE]),
                   invites |-> [mem[p].invites EXCEPT ![t].uses = @ + 1]],
               Op("bootstrap", t, k))
  /\ UNCHANGED <<fileVars, expired, starts, shareVars, histVars>>

(* A mistake in Bootstrap: Uses++ is missing.                                *)
BootstrapUncounted(p, t, k) ==
  LET inv == mem[p].invites[t] IN
  /\ p = "serve"
  /\ pc[p] = "idle"
  /\ t \in announced
  /\ inv.made /\ ~inv.revoked
  /\ t \notin expired
  /\ inv.uses < Limit(inv.maxUses)
  /\ BeginSave(p, [devices |-> Append(mem[p].devices, [pub |-> k, revoked |-> FALSE]),
                   invites |-> mem[p].invites],
               Op("bootstrap", t, k))
  /\ UNCHANGED <<fileVars, expired, starts, shareVars, histVars>>

(* Bootstrap that is answered OK.                                            *)
Bootstrap(p, t, k) ==
  LET inv == mem[p].invites[t] IN
  /\ p = "serve"
  /\ pc[p] = "idle"
  /\ t \in announced
  /\ inv.made /\ ~inv.revoked
  /\ t \notin expired
  /\ inv.uses < Limit(inv.maxUses)
  /\ BeginSave(p, [devices |-> Append(mem[p].devices, [pub |-> k, revoked |-> FALSE]),
                   invites |-> [mem[p].invites EXCEPT ![t].uses = @ + 1]],
               Op("bootstrap", t, k))
  /\ UNCHANGED <<fileVars, expired, starts, shareVars, histVars>>

(* CreateInvite, by the command, or by the dashboard, which turns a MaxUses   *)
(* that is not positive into 1.  GenerateToken never returns a token twice.   *)
CreateInvite(p, t, n) ==
  /\ pc[p] = "idle"
  /\ p = "serve" => n > 0
  /\ t \notin announced \union withdrawn
  /\ \A q \in Procs : ~mem[q].invites[t].made
  /\ ~path.data.invites[t].made /\ ~tmp.data.invites[t].made
  /\ BeginSave(p, [mem[p] EXCEPT !.invites[t] =
                     [made |-> TRUE, maxUses |-> n, uses |-> 0, revoked |-> FALSE]],
               Op("create", t, None))
  /\ UNCHANGED <<fileVars, expired, starts, shareVars, histVars>>

(* RevokeInvite, by the command: some invite whose id has the given prefix.   *)
RevokeInvite(p, t) ==
  /\ p = "cli"
  /\ pc[p] = "idle"
  /\ mem[p].invites[t].made
  /\ BeginSave(p, [mem[p] EXCEPT !.invites[t].revoked = TRUE],
               Op("revokeInvite", t, None))
  /\ withdrawn' = withdrawn \union {t}
  /\ UNCHANGED <<fileVars, expired, starts, shareVars, announced, barred, admitted, oks,
                 refused>>

(* RevokeDevice, by the command: the first device with the id.               *)
RevokeDevice(p, id) ==
  LET devs == mem[p].devices IN
  /\ p = "cli"
  /\ pc[p] = "idle"
  /\ \E i \in 1..Len(devs) :
       /\ IsFirst(devs, {k \in Pubs : DeviceID[k] = id}, i)
       /\ BeginSave(p, [mem[p] EXCEPT !.devices[i].revoked = TRUE],
                    Op("revokeDevice", None, devs[i].pub))
  /\ UNCHANGED <<fileVars, expired, starts, shareVars, histVars>>

-----------------------------------------------------------------------------
(* save and what follows it.                                                 *)

(* Another process has opened the temporary file and not renamed it yet.     *)
Saving(p) == \E q \in Procs \ {p} : pc[q] \in {"write", "rename"}

(* A mistake in save: the registry file is truncated and written in place.   *)
SaveOpenInPlace(p) ==
  /\ pc[p] = "open"
  /\ path' = Empty
  /\ fd' = [fd EXCEPT ![p] = "path"]
  /\ pc' = [pc EXCEPT ![p] = "write"]
  /\ mixed' = (mixed \/ Saving(p))
  /\ UNCHANGED <<mem, op, tmp, expired, starts, behind, lost, histVars>>

(* os.WriteFile opens the temporary file and truncates it, ...               *)
SaveOpen(p) ==
  /\ pc[p] = "open"
  /\ tmp' = Empty
  /\ fd' = [fd EXCEPT ![p] = "tmp"]
  /\ pc' = [pc EXCEPT ![p] = "write"]
  /\ mixed' = (mixed \/ Saving(p))
  /\ UNCHANGED <<mem, op, path, expired, starts, behind, lost, histVars>>

(* ... and writes the store from the start of the file.  Where a longer text  *)
(* of the other process is already there, its end remains.                    *)
Written(f, s) == IF f = Empty \/ f = Whole(s) THEN {Whole(s)} ELSE {Whole(s), Torn}

SaveWrite(p) ==
  /\ pc[p] = "write"
  /\ tmp' \in (IF fd[p] = "tmp" THEN Written(tmp, mem[p]) ELSE {tmp})
  /\ path' \in (IF fd[p] = "path" THEN Written(path, mem[p]) ELSE {path})
  /\ fd' = [fd EXCEPT ![p] = "none"]
  /\ pc' = [pc EXCEPT ![p] = "rename"]
  /\ UNCHANGED <<mem, op, expired, starts, shareVars, histVars>>

(* A mistake in save: the temporary file is not renamed.                     *)
SaveRenameForgotten(p) ==
  /\ pc[p] = "rename"
  /\ tmp.st # "absent"
  /\ pc' = [pc EXCEPT ![p] = "saved"]
  /\ UNCHANGED <<mem, op, fileVars, expired, starts, shareVars, histVars>>

(* os.Rename fails when the other process has renamed the file already.  A    *)
(* file that is still open keeps its content under its new name.              *)
Renamed == [none |-> "none", tmp |-> "path", path |-> "gone", gone |-> "gone"]

SaveRename(p) ==
  /\ pc[p] = "rename"
  /\ tmp.st # "absent"
  /\ path' = tmp
  /\ tmp' = Absent
  /\ fd' = [q \in Procs |-> Renamed[fd[q]]]
  /\ pc' = [pc EXCEPT ![p] = "saved"]
  /\ behind' = IF tmp = path THEN behind
               ELSE behind \union {q \in Procs \ {p} : pc[q] # "down"}
  /\ lost' = (lost \/ p \in behind)
  /\ UNCHANGED <<mem, op, expired, starts, mixed, histVars>>

(* save returns an error; what was changed in memory stays changed.          *)
SaveFails(p) ==
  /\ \/ Faulty /\ pc[p] \in {"open", "write", "rename"}
     \/ pc[p] = "rename" /\ tmp.st = "absent"
  /\ PartialWrite(p)
  /\ pc' = [pc EXCEPT ![p] = "failed"]
  /\ UNCHANGED <<mem, op, expired, starts, shareVars, histVars>>

(* A mistake in the callers: the error of the save is not looked at.         *)
ReturnIgnoresError(p) ==
  LET o == op[p] IN
  /\ pc[p] \in {"saved", "failed"}
  /\ pc' = [pc EXCEPT ![p] = IF p = "cli" THEN "down" ELSE "idle"]
  /\ mem' = IF p = "cli" THEN [mem EXCEPT ![p] = EmptyStore] ELSE mem
  /\ op' = [op EXCEPT ![p] = NoOp]
  /\ behind' = IF p = "cli" THEN behind \ {p} ELSE behind
  /\ oks' = IF o.kind = "bootstrap" THEN [oks EXCEPT ![o.token] = @ + 1] ELSE oks
  /\ admitted' = IF o.kind = "bootstrap" THEN admitted \union {o.pub} ELSE admitted
  /\ announced' = IF o.kind = "create" THEN announced \union {o.token} ELSE announced
  /\ barred' = IF o.kind = "revokeDevice" THEN barred \union {o.pub} ELSE barred
  /\ UNCHANGED <<fileVars, expired, starts, lost, mixed, withdrawn, refused>>

(* The operation returns and its caller answers.  A server goes on and a      *)
(* command ends.  After a failed save the commands and the dashboard report   *)
(* an error, but Bootstrap returns status 0 beside its error, and the handler *)
(* sends that status, which is BootstrapStatusOK, to the client.              *)
Return(p) ==
  LET o == op[p]
      saved == pc[p] = "saved"
  IN
  /\ pc[p] \in {"saved", "failed"}
  /\ pc' = [pc EXCEPT ![p] = IF p = "cli" THEN "down" ELSE "idle"]
  /\ mem' = IF p = "cli" THEN [mem EXCEPT ![p] = EmptyStore] ELSE mem
  /\ op' = [op EXCEPT ![p] = NoOp]
  /\ behind' = IF p = "cli" THEN behind \ {p} ELSE behind
  /\ oks' = IF o.kind = "bootstrap" /\ saved THEN [oks EXCEPT ![o.token] = @ + 1] ELSE oks
  /\ admitted' = IF o.kind = "bootstrap" /\ saved THEN admitted \union {o.pub} ELSE admitted
  /\ announced' = IF o.kind = "create" /\ saved
                  THEN announced \union {o.token} ELSE announced
  /\ barred' = IF o.kind = "revokeDevice" /\ saved THEN barred \union {o.pub} ELSE barred
  /\ UNCHANGED <<fileVars, expired, starts, lost, mixed, withdrawn, refused>>

-----------------------------------------------------------------------------
Next ==
  \/ \E p \in Procs :
       \/ Load(p)
       \/ Stop(p)
       \/ \E k \in Pubs : AuthorizeDevice(p, k)
       \/ \E t \in Tokens :
            \/ BootstrapRefused(p, t)
            \/ \E k \in Pubs : Bootstrap(p, t, k)
            \/ \E n \in MaxUsesArgs : CreateInvite(p, t, n)
            \/ RevokeInvite(p, t)
       \/ \E id \in Ids : RevokeDevice(p, id)
       \/ SaveOpen(p)
       \/ SaveWrite(p)
       \/ SaveRename(p)
       \/ SaveFails(p)
       \/ Return(p)
  \/ \E t \in Tokens : Expire(t)

Spec == Init /\ [][Next]_vars

-----------------------------------------------------------------------------
(* Properties                                                                *)

(* The registry file always parses: a crash or a failed save between any two  *)
(* steps of save leaves the old file or the new one (registry.go:8, writes    *)
(* are atomic), as long as no two processes save at the same time; they share *)
(* the temporary file.                                                        *)
FileReadable == path.st \in {"absent", "whole"} \/ mixed

Granted(k) == pc["serve"] = "idle" /\ op'["serve"] = Op("auth", None, k)

(* No device is authorized after the command has reported its revocation, not *)
(* even when the device registers again with another invite or the server     *)
(* restarts, by a server that has seen what was saved (AuthorizeDevice,       *)
(* RevokeDevice).                                                             *)
RevocationHolds == [][\A k \in Pubs : Granted(k) => k \notin barred \/ Stale]_vars

(* "active sessions will be rejected at next re-auth" (devices.go:91): after  *)
(* the command has reported a revocation the device is not authorized.        *)
RevocationHeeded == [][\A k \in Pubs : Granted(k) => k \notin barred]_vars

(* An invite whose creation was reported is known to a server that has seen   *)
(* what was saved: Bootstrap refuses its token as invalid only if somebody    *)
(* asked for its revocation (CreateInvite, Bootstrap).                        *)
InviteUsable == refused \subseteq withdrawn

(* A device whose registration was saved and answered OK is in the registry   *)
(* file for good, whatever stops or fails afterwards, until a process saves a *)
(* copy that lacks it or two save at the same time (Bootstrap, save).         *)
OnFile(k) == path.st = "whole" /\ \E i \in 1..Len(path.data.devices) :
                                    path.data.devices[i].pub = k

AckedDurable == \A k \in admitted : OnFile(k) \/ lost \/ mixed

(* The stores that exist: in the memory of a process or whole in a file.     *)
LiveStores ==
  {mem[p] : p \in Procs} \union {f.data : f \in {g \in {path, tmp} : g.st = "whole"}}

(* However processes overlap, crash and fail to save, no copy has an invite   *)
(* used more often than its --max-uses; and until an update is lost, every OK *)
(* after a save is backed by a use on file (Bootstrap).  An invite with       *)
(* --max-uses 0 is left out: Bootstrap takes it for 1, the help says it is    *)
(* unlimited (invite_cmd.go:44).                                              *)
AdmissionsBounded ==
  \A t \in Tokens :
    /\ \A s \in LiveStores :
         s.invites[t].maxUses > 0 => s.invites[t].uses <= s.invites[t].maxUses
    /\ oks[t] <= path.data.invites[t].uses \/ lost \/ mixed

(* The uses of invites that a store counts, one by one.                      *)
UsesOf(s) == UNION {{t} \X (1..s.invites[t].uses) : t \in Tokens}

(* In every copy of the registry each device was admitted by one use of an    *)
(* invite and each use admitted one device: saves that overwrite each other   *)
(* lose whole updates but never half of a Bootstrap.                          *)
DevicesMatchUses == \A s \in LiveStores : Len(s.devices) = Cardinality(UsesOf(s))
=============================================================================
