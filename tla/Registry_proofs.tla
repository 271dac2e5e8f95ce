--------------------------- MODULE Registry_proofs ---------------------------
(***************************************************************************)
(* Proofs about Registry, for every use of it, commands beside the running *)
(* server, crashes and failed saves included: type correctness; that every *)
(* copy of the registry has one device for each use of an invite; that the *)
(* file parses unless two processes saved at the same time; and that what  *)
(* was answered holds from then on for a server that has not fallen behind *)
(* the file, until a process saves over what another has saved.            *)
(***************************************************************************)
EXTENDS Registry, SequenceTheorems, FiniteSetTheorems, TLAPS

-----------------------------------------------------------------------------
(* Types of the stores that the operations build.                            *)

(* The store a process starts from when there is no registry file.           *)
LEMMA EmptyStoreType == EmptyStore \in Stores
<1>1. NoInvite \in Invites
  BY RegistryAssumption, Zenon DEF NoInvite, Invites
<1>2. [t \in Tokens |-> NoInvite] \in [Tokens -> Invites]
  BY <1>1, Zenon
<1>3. <<>> \in Seq(Devices)
  OBVIOUS
<1> QED BY <1>2, <1>3, Zenon DEF EmptyStore, Stores

(* The contents that save and its failures leave in a file are files.        *)
LEMMA FileTypes ==
  /\ Absent \in Files /\ Empty \in Files /\ Torn \in Files
  /\ \A s \in Stores : Whole(s) \in Files
BY EmptyStoreType, Zenon DEF Absent, Empty, Torn, Whole, Files

(* Bootstrap: a device is appended and a use counted.                        *)
LEMMA BootstrapStoreType ==
  ASSUME NEW s \in Stores, NEW t \in Tokens, NEW k \in Pubs
  PROVE  [devices |-> Append(s.devices, [pub |-> k, revoked |-> FALSE]),
          invites |-> [s.invites EXCEPT ![t].uses = @ + 1]] \in Stores
<1>1. s.devices \in Seq(Devices) /\ s.invites \in [Tokens -> Invites]
  BY Zenon DEF Stores
<1>2. [pub |-> k, revoked |-> FALSE] \in Devices
  BY Zenon DEF Devices
<1>3. Append(s.devices, [pub |-> k, revoked |-> FALSE]) \in Seq(Devices)
  BY <1>1, <1>2, AppendProperties, Zenon
<1>4. [s.invites[t] EXCEPT !.uses = @ + 1] \in Invites
  BY <1>1 DEF Invites
<1>5. [s.invites EXCEPT ![t].uses = @ + 1] \in [Tokens -> Invites]
  BY <1>1, <1>4, Zenon
<1> QED BY <1>3, <1>5, Zenon DEF Stores

(* CreateInvite: a record is put under a new token.                          *)
LEMMA CreateStoreType ==
  ASSUME NEW s \in Stores, NEW t \in Tokens, NEW n \in MaxUsesArgs
  PROVE  [s EXCEPT !.invites[t] = [made |-> TRUE, maxUses |-> n, uses |-> 0,
                                   revoked |-> FALSE]] \in Stores
<1>1. [made |-> TRUE, maxUses |-> n, uses |-> 0, revoked |-> FALSE] \in Invites
  BY Zenon DEF Invites
<1> QED BY ZenonT(30), <1>1 DEF Stores

(* RevokeInvite: the record of a token is marked.                            *)
LEMMA RevokeInviteStoreType ==
  ASSUME NEW s \in Stores, NEW t \in Tokens
  PROVE  [s EXCEPT !.invites[t].revoked = TRUE] \in Stores
<1>1. s.invites \in [Tokens -> Invites]
  BY Zenon DEF Stores
<1>2. [s.invites[t] EXCEPT !.revoked = TRUE] \in Invites
  BY ZenonT(30), <1>1 DEF Invites
<1> QED BY ZenonT(30), <1>1, <1>2 DEF Stores

(* RevokeDevice: one device of the list is marked, and keeps its key.        *)
LEMMA RevokeDeviceStore ==
  ASSUME NEW s \in Stores, NEW i \in 1..Len(s.devices)
  PROVE  LET r == [s EXCEPT !.devices[i].revoked = TRUE] IN
         /\ r \in Stores
         /\ Len(r.devices) = Len(s.devices)
         /\ r.devices[i].revoked
         /\ \A j \in 1..Len(s.devices) :
              /\ r.devices[j].pub = s.devices[j].pub
              /\ s.devices[j].revoked => r.devices[j].revoked
<1> DEFINE d == s.devices
           e == [d EXCEPT ![i].revoked = TRUE]
           r == [s EXCEPT !.devices[i].revoked = TRUE]
<1>1. d \in Seq(Devices)
  BY Zenon DEF Stores
<1>2. d[i] \in Devices
  BY <1>1, ElementOfSeq, Zenon
<1>3. [d[i] EXCEPT !.revoked = TRUE] \in Devices
  BY ZenonT(30), <1>2 DEF Devices
<1>4. e = [d EXCEPT ![i] = [d[i] EXCEPT !.revoked = TRUE]]
  OBVIOUS
<1>5. e \in Seq(Devices) /\ Len(e) = Len(d)
  BY <1>1, <1>3, <1>4, ExceptSeq
<1>6. r.devices = e /\ r.invites = s.invites /\ r \in Stores
  BY ZenonT(30), <1>5 DEF Stores
<1>7. e[i].revoked
  BY <1>1, <1>2, LenProperties, Zenon DEF Devices
<1>8. ASSUME NEW j \in 1..Len(d)
      PROVE  e[j].pub = d[j].pub /\ (d[j].revoked => e[j].revoked)
  <2>1. CASE j = i
    BY <2>1, <1>1, <1>2, <1>7, LenProperties, Zenon DEF Devices
  <2>2. CASE j # i
    BY <2>2, <1>1, LenProperties, Zenon
  <2> QED BY <2>1, <2>2, Zenon
<1> QED BY <1>5, <1>6, <1>7, <1>8, Zenon

(* The operation that a save belongs to.                                     *)
LEMMA OpTypes ==
  /\ NoOp \in Ops
  /\ \A k \in Pubs : Op("auth", None, k) \in Ops /\ Op("revokeDevice", None, k) \in Ops
  /\ \A t \in Tokens : Op("create", t, None) \in Ops /\ Op("revokeInvite", t, None) \in Ops
  /\ \A t \in Tokens, k \in Pubs : Op("bootstrap", t, k) \in Ops
BY DEF Ops

(* What the answer of an operation is about.                                 *)
LEMMA OpFields ==
  ASSUME NEW o \in Ops
  PROVE  /\ o.kind = "bootstrap" => o.token \in Tokens /\ o.pub \in Pubs
         /\ o.kind = "create" => o.token \in Tokens
         /\ o.kind = "revokeDevice" => o.pub \in Pubs
BY DEF Ops, NoOp, Op

-----------------------------------------------------------------------------
(* Type correctness.                                                         *)

(* The initial state, nothing running and no files, is well typed.           *)
LEMMA TypeInit == Init => TypeOK
<1> SUFFICES ASSUME Init PROVE TypeOK
  OBVIOUS
<1>1. /\ mem \in [Procs -> Stores] /\ op \in [Procs -> Ops] /\ path \in Files /\ tmp \in Files
      /\ oks \in [Tokens -> Nat] /\ starts \in Nat
  BY EmptyStoreType, FileTypes, OpTypes DEF Init
<1>2. /\ pc \in [Procs -> {"down", "idle", "open", "write", "rename", "saved", "failed"}]
      /\ fd \in [Procs -> {"none", "tmp", "path", "gone"}]
      /\ behind \subseteq Procs /\ lost \in BOOLEAN /\ mixed \in BOOLEAN
  BY Zenon DEF Init
<1>3. /\ expired \subseteq Tokens /\ announced \subseteq Tokens /\ withdrawn \subseteq Tokens
      /\ refused \subseteq Tokens /\ barred \subseteq Pubs /\ admitted \subseteq Pubs
  BY Zenon DEF Init
<1> QED BY <1>1, <1>2, <1>3, Zenon DEF TypeOK

(* BeginSave keeps the types of what the operations change.                  *)
LEMMA BeginSaveType ==
  ASSUME TypeOK, NEW p \in Procs, NEW s \in Stores, NEW o \in Ops, BeginSave(p, s, o)
  PROVE  /\ mem' \in [Procs -> Stores]
         /\ pc' \in [Procs -> {"down", "idle", "open", "write", "rename", "saved", "failed"}]
         /\ op' \in [Procs -> Ops]
BY Zenon DEF TypeOK, BeginSave

(* A partial write leaves files.                                             *)
LEMMA PartialWriteType ==
  ASSUME TypeOK, NEW p \in Procs, PartialWrite(p)
  PROVE  /\ tmp' \in Files /\ path' \in Files
         /\ fd' \in [Procs -> {"none", "tmp", "path", "gone"}]
BY FileTypes, Zenon DEF TypeOK, PartialWrite

(* Every operation, step of save, restart and crash keeps the types.         *)
LEMMA TypeStep == TypeOK /\ [Next]_vars => TypeOK'
<1> SUFFICES ASSUME TypeOK, [Next]_vars PROVE TypeOK'
  OBVIOUS
<1>1. ASSUME NEW p \in Procs, Load(p) PROVE TypeOK'
  <2>1. path.data \in Stores
    BY Zenon DEF TypeOK, Files
  <2> QED BY <1>1, <2>1 DEF Load, TypeOK, fileVars, shareVars, histVars
<1>2. ASSUME NEW p \in Procs, Stop(p) PROVE TypeOK'
  <2>1. tmp' \in Files /\ path' \in Files /\ fd' \in [Procs -> {"none", "tmp", "path", "gone"}]
    BY <1>2, PartialWriteType, Zenon DEF Stop
  <2> QED BY ZenonT(30), <1>2, <2>1, EmptyStoreType, OpTypes DEF Stop, TypeOK, histVars
<1>3. ASSUME NEW p \in Procs, NEW k \in Pubs, AuthorizeDevice(p, k) PROVE TypeOK'
  <2>1. mem[p] \in Stores
    BY Zenon DEF TypeOK
  <2>2. BeginSave(p, mem[p], Op("auth", None, k))
    BY <1>3, Zenon DEF AuthorizeDevice
  <2> QED BY <1>3, <2>1, <2>2, BeginSaveType, OpTypes, Zenon DEF AuthorizeDevice, TypeOK, fileVars, shareVars, histVars
<1>4. ASSUME NEW p \in Procs, NEW t \in Tokens, BootstrapRefused(p, t) PROVE TypeOK'
  BY <1>4, Zenon DEF BootstrapRefused, TypeOK, procVars, fileVars, shareVars
<1>5. ASSUME NEW p \in Procs, NEW t \in Tokens, NEW k \in Pubs, Bootstrap(p, t, k) PROVE TypeOK'
  <2> DEFINE s == [devices |-> Append(mem[p].devices, [pub |-> k, revoked |-> FALSE]),
                   invites |-> [mem[p].invites EXCEPT ![t].uses = @ + 1]]
  <2>1. s \in Stores
    BY BootstrapStoreType, Zenon DEF TypeOK
  <2>2. BeginSave(p, s, Op("bootstrap", t, k))
    BY <1>5, Zenon DEF Bootstrap
  <2> HIDE DEF s
  <2> QED BY <1>5, <2>1, <2>2, BeginSaveType, OpTypes, Zenon DEF Bootstrap, TypeOK, fileVars, shareVars, histVars
<1>6. ASSUME NEW p \in Procs, NEW t \in Tokens, NEW n \in MaxUsesArgs, CreateInvite(p, t, n)
      PROVE  TypeOK'
  <2> DEFINE s == [mem[p] EXCEPT !.invites[t] =
                     [made |-> TRUE, maxUses |-> n, uses |-> 0, revoked |-> FALSE]]
  <2>1. s \in Stores
    BY CreateStoreType, Zenon DEF TypeOK
  <2>2. BeginSave(p, s, Op("create", t, None))
    BY <1>6, Zenon DEF CreateInvite
  <2> HIDE DEF s
  <2> QED BY <1>6, <2>1, <2>2, BeginSaveType, OpTypes, Zenon DEF CreateInvite, TypeOK, fileVars, shareVars, histVars
<1>7. ASSUME NEW p \in Procs, NEW t \in Tokens, RevokeInvite(p, t) PROVE TypeOK'
  <2> DEFINE s == [mem[p] EXCEPT !.invites[t].revoked = TRUE]
  <2>1. s \in Stores
    BY ZenonT(30), RevokeInviteStoreType DEF TypeOK
  <2>2. BeginSave(p, s, Op("revokeInvite", t, None))
    BY <1>7, Zenon DEF RevokeInvite
  <2> HIDE DEF s
  <2> QED BY <1>7, <2>1, <2>2, BeginSaveType, OpTypes, Zenon DEF RevokeInvite, TypeOK, fileVars, shareVars
<1>8. ASSUME NEW p \in Procs, NEW id \in Ids, RevokeDevice(p, id) PROVE TypeOK'
  <2>1. PICK i \in 1..Len(mem[p].devices) :
          BeginSave(p, [mem[p] EXCEPT !.devices[i].revoked = TRUE],
                    Op("revokeDevice", None, mem[p].devices[i].pub))
    BY ZenonT(30), <1>8 DEF RevokeDevice
  <2> DEFINE s == [mem[p] EXCEPT !.devices[i].revoked = TRUE]
             k == mem[p].devices[i].pub
  <2>2. mem[p] \in Stores /\ mem[p].devices \in Seq(Devices)
    BY Zenon DEF TypeOK, Stores
  <2>3. s \in Stores
    BY ZenonT(30), <2>2, RevokeDeviceStore
  <2>4. k \in Pubs
    <3>1. mem[p].devices[i] \in Devices
      BY <2>2, ElementOfSeq, Zenon
    <3> QED BY <3>1, Zenon DEF Devices
  <2>5. BeginSave(p, s, Op("revokeDevice", None, k))
    BY <2>1, Zenon
  <2> HIDE DEF s, k
  <2> QED BY <1>8, <2>3, <2>4, <2>5, BeginSaveType, OpTypes, Zenon DEF RevokeDevice, TypeOK, fileVars, shareVars, histVars
<1>9. ASSUME NEW p \in Procs, SaveOpen(p) PROVE TypeOK'
  BY <1>9, FileTypes, Zenon DEF SaveOpen, TypeOK, histVars
<1>10. ASSUME NEW p \in Procs, SaveWrite(p) PROVE TypeOK'
  <2>1. tmp' \in Files /\ path' \in Files
    BY <1>10, FileTypes DEF SaveWrite, Written, TypeOK
  <2> QED BY <1>10, <2>1, Zenon DEF SaveWrite, TypeOK, shareVars, histVars
<1>11. ASSUME NEW p \in Procs, SaveRename(p) PROVE TypeOK'
  <2>1. fd' \in [Procs -> {"none", "tmp", "path", "gone"}]
    BY <1>11 DEF SaveRename, Renamed, TypeOK
  <2> QED BY <1>11, <2>1, FileTypes, Zenon DEF SaveRename, TypeOK, histVars
<1>12. ASSUME NEW p \in Procs, SaveFails(p) PROVE TypeOK'
  <2>1. tmp' \in Files /\ path' \in Files /\ fd' \in [Procs -> {"none", "tmp", "path", "gone"}]
    BY <1>12, PartialWriteType, Zenon DEF SaveFails
  <2> QED BY ZenonT(30), <1>12, <2>1 DEF SaveFails, TypeOK, shareVars, histVars
<1>13. ASSUME NEW p \in Procs, Return(p) PROVE TypeOK'
  <2>1. op[p] \in Ops
    BY Zenon DEF TypeOK
  <2>2. /\ admitted' \subseteq Pubs /\ announced' \subseteq Tokens
        /\ barred' \subseteq Pubs /\ oks' \in [Tokens -> Nat]
    BY <1>13, <2>1, OpFields DEF Return, TypeOK
  <2> QED BY <1>13, <2>2, EmptyStoreType, OpTypes, Zenon DEF Return, TypeOK, fileVars
<1>14. ASSUME NEW t \in Tokens, Expire(t) PROVE TypeOK'
  BY <1>14, Zenon DEF Expire, TypeOK, procVars, fileVars, shareVars, histVars
<1>15. CASE UNCHANGED vars
  BY <1>15, Zenon DEF vars, procVars, fileVars, shareVars, histVars, TypeOK
<1> QED
  BY <1>1, <1>2, <1>3, <1>4, <1>5, <1>6, <1>7, <1>8, <1>9, <1>10, <1>11, <1>12, <1>13,
     <1>14, <1>15, Zenon DEF Next

(* Type correctness, whatever the server and the commands do and however they *)
(* interleave: every store in memory or on file is one the code could have    *)
(* built (storeData and save in registry.go).                                 *)
THEOREM RegistryTypeCorrect == Spec => []TypeOK
BY TypeInit, TypeStep, PTL DEF Spec

-----------------------------------------------------------------------------
(* Devices and uses, however the processes overlap                           *)

(* A store in which every use admitted one device.  What is not an invite     *)
(* yet has no uses, so that CreateInvite loses none.                         *)
Counted(s) ==
  /\ IsFiniteSet(UsesOf(s)) /\ Len(s.devices) = Cardinality(UsesOf(s))
  /\ \A t \in Tokens :
       /\ s.invites[t].uses <= Limit(s.invites[t].maxUses)
       /\ ~s.invites[t].made => s.invites[t].uses = 0

(* Every copy, and what a process would load, is such a store.               *)
UsesInv ==
  /\ \A p \in Procs : Counted(mem[p])
  /\ Counted(path.data) /\ Counted(tmp.data)

(* The limit of an invite is positive.                                       *)
LEMMA LimitPositive == \A n \in MaxUsesArgs : Limit(n) \in Nat /\ 1 <= Limit(n)
BY RegistryAssumption DEF Limit

(* A use of a store belongs to a token and has a number up to its count.     *)
LEMMA UseNumbered ==
  ASSUME NEW s, NEW x \in UsesOf(s)
  PROVE  \E t \in Tokens : \E i \in 1..s.invites[t].uses : x = <<t, i>>
<1>1. PICK t \in Tokens : x \in {t} \X (1..s.invites[t].uses)
  BY Zenon DEF UsesOf
<1> DEFINE I == 1..s.invites[t].uses
<1>2. x \in {t} \X I
  BY <1>1, Zenon
<1> HIDE DEF I
<1>3. \E i \in I : x = <<t, i>>
  BY <1>2, SMTT(20)
<1> QED BY <1>3, Zenon DEF I

(* Every number up to the count of a token is a use.                         *)
LEMMA UseCounted ==
  ASSUME NEW s, NEW t \in Tokens, NEW i \in 1..s.invites[t].uses
  PROVE  <<t, i>> \in UsesOf(s)
<1> DEFINE I(u) == 1..s.invites[u].uses
<1> HIDE DEF I
<1>1. i \in I(t)
  BY Zenon DEF I
<1>2. <<t, i>> \in {t} \X I(t)
  BY <1>1, SMTT(20)
<1>3. <<t, i>> \in UNION {{u} \X I(u) : u \in Tokens}
  BY <1>2, ZenonT(30)
<1> QED BY <1>3, Zenon DEF UsesOf, I

(* Stores that count the same uses.                                          *)
LEMMA SameUses ==
  ASSUME NEW s, NEW r, \A t \in Tokens : r.invites[t].uses = s.invites[t].uses
  PROVE  UsesOf(r) = UsesOf(s)
BY Zenon DEF UsesOf

(* The registry of a first start.                                            *)
LEMMA CountedEmpty == Counted(EmptyStore)
<1>1. /\ EmptyStore.devices = <<>>
      /\ \A t \in Tokens : EmptyStore.invites[t] = NoInvite
  BY Zenon DEF EmptyStore
<1>2. NoInvite.uses = 0 /\ NoInvite.maxUses = 0
  BY Zenon DEF NoInvite
<1>3. UsesOf(EmptyStore) = {}
  <2>1. 1..0 = {}
    OBVIOUS
  <2> QED BY <1>1, <1>2, <2>1, UseNumbered, Zenon
<1>4. 0 <= Limit(0)
  BY RegistryAssumption, LimitPositive
<1>5. Len(<<>>) = 0
  OBVIOUS
<1> QED BY <1>1, <1>2, <1>3, <1>4, <1>5, FS_EmptySet, Zenon DEF Counted

(* Bootstrap admits one device and counts one use.                           *)
LEMMA CountedBootstrap ==
  ASSUME NEW s \in Stores, Counted(s), NEW t \in Tokens, NEW d \in Devices, NEW r,
         s.invites[t].made, s.invites[t].uses < Limit(s.invites[t].maxUses),
         r.devices = Append(s.devices, d),
         r.invites = [s.invites EXCEPT ![t].uses = @ + 1]
  PROVE  Counted(r)
<1> DEFINE n == s.invites[t].uses
<1>1. s.devices \in Seq(Devices) /\ s.invites \in [Tokens -> Invites]
  BY Zenon DEF Stores
<1>2. /\ n \in Nat /\ s.invites[t].maxUses \in MaxUsesArgs
      /\ s.invites[t] \in Invites
  BY <1>1, Zenon DEF Invites
<1>3. /\ r.invites[t] = [s.invites[t] EXCEPT !.uses = n + 1]
      /\ \A u \in Tokens : u # t => r.invites[u] = s.invites[u]
  BY <1>1, Zenon
<1>4. /\ r.invites[t].uses = n + 1 /\ r.invites[t].maxUses = s.invites[t].maxUses
      /\ r.invites[t].made = s.invites[t].made
  BY <1>2, <1>3, ZenonT(30) DEF Invites
<1>5. UsesOf(r) = UsesOf(s) \union {<<t, n + 1>>}
  <2>1. \A i : i \in 1..(n + 1) <=> i \in 1..n \/ i = n + 1
    BY <1>2
  <2> HIDE DEF n
  <2>2. ASSUME NEW u \in Tokens, NEW i
        PROVE  i \in 1..r.invites[u].uses <=>
                 i \in 1..s.invites[u].uses \/ (u = t /\ i = n + 1)
    BY <1>3, <1>4, <2>1, Zenon DEF n
  <2>3. ASSUME NEW x, x \in UsesOf(r) PROVE x \in UsesOf(s) \union {<<t, n + 1>>}
    <3>1. PICK u \in Tokens : \E i \in 1..r.invites[u].uses : x = <<u, i>>
      BY <2>3, UseNumbered, Zenon
    <3>2. PICK i \in 1..r.invites[u].uses : x = <<u, i>>
      BY <3>1, Zenon
    <3> QED BY <2>2, <3>2, UseCounted, Zenon
  <2>4. ASSUME NEW x, x \in UsesOf(s) \union {<<t, n + 1>>} PROVE x \in UsesOf(r)
    <3>1. CASE x = <<t, n + 1>>
      <4>1. n + 1 \in 1..r.invites[t].uses
        BY <2>2, Zenon
      <4> QED BY <3>1, <4>1, UseCounted, Zenon
    <3>2. CASE x \in UsesOf(s)
      <4>1. PICK u \in Tokens : \E i \in 1..s.invites[u].uses : x = <<u, i>>
        BY <3>2, UseNumbered, Zenon
      <4>2. PICK i \in 1..s.invites[u].uses : x = <<u, i>>
        BY <4>1, Zenon
      <4> QED BY <2>2, <4>2, UseCounted, Zenon
    <3> QED BY <2>4, <3>1, <3>2, Zenon
  <2> QED BY <2>3, <2>4, Zenon
<1>6. <<t, n + 1>> \notin UsesOf(s)
  <2>1. n + 1 \notin 1..n
    BY <1>2
  <2> HIDE DEF n
  <2>2. ASSUME <<t, n + 1>> \in UsesOf(s) PROVE FALSE
    <3>1. PICK u \in Tokens : \E i \in 1..s.invites[u].uses : <<t, n + 1>> = <<u, i>>
      BY <2>2, UseNumbered, Zenon
    <3>2. PICK i \in 1..s.invites[u].uses : <<t, n + 1>> = <<u, i>>
      BY <3>1, Zenon
    <3>3. u = t /\ i = n + 1
      BY <3>2
    <3> QED BY <2>1, <3>3, Zenon DEF n
  <2> QED BY <2>2, Zenon
<1> DEFINE U == UsesOf(s)
           x == <<t, n + 1>>
<1>7. IsFiniteSet(UsesOf(r)) /\ Cardinality(UsesOf(r)) = Cardinality(UsesOf(s)) + 1
  <2>1. IsFiniteSet(U)
    BY Zenon DEF Counted
  <2> HIDE DEF U, x
  <2>2. IsFiniteSet(U \union {x}) /\ (x \notin U => Cardinality(U \union {x}) = Cardinality(U) + 1)
    BY <2>1, FS_AddElement
  <2> QED BY <1>5, <1>6, <2>2, Zenon DEF U, x
<1>8. Len(r.devices) = Len(s.devices) + 1
  BY <1>1
<1>9. n + 1 <= Limit(s.invites[t].maxUses)
  BY <1>2, LimitPositive
<1>10. ASSUME NEW u \in Tokens
       PROVE  /\ r.invites[u].uses <= Limit(r.invites[u].maxUses)
              /\ ~r.invites[u].made => r.invites[u].uses = 0
  <2>1. CASE u = t
    BY <1>4, <1>9, <2>1, Zenon
  <2>2. CASE u # t
    BY <1>3, <2>2, Zenon DEF Counted
  <2> QED BY <2>1, <2>2, Zenon
<1>11. Len(s.devices) = Cardinality(UsesOf(s))
  BY Zenon DEF Counted
<1>12. Len(r.devices) = Cardinality(UsesOf(r))
  BY <1>7, <1>8, <1>11, Zenon
<1> QED BY <1>7, <1>10, <1>12, Zenon DEF Counted

(* CreateInvite adds a record without uses where there was none.             *)
LEMMA CountedCreate ==
  ASSUME NEW s \in Stores, Counted(s), NEW t \in Tokens, NEW n \in MaxUsesArgs, NEW r,
         ~s.invites[t].made, r.devices = s.devices,
         r.invites = [s.invites EXCEPT ![t] = [made |-> TRUE, maxUses |-> n, uses |-> 0,
                                               revoked |-> FALSE]]
  PROVE  Counted(r)
<1>1. s.invites \in [Tokens -> Invites]
  BY Zenon DEF Stores
<1>2. /\ r.invites[t].uses = 0 /\ r.invites[t].maxUses = n /\ r.invites[t].made
      /\ \A u \in Tokens : u # t => r.invites[u] = s.invites[u]
  <2> DEFINE v == [made |-> TRUE, maxUses |-> n, uses |-> 0, revoked |-> FALSE]
  <2>1. v.uses = 0 /\ v.maxUses = n /\ v.made
    BY Zenon
  <2> HIDE DEF v
  <2>2. r.invites[t] = v /\ \A u \in Tokens : u # t => r.invites[u] = s.invites[u]
    BY <1>1, Zenon DEF v
  <2> QED BY <2>1, <2>2, Zenon
<1>3. s.invites[t].uses = 0
  BY Zenon DEF Counted
<1>4. UsesOf(r) = UsesOf(s)
  <2>1. \A u \in Tokens : r.invites[u].uses = s.invites[u].uses
    BY <1>2, <1>3, Zenon
  <2> QED BY <2>1, SameUses, Zenon
<1>5. 0 <= Limit(n)
  BY LimitPositive
<1>6. ASSUME NEW u \in Tokens
      PROVE  /\ r.invites[u].uses <= Limit(r.invites[u].maxUses)
             /\ ~r.invites[u].made => r.invites[u].uses = 0
  BY <1>2, <1>5, Zenon DEF Counted
<1> QED BY <1>4, <1>6, Zenon DEF Counted

(* The revocations and AuthorizeDevice change no count.                      *)
LEMMA CountedSame ==
  ASSUME NEW s, Counted(s), NEW r, Len(r.devices) = Len(s.devices),
         \A t \in Tokens : /\ r.invites[t].uses = s.invites[t].uses
                           /\ r.invites[t].maxUses = s.invites[t].maxUses
                           /\ r.invites[t].made = s.invites[t].made
  PROVE  Counted(r)
<1>1. UsesOf(r) = UsesOf(s)
  BY SameUses, Zenon
<1> QED BY <1>1, Zenon DEF Counted

(* An operation puts a store of this kind into memory.                       *)
LEMMA UsesInvBegin ==
  ASSUME TypeOK, UsesInv, NEW p \in Procs, NEW s, NEW o, BeginSave(p, s, o), Counted(s),
         UNCHANGED <<path, tmp>>
  PROVE  UsesInv'
BY Zenon DEF BeginSave, TypeOK, UsesInv

(* Every step keeps UsesInv, however the processes overlap.                  *)
LEMMA UsesInvStep == TypeOK /\ UsesInv /\ [Next]_vars => UsesInv'
<1> SUFFICES ASSUME TypeOK, UsesInv, [Next]_vars PROVE UsesInv'
  OBVIOUS
<1>0. /\ \A p \in Procs : mem[p] \in Stores /\ Counted(mem[p])
      /\ Counted(path.data) /\ Counted(tmp.data) /\ Counted(EmptyStore)
  BY CountedEmpty, Zenon DEF TypeOK, UsesInv
<1>1. Absent.data = EmptyStore /\ Empty.data = EmptyStore /\ Torn.data = EmptyStore
      /\ \A s : Whole(s).data = s
  BY Zenon DEF Absent, Empty, Torn, Whole
<1>2. ASSUME \A p \in Procs : mem'[p] \in {mem[p], path.data, EmptyStore},
             path' \in {path, tmp, Torn} \union {Whole(mem[p]) : p \in Procs},
             tmp' \in {tmp, Torn, Empty, Absent} \union {Whole(mem[p]) : p \in Procs}
      PROVE  UsesInv'
  <2>1. ASSUME NEW p \in Procs PROVE Counted(mem'[p])
    BY <1>0, <1>2, Zenon
  <2>2. Counted(path'.data)
    BY <1>0, <1>1, <1>2, Zenon
  <2>3. Counted(tmp'.data)
    BY <1>0, <1>1, <1>2, Zenon
  <2> QED BY <2>1, <2>2, <2>3, Zenon DEF UsesInv
<1>3. ASSUME NEW p \in Procs, Load(p) \/ Stop(p) \/ Return(p) PROVE UsesInv'
  <2>1. \A q \in Procs : mem'[q] \in {mem[q], path.data, EmptyStore}
    BY <1>3, Zenon DEF Load, Stop, Return, TypeOK
  <2>2. path' \in {path, Torn} /\ tmp' \in {tmp, Torn}
    BY <1>3, Zenon DEF Load, Stop, Return, PartialWrite, fileVars
  <2> QED BY <1>2, <2>1, <2>2, Zenon
<1>4. ASSUME NEW p \in Procs, SaveOpen(p) \/ SaveWrite(p) \/ SaveRename(p) \/ SaveFails(p)
      PROVE  UsesInv'
  <2>1. mem' = mem
    BY <1>4, Zenon DEF SaveOpen, SaveWrite, SaveRename, SaveFails
  <2>2. \A f, s : Written(f, s) \subseteq {Whole(s), Torn}
    BY Zenon DEF Written
  <2>3. path' \in {path, tmp, Torn, Whole(mem[p])}
    BY <1>4, <2>2, Zenon DEF SaveOpen, SaveWrite, SaveRename, SaveFails, PartialWrite
  <2>4. tmp' \in {tmp, Torn, Empty, Absent, Whole(mem[p])}
    BY <1>4, <2>2, ZenonT(40) DEF SaveOpen, SaveWrite, SaveRename, SaveFails, PartialWrite
  <2> QED BY <1>2, <2>1, <2>3, <2>4, Zenon
<1>5. ASSUME NEW p \in Procs, NEW k \in Pubs, AuthorizeDevice(p, k) PROVE UsesInv'
  <2>1. BeginSave(p, mem[p], Op("auth", None, k)) /\ UNCHANGED <<path, tmp>>
    BY <1>5, Zenon DEF AuthorizeDevice, fileVars
  <2> QED BY <1>0, <2>1, UsesInvBegin, Zenon
<1>6. ASSUME NEW p \in Procs, NEW t \in Tokens, NEW k \in Pubs, Bootstrap(p, t, k)
      PROVE  UsesInv'
  <2> DEFINE d == [pub |-> k, revoked |-> FALSE]
             s == [devices |-> Append(mem[p].devices, d),
                   invites |-> [mem[p].invites EXCEPT ![t].uses = @ + 1]]
  <2>1. /\ BeginSave(p, s, Op("bootstrap", t, k)) /\ UNCHANGED <<path, tmp>>
        /\ mem[p].invites[t].made
        /\ mem[p].invites[t].uses < Limit(mem[p].invites[t].maxUses)
    BY <1>6, ZenonT(30) DEF Bootstrap, fileVars
  <2>2. /\ s.devices = Append(mem[p].devices, d) /\ d \in Devices
        /\ s.invites = [mem[p].invites EXCEPT ![t].uses = @ + 1]
    BY Zenon DEF Devices
  <2> HIDE DEF s, d
  <2>3. Counted(s)
    BY <1>0, <2>1, <2>2, CountedBootstrap, Zenon
  <2> QED BY <2>1, <2>3, UsesInvBegin, Zenon
<1>7. ASSUME NEW p \in Procs, NEW t \in Tokens, NEW n \in MaxUsesArgs, CreateInvite(p, t, n)
      PROVE  UsesInv'
  <2> DEFINE s == [mem[p] EXCEPT !.invites[t] =
                     [made |-> TRUE, maxUses |-> n, uses |-> 0, revoked |-> FALSE]]
  <2>1. /\ BeginSave(p, s, Op("create", t, None)) /\ UNCHANGED <<path, tmp>>
        /\ ~mem[p].invites[t].made
    BY <1>7, ZenonT(30) DEF CreateInvite, fileVars
  <2>2. /\ s.devices = mem[p].devices
        /\ s.invites = [mem[p].invites EXCEPT ![t] =
                          [made |-> TRUE, maxUses |-> n, uses |-> 0, revoked |-> FALSE]]
    BY <1>0, Zenon DEF Stores
  <2> HIDE DEF s
  <2>3. Counted(s)
    BY <1>0, <2>1, <2>2, CountedCreate, Zenon
  <2> QED BY <2>1, <2>3, UsesInvBegin, Zenon
<1>8. ASSUME NEW p \in Procs, NEW t \in Tokens, RevokeInvite(p, t) PROVE UsesInv'
  <2> DEFINE s == [mem[p] EXCEPT !.invites[t].revoked = TRUE]
  <2>1. BeginSave(p, s, Op("revokeInvite", t, None)) /\ UNCHANGED <<path, tmp>>
    BY <1>8, ZenonT(30) DEF RevokeInvite, fileVars
  <2>2. /\ s.devices = mem[p].devices
        /\ s.invites = [mem[p].invites EXCEPT ![t].revoked = TRUE]
    BY <1>0, Zenon DEF Stores
  <2> HIDE DEF s
  <2>3. mem[p].invites \in [Tokens -> Invites]
    BY <1>0, Zenon DEF Stores
  <2>4. \A u \in Tokens : /\ s.invites[u].uses = mem[p].invites[u].uses
                          /\ s.invites[u].maxUses = mem[p].invites[u].maxUses
                          /\ s.invites[u].made = mem[p].invites[u].made
    <3>1. \A u \in Tokens : u # t => s.invites[u] = mem[p].invites[u]
      BY <2>2, <2>3, Zenon
    <3>2. s.invites[t] = [mem[p].invites[t] EXCEPT !.revoked = TRUE]
      BY <2>2, <2>3, Zenon
    <3>3. mem[p].invites[t] \in Invites
      BY <2>3, Zenon
    <3>4. /\ s.invites[t].uses = mem[p].invites[t].uses
          /\ s.invites[t].maxUses = mem[p].invites[t].maxUses
          /\ s.invites[t].made = mem[p].invites[t].made
      BY <3>2, <3>3, Zenon DEF Invites
    <3> QED BY <3>1, <3>4, Zenon
  <2>5. Counted(s)
    BY <1>0, <2>2, <2>4, CountedSame, Zenon
  <2> QED BY <2>1, <2>5, UsesInvBegin, Zenon
<1>9. ASSUME NEW p \in Procs, NEW id \in Ids, RevokeDevice(p, id) PROVE UsesInv'
  <2>1. PICK i \in 1..Len(mem[p].devices) :
          BeginSave(p, [mem[p] EXCEPT !.devices[i].revoked = TRUE],
                    Op("revokeDevice", None, mem[p].devices[i].pub))
    BY <1>9, ZenonT(30) DEF RevokeDevice
  <2>2. UNCHANGED <<path, tmp>>
    BY <1>9, Zenon DEF RevokeDevice, fileVars
  <2> DEFINE s == [mem[p] EXCEPT !.devices[i].revoked = TRUE]
             k == mem[p].devices[i].pub
  <2>3. Len(s.devices) = Len(mem[p].devices)
    BY <1>0, RevokeDeviceStore, Zenon
  <2>4. s.invites = mem[p].invites
    BY <1>0, Zenon DEF Stores
  <2>5. BeginSave(p, s, Op("revokeDevice", None, k))
    BY <2>1, Zenon
  <2> HIDE DEF s, k
  <2>6. Counted(s)
    BY <1>0, <2>3, <2>4, CountedSame, Zenon
  <2> QED BY <2>2, <2>5, <2>6, UsesInvBegin, Zenon
<1>10. ASSUME \/ \E p \in Procs, t \in Tokens : BootstrapRefused(p, t)
              \/ \E t \in Tokens : Expire(t)
              \/ UNCHANGED vars
       PROVE  UsesInv'
  <2>1. UNCHANGED <<mem, path, tmp>>
    BY <1>10, ZenonT(30) DEF BootstrapRefused, Expire, vars, procVars, fileVars
  <2> QED BY <2>1, Zenon DEF UsesInv
<1> QED BY <1>3, <1>4, <1>5, <1>6, <1>7, <1>8, <1>9, <1>10, ZenonT(40) DEF Next

(* UsesInv holds when nothing has run yet.                                   *)
LEMMA UsesInvInit == Init => UsesInv
<1> SUFFICES ASSUME Init PROVE UsesInv
  OBVIOUS
<1>1. (\A p \in Procs : mem[p] = EmptyStore) /\ path = Absent /\ tmp = Absent
  BY Zenon DEF Init
<1>2. Absent.data = EmptyStore
  BY Zenon DEF Absent
<1> QED BY <1>1, <1>2, CountedEmpty, Zenon DEF UsesInv

(* Also where commands run beside the server, and saves overwrite each other  *)
(* or fail, every copy of the registry has one device for each use of an      *)
(* invite.                                                                    *)
THEOREM CopiesConsistent == Spec => []DevicesMatchUses
<1>1. UsesInv => DevicesMatchUses
  BY Zenon DEF UsesInv, Counted, DevicesMatchUses, LiveStores
<1> QED BY <1>1, TypeInit, TypeStep, UsesInvInit, UsesInvStep, PTL DEF Spec

-----------------------------------------------------------------------------
(* Saves that do not overlap.                                                *)

(* No operation is pending outside a save, and only the server registers      *)
(* devices.  Until two processes save at the same time, one has the temporary *)
(* file at a time, it holds its store once written, and the registry file is  *)
(* absent or whole.                                                           *)
SaveInv ==
  /\ \A p \in Procs :
       /\ pc[p] \in {"down", "idle"} => op[p] = NoOp
       /\ op[p].kind = "bootstrap" => p = "serve"
  /\ ~mixed =>
       /\ path.st = "whole" \/ path = Absent
       /\ \A p, q \in Procs :
            pc[p] \in {"write", "rename"} /\ pc[q] \in {"write", "rename"} => p = q
       /\ \A p \in Procs :
            /\ fd[p] = IF pc[p] = "write" THEN "tmp" ELSE "none"
            /\ pc[p] = "write" => tmp = Empty
            /\ pc[p] = "rename" => tmp = Whole(mem[p])

(* An operation begins its save: the files are not touched yet.              *)
LEMMA SaveInvBegin ==
  ASSUME TypeOK, SaveInv, NEW p \in Procs, NEW s \in Stores, NEW o \in Ops,
         pc[p] = "idle", BeginSave(p, s, o), UNCHANGED <<fileVars, shareVars>>,
         o.kind = "bootstrap" => p = "serve"
  PROVE  SaveInv'
<1>1. /\ UNCHANGED <<path, tmp, fd, mixed>>
      /\ pc'[p] = "open" /\ op'[p] = o
      /\ \A q \in Procs : q # p => mem'[q] = mem[q] /\ op'[q] = op[q] /\ pc'[q] = pc[q]
  BY Zenon DEF BeginSave, TypeOK, fileVars, shareVars
<1>2. \A q \in Procs : /\ pc'[q] \in {"down", "idle"} => op'[q] = NoOp
                       /\ op'[q].kind = "bootstrap" => q = "serve"
  BY <1>1 DEF SaveInv
<1>3. ASSUME ~mixed
      PROVE  /\ \A r, q \in Procs : pc'[r] \in {"write", "rename"} /\ pc'[q] \in {"write", "rename"} => r = q
             /\ \A q \in Procs :
                  /\ fd'[q] = IF pc'[q] = "write" THEN "tmp" ELSE "none"
                  /\ pc'[q] = "write" => tmp' = Empty
                  /\ pc'[q] = "rename" => tmp' = Whole(mem'[q])
  BY <1>1, <1>3 DEF SaveInv
<1> QED BY <1>1, <1>2, <1>3, ZenonT(30) DEF SaveInv

(* Every step keeps SaveInv.                                                 *)
LEMMA SaveInvStep == TypeOK /\ SaveInv /\ [Next]_vars => SaveInv'
<1> SUFFICES ASSUME TypeOK, SaveInv, [Next]_vars PROVE SaveInv'
  OBVIOUS
<1>1. ASSUME NEW p \in Procs, Load(p) PROVE SaveInv'
  BY <1>1 DEF Load, TypeOK, SaveInv, fileVars, shareVars
<1>2. ASSUME NEW p \in Procs, Stop(p) PROVE SaveInv'
  BY <1>2 DEF Stop, PartialWrite, TypeOK, SaveInv, NoOp, Op
<1>3. ASSUME NEW p \in Procs, NEW k \in Pubs, AuthorizeDevice(p, k) PROVE SaveInv'
  <2>1. mem[p] \in Stores /\ Op("auth", None, k).kind # "bootstrap"
    BY Zenon DEF TypeOK, Op
  <2> QED BY <1>3, <2>1, SaveInvBegin, OpTypes, Zenon DEF AuthorizeDevice
<1>4. ASSUME NEW p \in Procs, NEW t \in Tokens, BootstrapRefused(p, t) PROVE SaveInv'
  BY <1>4, Zenon DEF BootstrapRefused, SaveInv, procVars, fileVars, shareVars
<1>5. ASSUME NEW p \in Procs, NEW t \in Tokens, NEW k \in Pubs, Bootstrap(p, t, k) PROVE SaveInv'
  <2> DEFINE s == [devices |-> Append(mem[p].devices, [pub |-> k, revoked |-> FALSE]),
                   invites |-> [mem[p].invites EXCEPT ![t].uses = @ + 1]]
  <2>1. s \in Stores
    BY BootstrapStoreType, Zenon DEF TypeOK
  <2>2. /\ BeginSave(p, s, Op("bootstrap", t, k)) /\ pc[p] = "idle" /\ p = "serve"
        /\ UNCHANGED <<fileVars, shareVars>>
    BY <1>5, Zenon DEF Bootstrap
  <2> HIDE DEF s
  <2> QED BY <2>1, <2>2, SaveInvBegin, OpTypes, Zenon
<1>6. ASSUME NEW p \in Procs, NEW t \in Tokens, NEW n \in MaxUsesArgs, CreateInvite(p, t, n)
      PROVE  SaveInv'
  <2> DEFINE s == [mem[p] EXCEPT !.invites[t] =
                     [made |-> TRUE, maxUses |-> n, uses |-> 0, revoked |-> FALSE]]
  <2>1. s \in Stores /\ Op("create", t, None).kind # "bootstrap"
    BY CreateStoreType, Zenon DEF TypeOK, Op
  <2>2. /\ BeginSave(p, s, Op("create", t, None)) /\ pc[p] = "idle"
        /\ UNCHANGED <<fileVars, shareVars>>
    BY <1>6, Zenon DEF CreateInvite
  <2> HIDE DEF s
  <2> QED BY <2>1, <2>2, SaveInvBegin, OpTypes, Zenon
<1>7. ASSUME NEW p \in Procs, NEW t \in Tokens, RevokeInvite(p, t) PROVE SaveInv'
  <2> DEFINE s == [mem[p] EXCEPT !.invites[t].revoked = TRUE]
  <2>1. s \in Stores /\ Op("revokeInvite", t, None).kind # "bootstrap"
    BY ZenonT(30), RevokeInviteStoreType DEF TypeOK, Op
  <2>2. /\ BeginSave(p, s, Op("revokeInvite", t, None)) /\ pc[p] = "idle"
        /\ UNCHANGED <<fileVars, shareVars>>
    BY <1>7, Zenon DEF RevokeInvite
  <2> HIDE DEF s
  <2> QED BY <2>1, <2>2, SaveInvBegin, OpTypes, Zenon
<1>8. ASSUME NEW p \in Procs, NEW id \in Ids, RevokeDevice(p, id) PROVE SaveInv'
  <2>1. PICK i \in 1..Len(mem[p].devices) :
          BeginSave(p, [mem[p] EXCEPT !.devices[i].revoked = TRUE],
                    Op("revokeDevice", None, mem[p].devices[i].pub))
    BY ZenonT(30), <1>8 DEF RevokeDevice
  <2> DEFINE s == [mem[p] EXCEPT !.devices[i].revoked = TRUE]
             k == mem[p].devices[i].pub
  <2>2. mem[p] \in Stores /\ mem[p].devices \in Seq(Devices)
    BY Zenon DEF TypeOK, Stores
  <2>3. s \in Stores
    BY ZenonT(30), <2>2, RevokeDeviceStore
  <2>4. k \in Pubs
    <3>1. mem[p].devices[i] \in Devices
      BY <2>2, ElementOfSeq, Zenon
    <3> QED BY <3>1, Zenon DEF Devices
  <2>5. /\ BeginSave(p, s, Op("revokeDevice", None, k)) /\ pc[p] = "idle"
        /\ UNCHANGED <<fileVars, shareVars>>
    BY <1>8, <2>1, Zenon DEF RevokeDevice
  <2> HIDE DEF s, k
  <2>6. Op("revokeDevice", None, k).kind # "bootstrap"
    BY Zenon DEF Op
  <2> QED BY <2>3, <2>4, <2>5, <2>6, SaveInvBegin, OpTypes, Zenon
<1>9. ASSUME NEW p \in Procs, SaveOpen(p) PROVE SaveInv'
  <2>1. /\ pc'[p] = "write" /\ fd'[p] = "tmp" /\ tmp' = Empty
        /\ \A q \in Procs : q # p => pc'[q] = pc[q] /\ fd'[q] = fd[q]
        /\ UNCHANGED <<mem, op, path>> /\ pc[p] = "open"
    BY <1>9, Zenon DEF SaveOpen, TypeOK
  <2>2. \A q \in Procs : /\ pc'[q] \in {"down", "idle"} => op'[q] = NoOp
                         /\ op'[q].kind = "bootstrap" => q = "serve"
    BY <2>1 DEF SaveInv
  <2>3. ~mixed' => ~mixed /\ \A q \in Procs : q # p => pc[q] \notin {"write", "rename"}
    BY <1>9, Zenon DEF SaveOpen, Saving
  <2>4. ASSUME ~mixed'
        PROVE  /\ path'.st = "whole" \/ path' = Absent
               /\ \A r, q \in Procs : pc'[r] \in {"write", "rename"} /\ pc'[q] \in {"write", "rename"} => r = q
               /\ \A q \in Procs :
                    /\ fd'[q] = IF pc'[q] = "write" THEN "tmp" ELSE "none"
                    /\ pc'[q] = "write" => tmp' = Empty
                    /\ pc'[q] = "rename" => tmp' = Whole(mem'[q])
    BY <2>1, <2>3, <2>4 DEF SaveInv
  <2> QED BY <2>2, <2>4, ZenonT(30) DEF SaveInv
<1>10. ASSUME NEW p \in Procs, SaveWrite(p) PROVE SaveInv'
  <2>1. ~mixed => tmp' = Whole(mem[p]) /\ path' = path
    BY <1>10, Zenon DEF SaveWrite, Written, SaveInv
  <2> QED BY <1>10, <2>1 DEF SaveWrite, TypeOK, SaveInv, shareVars
<1>11. ASSUME NEW p \in Procs, SaveRename(p) PROVE SaveInv'
  <2>1. ~mixed => tmp = Whole(mem[p]) /\ \A q \in Procs : fd[q] = "none"
    BY <1>11, Zenon DEF SaveRename, SaveInv
  <2>2. ~mixed => path' = Whole(mem[p]) /\ \A q \in Procs : fd'[q] = "none"
    BY <1>11, <2>1 DEF SaveRename, Renamed
  <2>3. ~mixed => path'.st = "whole"
    BY <2>2 DEF Whole
  <2> QED BY <1>11, <2>2, <2>3 DEF SaveRename, TypeOK, SaveInv
<1>12. ASSUME NEW p \in Procs, SaveFails(p) PROVE SaveInv'
  BY <1>12 DEF SaveFails, PartialWrite, TypeOK, SaveInv, shareVars
<1>13. ASSUME NEW p \in Procs, Return(p) PROVE SaveInv'
  BY <1>13 DEF Return, TypeOK, SaveInv, fileVars, NoOp, Op
<1>14. ASSUME NEW t \in Tokens, Expire(t) PROVE SaveInv'
  BY <1>14, Zenon DEF Expire, SaveInv, procVars, fileVars, shareVars
<1>15. CASE UNCHANGED vars
  BY <1>15, Zenon DEF vars, procVars, fileVars, shareVars, SaveInv
<1> QED
  BY <1>1, <1>2, <1>3, <1>4, <1>5, <1>6, <1>7, <1>8, <1>9, <1>10, <1>11, <1>12, <1>13,
     <1>14, <1>15, Zenon DEF Next

(* SaveInv holds when nothing has run yet.                                   *)
LEMMA SaveInvInit == Init => SaveInv
BY DEF Init, SaveInv, Absent, NoOp, Op

(* Unless two processes save at the same time, no crash and no failure in the *)
(* middle of a save makes the registry file unreadable, with commands beside  *)
(* the running server too (save and Load in registry.go).                     *)
THEOREM FileAlwaysReadable == Spec => []FileReadable
<1>1. SaveInv => FileReadable
  BY DEF SaveInv, FileReadable, Absent
<1> QED BY <1>1, TypeInit, TypeStep, SaveInvInit, SaveInvStep, PTL DEF Spec

-----------------------------------------------------------------------------
(* Revoked records.                                                          *)

(* The record of key k that AuthorizeDevice finds in s is revoked.           *)
Barred(s, k) == \E i \in 1..Len(s.devices) :
                  IsFirst(s.devices, {k}, i) /\ s.devices[i].revoked

(* A key that registers again is appended behind its revoked record, which    *)
(* AuthorizeDevice finds first.                                               *)
LEMMA BarredAppend ==
  ASSUME NEW s \in Stores, NEW d \in Devices, NEW k, Barred(s, k), NEW r,
         r.devices = Append(s.devices, d)
  PROVE  Barred(r, k)
<1> DEFINE ds == s.devices
           rs == r.devices
<1>1. ds \in Seq(Devices)
  BY Zenon DEF Stores
<1>2. /\ Len(rs) = Len(ds) + 1 /\ Len(ds) \in Nat
      /\ \A i \in 1..Len(ds) : rs[i] = ds[i]
  BY <1>1, AppendProperties, LenProperties
<1>3. PICK i \in 1..Len(ds) : IsFirst(ds, {k}, i) /\ ds[i].revoked
  BY Zenon DEF Barred
<1> HIDE DEF ds, rs
<1>4. i \in 1..Len(rs) /\ IsFirst(rs, {k}, i) /\ rs[i].revoked
  BY <1>2, <1>3 DEF IsFirst
<1> QED BY <1>4, Zenon DEF Barred, rs

(* Marking one more record bars its own key and keeps the barred ones barred. *)
LEMMA BarredMark ==
  ASSUME NEW s \in Stores, NEW i \in 1..Len(s.devices), NEW K \in SUBSET Pubs,
         IsFirst(s.devices, K, i)
  PROVE  LET r == [s EXCEPT !.devices[i].revoked = TRUE] IN
         /\ Barred(r, s.devices[i].pub)
         /\ \A k : Barred(s, k) => Barred(r, k)
<1> DEFINE r  == [s EXCEPT !.devices[i].revoked = TRUE]
           ds == s.devices
           rs == r.devices
<1>1. /\ Len(rs) = Len(ds)
      /\ rs[i].revoked
      /\ \A j \in 1..Len(ds) : rs[j].pub = ds[j].pub /\ (ds[j].revoked => rs[j].revoked)
  BY RevokeDeviceStore, Zenon
<1>2. Len(ds) \in Nat
  BY LenProperties, Zenon DEF Stores
<1>3. IsFirst(ds, K, i)
  OBVIOUS
<1>4. SUFFICES /\ \E j \in 1..Len(rs) : IsFirst(rs, {ds[i].pub}, j) /\ rs[j].revoked
               /\ \A k : (\E j \in 1..Len(ds) : IsFirst(ds, {k}, j) /\ ds[j].revoked)
                         => \E j \in 1..Len(rs) : IsFirst(rs, {k}, j) /\ rs[j].revoked
  BY ZenonT(30) DEF Barred
<1> HIDE DEF r, ds, rs
<1>5. i \in 1..Len(rs) /\ IsFirst(rs, {ds[i].pub}, i)
  BY <1>1, <1>2, <1>3 DEF IsFirst
<1>6. ASSUME NEW k, NEW j \in 1..Len(ds), IsFirst(ds, {k}, j), ds[j].revoked
      PROVE  j \in 1..Len(rs) /\ IsFirst(rs, {k}, j) /\ rs[j].revoked
  BY <1>1, <1>2, <1>6 DEF IsFirst
<1> QED BY ZenonT(30), <1>1, <1>5, <1>6

(* AuthorizeDevice never answers OK for a barred key.                        *)
LEMMA BarredRefused ==
  ASSUME NEW s \in Stores, NEW k, Barred(s, k), NEW i \in 1..Len(s.devices),
         IsFirst(s.devices, {k}, i)
  PROVE  s.devices[i].revoked
<1> DEFINE ds == s.devices
<1>1. Len(ds) \in Nat
  BY LenProperties, Zenon DEF Stores
<1>2. PICK j \in 1..Len(ds) : IsFirst(ds, {k}, j) /\ ds[j].revoked
  BY Zenon DEF Barred
<1>3. IsFirst(ds, {k}, i) /\ i \in 1..Len(ds)
  OBVIOUS
<1> HIDE DEF ds
<1>4. i = j
  BY <1>1, <1>2, <1>3 DEF IsFirst
<1> QED BY <1>2, <1>4, Zenon DEF ds

-----------------------------------------------------------------------------
(* What was answered is on file, and in memory.                              *)

Lists(s, k) == \E i \in 1..Len(s.devices) : s.devices[i].pub = k

(* Store s keeps what r has: the devices, the revocations, the invites and    *)
(* their uses.                                                                *)
Keeps(r, s) ==
  /\ \A k \in Pubs : Barred(r, k) => Barred(s, k)
  /\ \A k \in Pubs : Lists(r, k) => Lists(s, k)
  /\ \A t \in Tokens : r.invites[t].made => s.invites[t].made
  /\ \A t \in Tokens : r.invites[t].uses <= s.invites[t].uses

(* Store s holds what was answered: the devices A that were admitted, the     *)
(* invites N that were announced, the keys B whose revocation was reported,   *)
(* and a use for each OK that O counts.                                       *)
Holds(s, A, N, B, O) ==
  /\ \A k \in A : Lists(s, k)
  /\ \A t \in N : s.invites[t].made
  /\ \A k \in B : Barred(s, k)
  /\ \A t \in Tokens : O[t] <= s.invites[t].uses

(* Store s holds what operation o answers once it is saved.                  *)
Backs(s, o, O) ==
  /\ o.kind = "bootstrap" => Lists(s, o.pub) /\ O[o.token] < s.invites[o.token].uses
  /\ o.kind = "create" => s.invites[o.token].made
  /\ o.kind = "revokeDevice" => Barred(s, o.pub)

(* An invite is only revoked in s if its revocation was asked for.           *)
Permits(s, W) == \A t \in Tokens : s.invites[t].revoked => t \in W

(* The file holds what was answered and what the operations that are saved    *)
(* answer next; a process that is not behind has in memory all that the file  *)
(* has, and what its operation answers.                                       *)
AnswersKept ==
  /\ Holds(path.data, admitted, announced, barred, oks)
  /\ Permits(path.data, withdrawn)
  /\ \A p \in Procs :
       /\ Permits(mem[p], withdrawn)
       /\ pc[p] # "down" /\ p \notin behind => Keeps(path.data, mem[p])
       /\ pc[p] \in {"open", "write", "rename"} /\ p \notin behind => Backs(mem[p], op[p], oks)
       /\ pc[p] = "saved" => Backs(path.data, op[p], oks)

(* ... as long as no process has saved over what another saved.              *)
CleanInv == InviteUsable /\ (~lost /\ ~mixed => AnswersKept)

(* Keeps is a preorder, and what is kept is held.                            *)
LEMMA KeepsRefl == \A s \in Stores : Keeps(s, s)
<1>1. \A s \in Stores, t \in Tokens : s.invites[t].uses \in Nat
  BY Zenon DEF Stores, Invites
<1>2. \A n \in Nat : n <= n
  OBVIOUS
<1> QED BY <1>1, <1>2, Zenon DEF Keeps

LEMMA KeepsTrans ==
  ASSUME NEW r \in Stores, NEW s \in Stores, NEW u \in Stores, Keeps(r, s), Keeps(s, u)
  PROVE  Keeps(r, u)
<1>1. \A t \in Tokens : r.invites[t].uses \in Nat /\ s.invites[t].uses \in Nat /\ u.invites[t].uses \in Nat
  BY Zenon DEF Stores, Invites
<1>2. \A t \in Tokens : r.invites[t].uses <= s.invites[t].uses /\ s.invites[t].uses <= u.invites[t].uses
  BY Zenon DEF Keeps
<1>3. \A t \in Tokens : r.invites[t].uses <= u.invites[t].uses
  BY <1>1, <1>2
<1> QED BY <1>3, Zenon DEF Keeps

LEMMA KeepsHolds ==
  ASSUME NEW r \in Stores, NEW s \in Stores, NEW A \in SUBSET Pubs, NEW N \in SUBSET Tokens,
         NEW B \in SUBSET Pubs, NEW O \in [Tokens -> Nat], Keeps(r, s), Holds(r, A, N, B, O)
  PROVE  Holds(s, A, N, B, O)
<1>1. \A t \in Tokens : r.invites[t].uses \in Nat /\ s.invites[t].uses \in Nat /\ O[t] \in Nat
  BY Zenon DEF Stores, Invites
<1>2. \A t \in Tokens : r.invites[t].uses <= s.invites[t].uses /\ O[t] <= r.invites[t].uses
  BY Zenon DEF Keeps, Holds
<1>3. \A t \in Tokens : O[t] <= s.invites[t].uses
  BY <1>1, <1>2
<1> QED BY <1>3, Zenon DEF Keeps, Holds

LEMMA KeepsBacks ==
  ASSUME NEW r \in Stores, NEW s \in Stores, NEW o \in Ops, NEW O \in [Tokens -> Nat],
         Keeps(r, s), Backs(r, o, O)
  PROVE  Backs(s, o, O)
<1>1. /\ o.kind = "bootstrap" => o.token \in Tokens /\ o.pub \in Pubs
      /\ o.kind = "create" => o.token \in Tokens
      /\ o.kind = "revokeDevice" => o.pub \in Pubs
  BY OpFields
<1>2. CASE o.kind = "bootstrap"
  <2>1. /\ r.invites[o.token].uses \in Nat /\ s.invites[o.token].uses \in Nat /\ O[o.token] \in Nat
        /\ r.invites[o.token].uses <= s.invites[o.token].uses /\ O[o.token] < r.invites[o.token].uses
    BY <1>1, <1>2, Zenon DEF Stores, Invites, Keeps, Backs
  <2>2. O[o.token] < s.invites[o.token].uses
    BY <2>1
  <2>3. Lists(s, o.pub)
    BY <1>1, <1>2, Zenon DEF Keeps, Backs
  <2> QED BY <1>2, <2>2, <2>3, Zenon DEF Backs
<1>3. CASE o.kind # "bootstrap"
  BY <1>1, <1>3, Zenon DEF Keeps, Backs
<1> QED BY <1>2, <1>3, Zenon

(* An operation that answers nothing of this kind needs no backing.          *)
LEMMA BacksOther ==
  ASSUME NEW s, NEW O, NEW o, o.kind \notin {"bootstrap", "create", "revokeDevice"}
  PROVE  Backs(s, o, O)
BY Zenon DEF Backs

(* Only a Bootstrap is about the number of OKs.                              *)
LEMMA BacksUncounted ==
  ASSUME NEW s, NEW O, NEW P, NEW o, o.kind # "bootstrap", Backs(s, o, O)
  PROVE  Backs(s, o, P)
BY Zenon DEF Backs

(* The effect of the operations: each keeps what the store had.              *)
LEMMA KeepsBootstrap ==
  ASSUME NEW s \in Stores, NEW t \in Tokens, NEW k \in Pubs,
         NEW r, r.devices = Append(s.devices, [pub |-> k, revoked |-> FALSE]),
         r.invites = [s.invites EXCEPT ![t].uses = @ + 1]
  PROVE  /\ Keeps(s, r) /\ Lists(r, k) /\ s.invites[t].uses < r.invites[t].uses
         /\ \A W : Permits(s, W) => Permits(r, W)
<1> DEFINE d == [pub |-> k, revoked |-> FALSE]
<1>1. s.devices \in Seq(Devices) /\ s.invites \in [Tokens -> Invites]
  BY Zenon DEF Stores
<1>2. d \in Devices /\ d.pub = k
  BY Zenon DEF Devices
<1>3. /\ Len(r.devices) = Len(s.devices) + 1 /\ Len(s.devices) \in Nat
      /\ \A i \in 1..Len(s.devices) : r.devices[i] = s.devices[i]
      /\ r.devices[Len(s.devices) + 1].pub = k
  BY <1>1, <1>2, AppendProperties, LenProperties
<1>4. Lists(r, k) /\ \A j : Lists(s, j) => Lists(r, j)
  BY <1>3 DEF Lists
<1>5. \A j : Barred(s, j) => Barred(r, j)
  <2>1. r.devices = Append(s.devices, d)
    BY Zenon
  <2> HIDE DEF d
  <2> QED BY <1>2, <2>1, BarredAppend, Zenon
<1>6. /\ \A u \in Tokens : u # t => r.invites[u] = s.invites[u]
      /\ r.invites[t] = [s.invites[t] EXCEPT !.uses = @ + 1]
      /\ s.invites[t] \in Invites
  BY <1>1, Zenon
<1>7. /\ r.invites[t].uses = s.invites[t].uses + 1 /\ s.invites[t].uses \in Nat
      /\ r.invites[t].made = s.invites[t].made
      /\ r.invites[t].revoked = s.invites[t].revoked
  BY <1>6, ZenonT(40) DEF Invites
<1>8. s.invites[t].uses <= r.invites[t].uses /\ s.invites[t].uses < r.invites[t].uses
  BY <1>7
<1>9. \A u \in Tokens : s.invites[u].uses <= r.invites[u].uses
  <2>1. \A u \in Tokens : s.invites[u].uses <= s.invites[u].uses
    BY KeepsRefl, Zenon DEF Keeps
  <2> QED BY <1>6, <1>8, <2>1, Zenon
<1>10. \A u \in Tokens : /\ r.invites[u].made = s.invites[u].made
                         /\ r.invites[u].revoked = s.invites[u].revoked
  BY <1>6, <1>7, Zenon
<1>11. Keeps(s, r)
  BY <1>4, <1>5, <1>9, <1>10, Zenon DEF Keeps
<1>12. \A W : Permits(s, W) => Permits(r, W)
  BY <1>10, Zenon DEF Permits
<1> QED BY <1>4, <1>8, <1>11, <1>12, Zenon

LEMMA KeepsCreate ==
  ASSUME NEW s \in Stores, Counted(s), NEW t \in Tokens, NEW n, ~s.invites[t].made,
         NEW r, r.devices = s.devices,
         r.invites = [s.invites EXCEPT ![t] =
                        [made |-> TRUE, maxUses |-> n, uses |-> 0, revoked |-> FALSE]]
  PROVE  Keeps(s, r) /\ r.invites[t].made /\ \A W : Permits(s, W) => Permits(r, W)
<1> DEFINE v == [made |-> TRUE, maxUses |-> n, uses |-> 0, revoked |-> FALSE]
<1>1. s.invites \in [Tokens -> Invites]
  BY Zenon DEF Stores
<1>2. v.made /\ v.uses = 0 /\ ~v.revoked
  BY Zenon
<1>3. r.invites = [s.invites EXCEPT ![t] = v]
  BY Zenon
<1> HIDE DEF v
<1>4. r.invites[t] = v /\ \A u \in Tokens : u # t => r.invites[u] = s.invites[u]
  BY <1>1, <1>3, Zenon
<1>5. s.invites[t].uses = 0
  BY Zenon DEF Counted
<1>6. \A u \in Tokens : r.invites[u].uses = s.invites[u].uses
  BY <1>2, <1>4, <1>5, Zenon
<1>7. \A u \in Tokens : s.invites[u].uses <= s.invites[u].uses
  BY KeepsRefl, Zenon DEF Keeps
<1>8. \A j : (Lists(s, j) => Lists(r, j)) /\ (Barred(s, j) => Barred(r, j))
  BY Zenon DEF Lists, Barred
<1>9. \A u \in Tokens : s.invites[u].made => r.invites[u].made
  BY <1>2, <1>4, Zenon
<1>10. \A W : Permits(s, W) => Permits(r, W)
  BY <1>2, <1>4, Zenon DEF Permits
<1> QED BY <1>2, <1>4, <1>6, <1>7, <1>8, <1>9, <1>10, Zenon DEF Keeps

LEMMA KeepsRevokeInvite ==
  ASSUME NEW s \in Stores, NEW t \in Tokens,
         NEW r, r.devices = s.devices, r.invites = [s.invites EXCEPT ![t].revoked = TRUE]
  PROVE  Keeps(s, r) /\ \A W : Permits(s, W) => Permits(r, W \union {t})
<1>1. s.invites \in [Tokens -> Invites]
  BY Zenon DEF Stores
<1>2. /\ \A u \in Tokens : u # t => r.invites[u] = s.invites[u]
      /\ r.invites[t] = [s.invites[t] EXCEPT !.revoked = TRUE]
      /\ s.invites[t] \in Invites
  BY <1>1, Zenon
<1>3. r.invites[t].uses = s.invites[t].uses /\ r.invites[t].made = s.invites[t].made
  BY <1>2, Zenon DEF Invites
<1>4. \A u \in Tokens : r.invites[u].uses = s.invites[u].uses /\ r.invites[u].made = s.invites[u].made
  BY <1>2, <1>3, Zenon
<1>5. \A u \in Tokens : s.invites[u].uses <= s.invites[u].uses
  BY KeepsRefl, Zenon DEF Keeps
<1>6. \A j : (Lists(s, j) => Lists(r, j)) /\ (Barred(s, j) => Barred(r, j))
  BY Zenon DEF Lists, Barred
<1>7. \A W : Permits(s, W) => Permits(r, W \union {t})
  BY <1>2, Zenon DEF Permits
<1> QED BY <1>4, <1>5, <1>6, <1>7, Zenon DEF Keeps

LEMMA KeepsRevokeDevice ==
  ASSUME NEW s \in Stores, NEW i \in 1..Len(s.devices), NEW K \in SUBSET Pubs,
         IsFirst(s.devices, K, i)
  PROVE  LET r == [s EXCEPT !.devices[i].revoked = TRUE] IN
         /\ Keeps(s, r) /\ Barred(r, s.devices[i].pub)
         /\ \A W : Permits(s, W) => Permits(r, W)
<1> DEFINE r == [s EXCEPT !.devices[i].revoked = TRUE]
<1>1. /\ Len(r.devices) = Len(s.devices)
      /\ \A j \in 1..Len(s.devices) : r.devices[j].pub = s.devices[j].pub
  BY RevokeDeviceStore, Zenon
<1>2. r.invites = s.invites
  BY Zenon DEF Stores
<1>3. Barred(r, s.devices[i].pub) /\ \A k : Barred(s, k) => Barred(r, k)
  BY BarredMark, ZenonT(30)
<1> HIDE DEF r
<1>4. \A k : Lists(s, k) => Lists(r, k)
  BY <1>1, Zenon DEF Lists
<1>5. \A u \in Tokens : s.invites[u].uses <= s.invites[u].uses
  BY KeepsRefl, Zenon DEF Keeps
<1>6. Keeps(s, r) /\ \A W : Permits(s, W) => Permits(r, W)
  BY <1>2, <1>3, <1>4, <1>5, Zenon DEF Keeps, Permits
<1> QED BY <1>3, <1>6, Zenon DEF r

(* An empty registry holds what was answered before anything was.            *)
LEMMA EmptyHolds ==
  /\ Holds(EmptyStore, {}, {}, {}, [t \in Tokens |-> 0])
  /\ \A W : Permits(EmptyStore, W)
<1>1. \A t \in Tokens : EmptyStore.invites[t] = NoInvite
  BY ZenonT(40) DEF EmptyStore
<1>2. NoInvite.uses = 0 /\ ~NoInvite.revoked
  BY Zenon DEF NoInvite
<1>3. \A t \in Tokens : [u \in Tokens |-> 0][t] <= EmptyStore.invites[t].uses
  <2>1. 0 <= 0
    OBVIOUS
  <2> QED BY <1>1, <1>2, <2>1, Zenon
<1> QED BY <1>1, <1>2, <1>3, Zenon DEF Holds, Permits

(* More invites withdrawn: what was permitted still is.                      *)
LEMMA PermitsMore ==
  ASSUME NEW s, NEW W, NEW V, Permits(s, W), W \subseteq V
  PROVE  Permits(s, V)
BY Zenon DEF Permits

(* An operation that begins keeps AnswersKept when its store keeps what was   *)
(* in memory and backs its answer.                                            *)
LEMMA AnswersBegin ==
  ASSUME TypeOK, AnswersKept, NEW p \in Procs, NEW s \in Stores, NEW o, pc[p] = "idle",
         BeginSave(p, s, o), UNCHANGED <<path, behind, admitted, announced, barred, oks>>,
         withdrawn \subseteq withdrawn', Permits(s, withdrawn'), Keeps(mem[p], s),
         p \notin behind => Backs(s, o, oks)
  PROVE  AnswersKept'
<1>1. /\ mem'[p] = s /\ op'[p] = o /\ pc'[p] = "open"
      /\ \A q \in Procs : q # p => mem'[q] = mem[q] /\ op'[q] = op[q] /\ pc'[q] = pc[q]
  BY Zenon DEF BeginSave, TypeOK
<1>2. path.data \in Stores /\ mem[p] \in Stores
  BY Zenon DEF TypeOK, Files
<1>3. Permits(path.data, withdrawn') /\ Holds(path.data, admitted, announced, barred, oks)
  BY PermitsMore, Zenon DEF AnswersKept
<1>4. p \notin behind => Keeps(path.data, s)
  <2>1. p \notin behind => Keeps(path.data, mem[p])
    BY Zenon DEF AnswersKept
  <2> QED BY <1>2, <2>1, KeepsTrans, Zenon
<1>5. ASSUME NEW q \in Procs
      PROVE  /\ Permits(mem'[q], withdrawn')
             /\ pc'[q] # "down" /\ q \notin behind => Keeps(path.data, mem'[q])
             /\ pc'[q] \in {"open", "write", "rename"} /\ q \notin behind => Backs(mem'[q], op'[q], oks)
             /\ pc'[q] = "saved" => Backs(path.data, op'[q], oks)
  <2>1. CASE q = p
    BY <1>1, <1>4, <2>1, Zenon
  <2>2. CASE q # p
    <3>1. /\ Permits(mem[q], withdrawn)
          /\ pc[q] # "down" /\ q \notin behind => Keeps(path.data, mem[q])
          /\ pc[q] \in {"open", "write", "rename"} /\ q \notin behind => Backs(mem[q], op[q], oks)
          /\ pc[q] = "saved" => Backs(path.data, op[q], oks)
      BY Zenon DEF AnswersKept
    <3>2. Permits(mem[q], withdrawn')
      BY <3>1, PermitsMore, Zenon
    <3>3. mem'[q] = mem[q] /\ op'[q] = op[q] /\ pc'[q] = pc[q]
      BY <1>1, <2>2, Zenon
    <3> QED BY <3>1, <3>2, <3>3, Zenon
  <2> QED BY <2>1, <2>2, Zenon
<1> QED BY <1>3, <1>5, Zenon DEF AnswersKept

(* A step of save before the rename, or a failure, changes nothing that       *)
(* AnswersKept is about but the step itself.                                  *)
LEMMA AnswersSteps ==
  ASSUME TypeOK, AnswersKept,
         UNCHANGED <<mem, op, path, behind, admitted, announced, withdrawn, barred, oks>>,
         \A q \in Procs : \/ pc'[q] = pc[q]
                          \/ pc'[q] \in {"write", "rename"} /\ pc[q] \in {"open", "write"}
                          \/ pc'[q] = "failed" /\ pc[q] # "down"
  PROVE  AnswersKept'
<1>1. ASSUME NEW q \in Procs
      PROVE  /\ Permits(mem[q], withdrawn)
             /\ pc'[q] # "down" /\ q \notin behind => Keeps(path.data, mem[q])
             /\ pc'[q] \in {"open", "write", "rename"} /\ q \notin behind => Backs(mem[q], op[q], oks)
             /\ pc'[q] = "saved" => Backs(path.data, op[q], oks)
  <2>1. /\ Permits(mem[q], withdrawn)
        /\ pc[q] # "down" /\ q \notin behind => Keeps(path.data, mem[q])
        /\ pc[q] \in {"open", "write", "rename"} /\ q \notin behind => Backs(mem[q], op[q], oks)
        /\ pc[q] = "saved" => Backs(path.data, op[q], oks)
    BY Zenon DEF AnswersKept
  <2>2. /\ pc'[q] # "down" => pc[q] # "down"
        /\ pc'[q] \in {"open", "write", "rename"} => pc[q] \in {"open", "write", "rename"}
        /\ pc'[q] = "saved" => pc[q] = "saved"
    BY Zenon
  <2> QED BY <2>1, <2>2, Zenon
<1>2. Permits(path.data, withdrawn) /\ Holds(path.data, admitted, announced, barred, oks)
  BY Zenon DEF AnswersKept
<1> QED BY <1>1, <1>2, Zenon DEF AnswersKept

(* A process starts from what is on file.                                    *)
LEMMA AnswersLoad ==
  ASSUME TypeOK, AnswersKept, NEW p \in Procs, Load(p)
  PROVE  AnswersKept'
<1>1. UNCHANGED <<op, path, behind, admitted, announced, withdrawn, barred, oks>>
  BY Zenon DEF Load, fileVars, shareVars, histVars
<1>2. /\ mem'[p] = path.data /\ pc'[p] = "idle"
      /\ \A q \in Procs : q # p => mem'[q] = mem[q] /\ pc'[q] = pc[q]
  BY Zenon DEF Load, TypeOK
<1>3. path.data \in Stores
  BY Zenon DEF TypeOK, Files
<1>4. Permits(path.data, withdrawn) /\ Holds(path.data, admitted, announced, barred, oks)
  BY Zenon DEF AnswersKept
<1>5. ASSUME NEW q \in Procs
      PROVE  /\ Permits(mem'[q], withdrawn)
             /\ pc'[q] # "down" /\ q \notin behind => Keeps(path.data, mem'[q])
             /\ pc'[q] \in {"open", "write", "rename"} /\ q \notin behind => Backs(mem'[q], op[q], oks)
             /\ pc'[q] = "saved" => Backs(path.data, op[q], oks)
  <2>1. CASE q = p
    BY <1>2, <1>3, <1>4, <2>1, KeepsRefl, Zenon
  <2>2. CASE q # p
    <3>1. mem'[q] = mem[q] /\ pc'[q] = pc[q]
      BY <1>2, <2>2, Zenon
    <3> QED BY <3>1, Zenon DEF AnswersKept
  <2> QED BY <2>1, <2>2, Zenon
<1> QED BY <1>1, <1>4, <1>5, Zenon DEF AnswersKept

(* A process stops.                                                          *)
LEMMA AnswersStop ==
  ASSUME TypeOK, SaveInv, ~mixed, AnswersKept, NEW p \in Procs, Stop(p)
  PROVE  AnswersKept'
<1>1. UNCHANGED <<path, admitted, announced, withdrawn, barred, oks>>
  BY Zenon DEF Stop, PartialWrite, SaveInv, histVars
<1>2. /\ mem'[p] = EmptyStore /\ pc'[p] = "down"
      /\ \A q \in Procs : q # p => mem'[q] = mem[q] /\ pc'[q] = pc[q] /\ op'[q] = op[q]
      /\ \A q \in Procs : q # p /\ q \notin behind' => q \notin behind
  BY Zenon DEF Stop, TypeOK
<1>3. Permits(path.data, withdrawn) /\ Holds(path.data, admitted, announced, barred, oks)
  BY Zenon DEF AnswersKept
<1>4. ASSUME NEW q \in Procs
      PROVE  /\ Permits(mem'[q], withdrawn)
             /\ pc'[q] # "down" /\ q \notin behind' => Keeps(path.data, mem'[q])
             /\ pc'[q] \in {"open", "write", "rename"} /\ q \notin behind' => Backs(mem'[q], op'[q], oks)
             /\ pc'[q] = "saved" => Backs(path.data, op'[q], oks)
  <2>1. CASE q = p
    BY <1>2, <2>1, EmptyHolds, Zenon
  <2>2. CASE q # p
    <3>1. mem'[q] = mem[q] /\ pc'[q] = pc[q] /\ op'[q] = op[q] /\ (q \notin behind' => q \notin behind)
      BY <1>2, <2>2, Zenon
    <3> QED BY <3>1, Zenon DEF AnswersKept
  <2> QED BY <2>1, <2>2, Zenon
<1> QED BY <1>1, <1>3, <1>4, Zenon DEF AnswersKept

(* A process that is not behind puts its store in place of the file: what was *)
(* on file is kept, and every other process falls behind unless nothing       *)
(* changes.                                                                   *)
LEMMA AnswersRename ==
  ASSUME TypeOK, SaveInv, ~mixed, AnswersKept, NEW p \in Procs, SaveRename(p), p \notin behind
  PROVE  AnswersKept'
<1>1. /\ UNCHANGED <<mem, op, admitted, announced, withdrawn, barred, oks>>
      /\ pc[p] = "rename" /\ path' = tmp /\ tmp = Whole(mem[p])
  BY Zenon DEF SaveRename, SaveInv, histVars
<1>2. path'.data = mem[p]
  BY <1>1, Zenon DEF Whole
<1>3. /\ pc'[p] = "saved" /\ \A q \in Procs : q # p => pc'[q] = pc[q]
      /\ \A q \in Procs : q # p /\ pc[q] # "down" /\ q \notin behind' => path' = path /\ q \notin behind
      /\ \A q \in Procs : q \notin behind' => q \notin behind
  BY Zenon DEF SaveRename, TypeOK
<1>4. /\ path.data \in Stores /\ mem[p] \in Stores /\ \A q \in Procs : op[q] \in Ops
      /\ admitted \in SUBSET Pubs /\ announced \in SUBSET Tokens /\ barred \in SUBSET Pubs
      /\ oks \in [Tokens -> Nat]
  BY Zenon DEF TypeOK, Files
<1>5. Keeps(path.data, mem[p]) /\ Permits(mem[p], withdrawn) /\ Backs(mem[p], op[p], oks)
  BY <1>1, Zenon DEF AnswersKept
<1>6. Holds(mem[p], admitted, announced, barred, oks)
  <2>1. Holds(path.data, admitted, announced, barred, oks)
    BY Zenon DEF AnswersKept
  <2> QED BY <1>4, <1>5, <2>1, KeepsHolds, Zenon
<1>7. ASSUME NEW q \in Procs
      PROVE  /\ Permits(mem[q], withdrawn)
             /\ pc'[q] # "down" /\ q \notin behind' => Keeps(path'.data, mem[q])
             /\ pc'[q] \in {"open", "write", "rename"} /\ q \notin behind' => Backs(mem[q], op[q], oks)
             /\ pc'[q] = "saved" => Backs(path'.data, op[q], oks)
  <2>0. /\ Permits(mem[q], withdrawn)
        /\ pc[q] # "down" /\ q \notin behind => Keeps(path.data, mem[q])
        /\ pc[q] \in {"open", "write", "rename"} /\ q \notin behind => Backs(mem[q], op[q], oks)
        /\ pc[q] = "saved" => Backs(path.data, op[q], oks)
    BY Zenon DEF AnswersKept
  <2>1. CASE q = p
    BY <1>2, <1>3, <1>4, <1>5, <2>1, KeepsRefl, Zenon
  <2>2. CASE q # p
    <3>1. pc'[q] = pc[q] /\ (q \notin behind' => q \notin behind)
      BY <1>3, <2>2, Zenon
    <3>2. pc'[q] # "down" /\ q \notin behind' => Keeps(path'.data, mem[q])
      BY <1>3, <2>0, <2>2, <3>1, Zenon
    <3>3. pc'[q] = "saved" => Backs(path'.data, op[q], oks)
      BY <1>2, <1>4, <1>5, <2>0, <3>1, KeepsBacks, Zenon
    <3> QED BY <2>0, <3>1, <3>2, <3>3, Zenon
  <2> QED BY <2>1, <2>2, Zenon
<1> QED BY <1>1, <1>2, <1>5, <1>6, <1>7, Zenon DEF AnswersKept

(* An operation returns: what it answers after a save is on file.            *)
LEMMA AnswersReturn ==
  ASSUME TypeOK, SaveInv, AnswersKept, NEW p \in Procs, Return(p)
  PROVE  AnswersKept'
<1> DEFINE o == op[p]
<1>1. UNCHANGED <<path, withdrawn>> /\ pc[p] \in {"saved", "failed"}
  BY Zenon DEF Return, fileVars
<1>2. /\ pc'[p] # "down" => mem'[p] = mem[p] /\ (p \notin behind' => p \notin behind)
      /\ mem'[p] \in {mem[p], EmptyStore}
      /\ \A q \in Procs : q # p => mem'[q] = mem[q] /\ pc'[q] = pc[q] /\ op'[q] = op[q]
      /\ \A q \in Procs : q # p /\ q \notin behind' => q \notin behind
  BY Zenon DEF Return, TypeOK
<1>3. o \in Ops /\ path.data \in Stores /\ oks \in [Tokens -> Nat]
  BY Zenon DEF TypeOK, Files
<1>4. /\ Holds(path.data, admitted, announced, barred, oks) /\ Permits(path.data, withdrawn)
      /\ pc[p] = "saved" => Backs(path.data, o, oks)
  BY Zenon DEF AnswersKept
<1>5. /\ \A k \in admitted' : k \in admitted \/ (pc[p] = "saved" /\ o.kind = "bootstrap" /\ k = o.pub)
      /\ \A t \in announced' : t \in announced \/ (pc[p] = "saved" /\ o.kind = "create" /\ t = o.token)
      /\ \A k \in barred' : k \in barred \/ (pc[p] = "saved" /\ o.kind = "revokeDevice" /\ k = o.pub)
  BY Zenon DEF Return
<1>6. \A t \in Tokens : oks'[t] <= path.data.invites[t].uses
  <2>1. \A t \in Tokens : oks[t] <= path.data.invites[t].uses
    BY <1>4, Zenon DEF Holds
  <2>2. CASE o.kind = "bootstrap" /\ pc[p] = "saved"
    <3>1. oks' = [oks EXCEPT ![o.token] = @ + 1] /\ o.token \in Tokens
      BY <1>3, <2>2, OpFields, Zenon DEF Return
    <3>2. oks[o.token] < path.data.invites[o.token].uses
      BY <1>4, <2>2, Zenon DEF Backs
    <3>3. oks[o.token] \in Nat /\ path.data.invites[o.token].uses \in Nat
      BY <1>3, <3>1, Zenon DEF Stores, Invites
    <3>4. oks[o.token] + 1 <= path.data.invites[o.token].uses
      BY <3>2, <3>3
    <3> QED BY <1>3, <2>1, <3>1, <3>4, Zenon
  <2>3. CASE ~(o.kind = "bootstrap" /\ pc[p] = "saved")
    BY <2>1, <2>3, Zenon DEF Return
  <2> QED BY <2>2, <2>3, Zenon
<1>7. Holds(path.data, admitted', announced', barred', oks')
  <2>1. \A k \in admitted' : Lists(path.data, k)
    BY <1>4, <1>5, Zenon DEF Holds, Backs
  <2>2. \A t \in announced' : path.data.invites[t].made
    BY <1>4, <1>5, Zenon DEF Holds, Backs
  <2>3. \A k \in barred' : Barred(path.data, k)
    BY <1>4, <1>5, Zenon DEF Holds, Backs
  <2> QED BY <1>6, <2>1, <2>2, <2>3, Zenon DEF Holds
<1>8. ASSUME NEW q \in Procs, NEW s, q # p, Backs(s, op[q], oks) PROVE Backs(s, op[q], oks')
  <2>1. CASE op[q].kind = "bootstrap"
    <3>1. o.kind # "bootstrap"
      BY <1>8, <2>1, Zenon DEF SaveInv
    <3>2. oks' = oks
      BY <3>1, Zenon DEF Return
    <3> QED BY <1>8, <3>2, Zenon
  <2>2. CASE op[q].kind # "bootstrap"
    BY <1>8, <2>2, BacksUncounted, Zenon
  <2> QED BY <2>1, <2>2, Zenon
<1>9. ASSUME NEW q \in Procs
      PROVE  /\ Permits(mem'[q], withdrawn)
             /\ pc'[q] # "down" /\ q \notin behind' => Keeps(path.data, mem'[q])
             /\ pc'[q] \in {"open", "write", "rename"} /\ q \notin behind' => Backs(mem'[q], op'[q], oks')
             /\ pc'[q] = "saved" => Backs(path.data, op'[q], oks')
  <2>0. /\ Permits(mem[q], withdrawn)
        /\ pc[q] # "down" /\ q \notin behind => Keeps(path.data, mem[q])
        /\ pc[q] \in {"open", "write", "rename"} /\ q \notin behind => Backs(mem[q], op[q], oks)
        /\ pc[q] = "saved" => Backs(path.data, op[q], oks)
    BY Zenon DEF AnswersKept
  <2>1. CASE q = p
    <3>1. Permits(mem'[p], withdrawn)
      BY <1>2, <2>0, <2>1, EmptyHolds, Zenon
    <3>2. pc'[p] # "down" /\ p \notin behind' => Keeps(path.data, mem'[p])
      BY <1>1, <1>2, <2>0, <2>1, Zenon
    <3>3. pc'[p] \notin {"open", "write", "rename", "saved"}
      BY Zenon DEF Return, TypeOK
    <3> QED BY <2>1, <3>1, <3>2, <3>3, Zenon
  <2>2. CASE q # p
    <3>1. mem'[q] = mem[q] /\ pc'[q] = pc[q] /\ op'[q] = op[q] /\ (q \notin behind' => q \notin behind)
      BY <1>2, <2>2, Zenon
    <3> QED BY <1>8, <2>0, <2>2, <3>1, Zenon
  <2> QED BY <2>1, <2>2, Zenon
<1> QED BY <1>1, <1>4, <1>7, <1>9, Zenon DEF AnswersKept

(* Every step keeps AnswersKept until a process saves over another's update.  *)
LEMMA AnswersStep ==
  ASSUME TypeOK, SaveInv, UsesInv, AnswersKept, [Next]_vars, ~lost', ~mixed, ~mixed'
  PROVE  AnswersKept'
<1> DEFINE Same == UNCHANGED <<path, behind, admitted, announced, barred, oks>>
<1>0. /\ \A p \in Procs : mem[p] \in Stores /\ Counted(mem[p]) /\ Permits(mem[p], withdrawn)
      /\ path.data \in Stores /\ oks \in [Tokens -> Nat]
      /\ \A t \in Tokens : oks[t] <= path.data.invites[t].uses
      /\ \A p \in Procs : pc[p] # "down" /\ p \notin behind => Keeps(path.data, mem[p])
  BY Zenon DEF TypeOK, Files, UsesInv, AnswersKept, Holds
<1>1. ASSUME NEW p \in Procs, NEW k \in Pubs, AuthorizeDevice(p, k) PROVE AnswersKept'
  <2>1. /\ BeginSave(p, mem[p], Op("auth", None, k)) /\ pc[p] = "idle" /\ Same
        /\ withdrawn' = withdrawn
    BY <1>1, ZenonT(30) DEF AuthorizeDevice, fileVars, shareVars, histVars
  <2>2. Backs(mem[p], Op("auth", None, k), oks)
    BY BacksOther, Zenon DEF Op
  <2> QED BY <1>0, <2>1, <2>2, KeepsRefl, AnswersBegin, Zenon
<1>2. ASSUME NEW p \in Procs, NEW t \in Tokens, NEW k \in Pubs, Bootstrap(p, t, k)
      PROVE  AnswersKept'
  <2> DEFINE s == [devices |-> Append(mem[p].devices, [pub |-> k, revoked |-> FALSE]),
                   invites |-> [mem[p].invites EXCEPT ![t].uses = @ + 1]]
  <2>1. /\ BeginSave(p, s, Op("bootstrap", t, k)) /\ pc[p] = "idle" /\ Same
        /\ withdrawn' = withdrawn
    BY <1>2, ZenonT(30) DEF Bootstrap, fileVars, shareVars, histVars
  <2>2. /\ s.devices = Append(mem[p].devices, [pub |-> k, revoked |-> FALSE])
        /\ s.invites = [mem[p].invites EXCEPT ![t].uses = @ + 1]
        /\ s \in Stores
    BY <1>0, BootstrapStoreType, Zenon
  <2> HIDE DEF s
  <2>3. /\ Keeps(mem[p], s) /\ Lists(s, k) /\ mem[p].invites[t].uses < s.invites[t].uses
        /\ Permits(s, withdrawn)
    BY <1>0, <2>2, KeepsBootstrap, Zenon
  <2>4. ASSUME p \notin behind PROVE Backs(s, Op("bootstrap", t, k), oks)
    <3>1. path.data.invites[t].uses <= mem[p].invites[t].uses
      BY <1>0, <2>1, <2>4, Zenon DEF Keeps
    <3>2. /\ oks[t] \in Nat /\ path.data.invites[t].uses \in Nat
          /\ mem[p].invites[t].uses \in Nat /\ s.invites[t].uses \in Nat
          /\ oks[t] <= path.data.invites[t].uses
      BY <1>0, <2>2, Zenon DEF Stores, Invites
    <3>3. oks[t] < s.invites[t].uses
      BY <2>3, <3>1, <3>2
    <3> QED BY <2>3, <3>3, ZenonT(30) DEF Backs, Op
  <2> QED BY <2>1, <2>2, <2>3, <2>4, AnswersBegin, Zenon
<1>3. ASSUME NEW p \in Procs, NEW t \in Tokens, NEW n \in MaxUsesArgs, CreateInvite(p, t, n)
      PROVE  AnswersKept'
  <2> DEFINE s == [mem[p] EXCEPT !.invites[t] =
                     [made |-> TRUE, maxUses |-> n, uses |-> 0, revoked |-> FALSE]]
  <2>1. /\ BeginSave(p, s, Op("create", t, None)) /\ pc[p] = "idle" /\ Same
        /\ withdrawn' = withdrawn /\ ~mem[p].invites[t].made
    BY <1>3, ZenonT(30) DEF CreateInvite, fileVars, shareVars, histVars
  <2>2. /\ s.devices = mem[p].devices
        /\ s.invites = [mem[p].invites EXCEPT ![t] =
                          [made |-> TRUE, maxUses |-> n, uses |-> 0, revoked |-> FALSE]]
    BY <1>0, Zenon DEF Stores
  <2>3. s \in Stores
    BY <1>0, CreateStoreType, Zenon
  <2> HIDE DEF s
  <2>4. Keeps(mem[p], s) /\ s.invites[t].made /\ Permits(s, withdrawn)
    BY <1>0, <2>1, <2>2, KeepsCreate, Zenon
  <2>5. Backs(s, Op("create", t, None), oks)
    BY <2>4, Zenon DEF Backs, Op
  <2> QED BY <2>1, <2>3, <2>4, <2>5, AnswersBegin, Zenon
<1>4. ASSUME NEW p \in Procs, NEW t \in Tokens, RevokeInvite(p, t) PROVE AnswersKept'
  <2> DEFINE s == [mem[p] EXCEPT !.invites[t].revoked = TRUE]
  <2>1. /\ BeginSave(p, s, Op("revokeInvite", t, None)) /\ pc[p] = "idle" /\ Same
        /\ withdrawn' = withdrawn \union {t}
    BY <1>4, ZenonT(30) DEF RevokeInvite, fileVars, shareVars
  <2>2. /\ s.devices = mem[p].devices
        /\ s.invites = [mem[p].invites EXCEPT ![t].revoked = TRUE]
    BY <1>0, Zenon DEF Stores
  <2>3. s \in Stores
    BY <1>0, RevokeInviteStoreType, ZenonT(30)
  <2> HIDE DEF s
  <2>4. Keeps(mem[p], s) /\ Permits(s, withdrawn')
    BY <1>0, <2>1, <2>2, KeepsRevokeInvite, Zenon
  <2>5. Backs(s, Op("revokeInvite", t, None), oks) /\ withdrawn \subseteq withdrawn'
    BY <2>1, BacksOther, Zenon DEF Op
  <2> QED BY <2>1, <2>3, <2>4, <2>5, AnswersBegin, Zenon
<1>5. ASSUME NEW p \in Procs, NEW id \in Ids, RevokeDevice(p, id) PROVE AnswersKept'
  <2> DEFINE K == {k \in Pubs : DeviceID[k] = id}
  <2>1. PICK i \in 1..Len(mem[p].devices) :
          /\ IsFirst(mem[p].devices, K, i)
          /\ BeginSave(p, [mem[p] EXCEPT !.devices[i].revoked = TRUE],
                       Op("revokeDevice", None, mem[p].devices[i].pub))
    BY <1>5, ZenonT(30) DEF RevokeDevice
  <2> DEFINE s == [mem[p] EXCEPT !.devices[i].revoked = TRUE]
             k == mem[p].devices[i].pub
  <2>2. Same /\ withdrawn' = withdrawn /\ pc[p] = "idle"
    BY <1>5, Zenon DEF RevokeDevice, fileVars, shareVars, histVars
  <2>3. s \in Stores
    BY <1>0, RevokeDeviceStore, ZenonT(30)
  <2>4. Keeps(mem[p], s) /\ Barred(s, k) /\ \A W : Permits(mem[p], W) => Permits(s, W)
    <3>1. K \in SUBSET Pubs /\ IsFirst(mem[p].devices, K, i) /\ mem[p] \in Stores
      BY <1>0, <2>1, Zenon
    <3> HIDE DEF K
    <3> QED BY <3>1, KeepsRevokeDevice, ZenonT(30)
  <2>5. BeginSave(p, s, Op("revokeDevice", None, k))
    BY <2>1, Zenon
  <2> HIDE DEF s, k
  <2>6. Backs(s, Op("revokeDevice", None, k), oks)
    BY <2>4, Zenon DEF Backs, Op
  <2>7. Permits(s, withdrawn)
    BY <1>0, <2>4, Zenon
  <2> QED BY <2>2, <2>3, <2>4, <2>5, <2>6, <2>7, AnswersBegin, Zenon
<1>6. ASSUME NEW p \in Procs, SaveOpen(p) \/ SaveWrite(p) \/ SaveFails(p) PROVE AnswersKept'
  <2>1. UNCHANGED <<mem, op, path, behind, admitted, announced, withdrawn, barred, oks>>
    BY <1>6, ZenonT(30) DEF SaveOpen, SaveWrite, SaveFails, PartialWrite, SaveInv, shareVars, histVars
  <2>2. pc' = [pc EXCEPT ![p] = pc'[p]]
    BY <1>6, Zenon DEF SaveOpen, SaveWrite, SaveFails, TypeOK
  <2>3. \/ pc'[p] \in {"write", "rename"} /\ pc[p] \in {"open", "write"}
        \/ pc'[p] = "failed" /\ pc[p] # "down"
    BY <1>6, ZenonT(30) DEF SaveOpen, SaveWrite, SaveFails, TypeOK
  <2>4. \A q \in Procs : q # p => pc'[q] = pc[q]
    BY <2>2, Zenon DEF TypeOK
  <2> QED BY <2>1, <2>3, <2>4, AnswersSteps, Zenon
<1>7. ASSUME NEW p \in Procs, SaveRename(p) PROVE AnswersKept'
  <2>1. p \notin behind
    BY <1>7, Zenon DEF SaveRename
  <2> QED BY <1>7, <2>1, AnswersRename, Zenon
<1>8. ASSUME \/ \E p \in Procs, t \in Tokens : BootstrapRefused(p, t)
             \/ \E t \in Tokens : Expire(t)
             \/ UNCHANGED vars
      PROVE  AnswersKept'
  <2>1. UNCHANGED <<mem, pc, op, path, behind, admitted, announced, withdrawn, barred, oks>>
    BY <1>8, ZenonT(30)
    DEF BootstrapRefused, Expire, vars, procVars, fileVars, shareVars, histVars
  <2> QED BY <2>1, AnswersSteps, Zenon
<1> QED
  BY <1>1, <1>2, <1>3, <1>4, <1>5, <1>6, <1>7, <1>8, AnswersLoad, AnswersStop, AnswersReturn,
     ZenonT(40) DEF Next

(* What the histories never forget, and the one action that refuses a token.  *)
LEMMA HistoriesStep ==
  ASSUME TypeOK, [Next]_vars
  PROVE  /\ (lost => lost') /\ (mixed => mixed') /\ withdrawn \subseteq withdrawn'
         /\ refused' = refused \/ \E p \in Procs, t \in Tokens : BootstrapRefused(p, t)
<1> DEFINE Shares == lost' = lost /\ mixed' = mixed
           Grows  == withdrawn \subseteq withdrawn' /\ refused' = refused
           Refuses == \E p \in Procs, t \in Tokens : BootstrapRefused(p, t)
           Opens == \E p \in Procs : SaveOpen(p) \/ SaveRename(p)
<1>1. ASSUME NEW p \in Procs, Load(p) \/ Stop(p) \/ Return(p) PROVE Shares /\ Grows
  <2>1. CASE Load(p)
    BY <2>1, Zenon DEF Load, shareVars, histVars
  <2>2. CASE Stop(p)
    BY <2>2, Zenon DEF Stop, histVars
  <2>3. CASE Return(p)
    BY <2>3, Zenon DEF Return
  <2> QED BY <1>1, <2>1, <2>2, <2>3, Zenon
<1>2. ASSUME NEW p \in Procs, SaveWrite(p) \/ SaveFails(p) PROVE Shares /\ Grows
  BY <1>2, Zenon DEF SaveWrite, SaveFails, shareVars, histVars
<1>3. ASSUME NEW p \in Procs, NEW k \in Pubs, AuthorizeDevice(p, k) PROVE Shares /\ Grows
  BY <1>3, Zenon DEF AuthorizeDevice, shareVars, histVars
<1>4. ASSUME NEW p \in Procs, NEW t \in Tokens, NEW k \in Pubs, Bootstrap(p, t, k)
      PROVE  Shares /\ Grows
  BY <1>4, Zenon DEF Bootstrap, shareVars, histVars
<1>5. ASSUME NEW p \in Procs, NEW t \in Tokens, NEW n \in MaxUsesArgs, CreateInvite(p, t, n)
      PROVE  Shares /\ Grows
  BY <1>5, Zenon DEF CreateInvite, shareVars, histVars
<1>6. ASSUME NEW p \in Procs, NEW t \in Tokens, RevokeInvite(p, t) PROVE Shares /\ Grows
  BY <1>6, Zenon DEF RevokeInvite, shareVars
<1>7. ASSUME NEW p \in Procs, NEW id \in Ids, RevokeDevice(p, id) PROVE Shares /\ Grows
  BY <1>7, Zenon DEF RevokeDevice, shareVars, histVars
<1>8. ASSUME (\E t \in Tokens : Expire(t)) \/ UNCHANGED vars PROVE Shares /\ Grows
  BY <1>8, Zenon DEF Expire, vars, shareVars, histVars
<1>9. ASSUME Refuses PROVE Shares /\ withdrawn \subseteq withdrawn'
  BY <1>9, Zenon DEF BootstrapRefused, shareVars
<1>10. ASSUME Opens PROVE (lost => lost') /\ (mixed => mixed') /\ Grows
  <2>1. PICK p \in Procs : SaveOpen(p) \/ SaveRename(p)
    BY <1>10, Zenon
  <2>2. Grows
    BY <2>1, Zenon DEF SaveOpen, SaveRename, histVars
  <2>3. \/ lost' = lost /\ mixed' = (mixed \/ Saving(p))
        \/ mixed' = mixed /\ lost' = (lost \/ p \in behind)
    BY <2>1, Zenon DEF SaveOpen, SaveRename
  <2>4. lost \in BOOLEAN /\ mixed \in BOOLEAN
    BY Zenon DEF TypeOK
  <2> HIDE DEF Grows
  <2> QED BY <2>2, <2>3, <2>4
<1>11. (Shares /\ Grows) \/ Refuses \/ Opens
  <2> HIDE DEF Shares, Grows
  <2> QED BY <1>1, <1>2, <1>3, <1>4, <1>5, <1>6, <1>7, <1>8, ZenonT(40) DEF Next
<1>12. ASSUME Shares PROVE (lost => lost') /\ (mixed => mixed')
  BY <1>12, Zenon
<1> HIDE DEF Shares
<1> QED BY <1>9, <1>10, <1>11, <1>12, Zenon

(* Every step keeps CleanInv.                                                *)
LEMMA CleanInvStep == TypeOK /\ SaveInv /\ UsesInv /\ CleanInv /\ [Next]_vars => CleanInv'
<1> SUFFICES ASSUME TypeOK, SaveInv, UsesInv, CleanInv, [Next]_vars PROVE CleanInv'
  OBVIOUS
<1>1. (~lost' => ~lost) /\ (~mixed' => ~mixed)
  BY HistoriesStep, Zenon
<1>2. ~lost' /\ ~mixed' => AnswersKept'
  BY <1>1, AnswersStep, Zenon DEF CleanInv
<1>3. InviteUsable'
  <2>1. ASSUME NEW p \in Procs, NEW t \in Tokens, BootstrapRefused(p, t) PROVE InviteUsable'
    <3>1. /\ p = "serve" /\ pc[p] = "idle" /\ t \in announced /\ withdrawn' = withdrawn
          /\ ~mem[p].invites[t].made \/ mem[p].invites[t].revoked
          /\ refused' = IF Stale THEN refused ELSE refused \union {t}
      BY <2>1, Zenon DEF BootstrapRefused
    <3>2. CASE Stale
      BY <3>1, <3>2, Zenon DEF CleanInv, InviteUsable
    <3>3. CASE ~Stale
      <4>1. AnswersKept /\ p \notin behind /\ pc[p] # "down"
        BY <3>1, <3>3, Zenon DEF Stale, CleanInv
      <4>2. path.data.invites[t].made /\ Keeps(path.data, mem[p]) /\ Permits(mem[p], withdrawn)
        BY <3>1, <4>1, Zenon DEF AnswersKept, Holds
      <4>3. t \in withdrawn
        BY <3>1, <4>2, Zenon DEF Keeps, Permits
      <4> QED BY <3>1, <3>3, <4>3, Zenon DEF CleanInv, InviteUsable
    <3> QED BY <3>2, <3>3, Zenon
  <2>2. CASE ~\E p \in Procs, t \in Tokens : BootstrapRefused(p, t)
    <3>1. refused' = refused /\ withdrawn \subseteq withdrawn'
      BY <2>2, HistoriesStep, Zenon
    <3> QED BY <3>1, Zenon DEF CleanInv, InviteUsable
  <2> QED BY <2>1, <2>2, Zenon
<1> QED BY <1>2, <1>3, Zenon DEF CleanInv

(* CleanInv holds when nothing has run yet.                                  *)
LEMMA CleanInvInit == Init => CleanInv
<1> SUFFICES ASSUME Init PROVE CleanInv
  OBVIOUS
<1>1. /\ path = Absent /\ oks = [t \in Tokens |-> 0] /\ admitted = {} /\ announced = {}
      /\ barred = {} /\ refused = {}
      /\ \A p \in Procs : pc[p] = "down" /\ mem[p] = EmptyStore
  BY Zenon DEF Init
<1>2. path.data = EmptyStore
  BY <1>1, Zenon DEF Absent
<1> QED BY <1>1, <1>2, EmptyHolds, Zenon DEF CleanInv, AnswersKept, InviteUsable

(* The inductive invariant of every behaviour.                               *)
LEMMA CleanInvariant == Spec => [](TypeOK /\ SaveInv /\ UsesInv /\ CleanInv)
BY TypeInit, TypeStep, SaveInvInit, SaveInvStep, UsesInvInit, UsesInvStep, CleanInvInit,
   CleanInvStep, PTL DEF Spec

(* An announced invite is refused as invalid, by a server that has not fallen *)
(* behind the file, only after somebody asked for its revocation, over any    *)
(* crashes and restarts (CreateInvite, Bootstrap).                            *)
THEOREM InvitesUsable == Spec => []InviteUsable
<1>1. CleanInv => InviteUsable
  BY Zenon DEF CleanInv
<1> QED BY <1>1, CleanInvariant, PTL

(* A device that was answered OK after its save stays in the registry file,   *)
(* whatever stops or fails later, until a process saves over what another has *)
(* saved (Bootstrap, save).                                                   *)
THEOREM AdmissionsDurable == Spec => []AckedDurable
<1>1. SaveInv /\ CleanInv => AckedDurable
  <2> SUFFICES ASSUME SaveInv, CleanInv, NEW k \in admitted, ~lost, ~mixed PROVE OnFile(k)
    BY Zenon DEF AckedDurable
  <2>1. Lists(path.data, k) /\ (path.st = "whole" \/ path = Absent)
    BY Zenon DEF CleanInv, AnswersKept, Holds, SaveInv
  <2>2. path # Absent
    BY <2>1, SMTT(40) DEF Absent, EmptyStore, Lists
  <2> QED BY <2>1, <2>2, Zenon DEF OnFile, Lists
<1> QED BY <1>1, CleanInvariant, PTL

(* No copy of the registry has an invite used more often than its positive    *)
(* --max-uses, however processes overlap; and every OK after a save is backed *)
(* by a use on file, until a process saves over what another has saved        *)
(* (Bootstrap).                                                               *)
THEOREM AdmissionsWithinLimit == Spec => []AdmissionsBounded
<1>1. TypeOK /\ UsesInv /\ CleanInv => AdmissionsBounded
  <2> SUFFICES ASSUME TypeOK, UsesInv, CleanInv, NEW t \in Tokens
               PROVE  /\ \A s \in LiveStores :
                           s.invites[t].maxUses > 0 => s.invites[t].uses <= s.invites[t].maxUses
                      /\ oks[t] <= path.data.invites[t].uses \/ lost \/ mixed
    BY Zenon DEF AdmissionsBounded
  <2>1. ASSUME NEW s \in LiveStores, s.invites[t].maxUses > 0
        PROVE  s.invites[t].uses <= s.invites[t].maxUses
    <3>1. s \in Stores /\ Counted(s)
      BY Zenon DEF LiveStores, UsesInv, TypeOK, Files
    <3>2. s.invites[t].maxUses \in Nat /\ s.invites[t].uses <= Limit(s.invites[t].maxUses)
      BY <3>1, RegistryAssumption, Zenon DEF Stores, Invites, Counted
    <3>3. Limit(s.invites[t].maxUses) = s.invites[t].maxUses
      BY <2>1, <3>2 DEF Limit
    <3> QED BY <3>2, <3>3, Zenon
  <2>2. ~lost /\ ~mixed => oks[t] <= path.data.invites[t].uses
    BY Zenon DEF CleanInv, AnswersKept, Holds
  <2> QED BY <2>1, <2>2, Zenon
<1> QED BY <1>1, CleanInvariant, PTL

(* An AuthorizeDevice that answers OK, by a server that is not behind, is for *)
(* a key that is not barred.                                                  *)
LEMMA GrantStep ==
  TypeOK /\ SaveInv /\ CleanInv /\ [Next]_vars
    => [\A k \in Pubs : Granted(k) => k \notin barred \/ Stale]_vars
<1> SUFFICES ASSUME TypeOK, SaveInv, CleanInv, Next, NEW k \in Pubs, Granted(k), k \in barred, ~Stale
             PROVE  FALSE
  OBVIOUS
<1> DEFINE sv == "serve"
<1>1. sv \in Procs /\ pc[sv] = "idle" /\ op'[sv] = Op("auth", None, k) /\ op[sv] = NoOp
  BY Zenon DEF Granted, Procs, SaveInv
<1>2. op'[sv].kind = "auth" /\ op'[sv].pub = k /\ op[sv].kind = "none"
  BY <1>1 DEF Op, NoOp
<1>3. ASSUME NEW p \in Procs, NEW o, op' = [op EXCEPT ![p] = o], o.kind # "auth" PROVE FALSE
  BY <1>1, <1>2, <1>3, Zenon DEF TypeOK
<1>4. ASSUME NEW p \in Procs, op' = [op EXCEPT ![p] = NoOp] PROVE FALSE
  BY <1>1, <1>2, <1>4, Zenon DEF TypeOK, NoOp, Op
<1>5. op' # op
  BY <1>1, <1>2, Zenon
<1>6. ASSUME NEW p \in Procs, NEW j \in Pubs, AuthorizeDevice(p, j) PROVE FALSE
  <2>1. PICK i \in 1..Len(mem[p].devices) :
          IsFirst(mem[p].devices, {j}, i) /\ ~mem[p].devices[i].revoked
    BY ZenonT(30), <1>6 DEF AuthorizeDevice
  <2>2. p = sv /\ op'[p] = Op("auth", None, j)
    BY ZenonT(30), <1>6 DEF AuthorizeDevice, BeginSave, TypeOK
  <2>3. j = k
    <3>1. Op("auth", None, j).pub = j
      BY Zenon DEF Op
    <3>2. QED BY Zenon, <1>2, <2>2, <3>1
  <2>4. mem[p] \in Stores /\ Barred(mem[p], k)
    <3>1. AnswersKept /\ p \notin behind /\ pc[p] # "down"
      BY <1>1, <2>2, Zenon DEF Stale, CleanInv
    <3>2. Barred(path.data, k) /\ Keeps(path.data, mem[p])
      BY <3>1, Zenon DEF AnswersKept, Holds
    <3> QED BY <3>2, Zenon DEF Keeps, TypeOK
  <2> QED BY ZenonT(30), <2>1, <2>3, <2>4, BarredRefused
<1>7. ASSUME NEW p \in Procs, NEW t \in Tokens, NEW j \in Pubs, Bootstrap(p, t, j) PROVE FALSE
  <2>1. op' = [op EXCEPT ![p] = Op("bootstrap", t, j)]
    BY <1>7, Zenon DEF Bootstrap, BeginSave
  <2>2. Op("bootstrap", t, j).kind # "auth"
    BY Zenon DEF Op
  <2> QED BY ZenonT(30), <2>1, <2>2, <1>3
<1>8. ASSUME NEW p \in Procs, NEW t \in Tokens, NEW n \in MaxUsesArgs, CreateInvite(p, t, n) PROVE FALSE
  <2>1. op' = [op EXCEPT ![p] = Op("create", t, None)]
    BY <1>8, Zenon DEF CreateInvite, BeginSave
  <2>2. Op("create", t, None).kind # "auth"
    BY Zenon DEF Op
  <2> QED BY ZenonT(30), <2>1, <2>2, <1>3
<1>9. ASSUME NEW p \in Procs, NEW t \in Tokens, RevokeInvite(p, t) PROVE FALSE
  <2>1. op' = [op EXCEPT ![p] = Op("revokeInvite", t, None)]
    BY <1>9, Zenon DEF RevokeInvite, BeginSave
  <2>2. Op("revokeInvite", t, None).kind # "auth"
    BY Zenon DEF Op
  <2> QED BY ZenonT(30), <2>1, <2>2, <1>3
<1>10. ASSUME NEW p \in Procs, NEW id \in Ids, RevokeDevice(p, id) PROVE FALSE
  <2>1. PICK i \in 1..Len(mem[p].devices) :
          op' = [op EXCEPT ![p] = Op("revokeDevice", None, mem[p].devices[i].pub)]
    BY ZenonT(30), <1>10 DEF RevokeDevice, BeginSave
  <2>2. Op("revokeDevice", None, mem[p].devices[i].pub).kind # "auth"
    BY Zenon DEF Op
  <2> QED BY ZenonT(30), <2>1, <2>2, <1>3
<1>11. ASSUME NEW p \in Procs, Stop(p) \/ Return(p) PROVE FALSE
  BY <1>4, <1>11, Zenon DEF Stop, Return
<1>12. ASSUME NEW p \in Procs,
             \/ Load(p) \/ SaveOpen(p) \/ SaveWrite(p) \/ SaveRename(p) \/ SaveFails(p)
             \/ \E t \in Tokens : BootstrapRefused(p, t)
      PROVE  FALSE
  BY ZenonT(30), <1>5, <1>12
  DEF Load, SaveOpen, SaveWrite, SaveRename, SaveFails, BootstrapRefused, procVars
<1>13. ASSUME NEW t \in Tokens, Expire(t) PROVE FALSE
  BY <1>5, <1>13, Zenon DEF Expire, procVars
<1> QED BY <1>6, <1>7, <1>8, <1>9, <1>10, <1>11, <1>12, <1>13, Zenon DEF Next

(* A device whose revocation was reported is never authorized again by a      *)
(* server that has not fallen behind the file, across restarts, crashes,      *)
(* failed saves, and registrations of the same key with other invites, until  *)
(* a process saves over what another has saved (AuthorizeDevice and           *)
(* RevokeDevice in registry.go).                                              *)
THEOREM RevocationIsFinal == Spec => RevocationHolds
BY CleanInvariant, GrantStep, PTL DEF Spec, RevocationHolds
=============================================================================
