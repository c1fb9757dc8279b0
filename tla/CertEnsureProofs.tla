--------------------------- MODULE CertEnsureProofs ---------------------------
(***************************************************************************)
(* Proofs about CertEnsure, for every set of CAs and every lifetime: what  *)
(* an Ensure that returned without an error has left on the disk, whatever *)
(* crashes, rotations and other pins came before.                          *)
(*                                                                         *)
(* The files of one signing, or of a legacy bootstrap, are a plan; toWrite is *)
(* the end of it and the disk holds the beginning.                         *)
(***************************************************************************)
EXTENDS CertEnsure, TLAPS

\* What Ensure writes for one pair.
EnsurePlan(kd, k, x, t) ==
  <<[f |-> "ca.crt", v |-> CA(x)], [f |-> CrtFile(kd), v |-> Cert(k, x, t)],
    [f |-> KeyFile(kd), v |-> Key(k)]>>

\* What BootstrapCertificates writes.
LegacyPlan(k, x, t) ==
  <<[f |-> "ca.crt", v |-> CA(x)],
    [f |-> "client.crt", v |-> Cert(k + 1, x, t)], [f |-> "client.key", v |-> Key(k + 1)],
    [f |-> "server.crt", v |-> Cert(k + 2, x, t)], [f |-> "server.key", v |-> Key(k + 2)]>>

Entries(plan) == {plan[i] : i \in DOMAIN plan}

\* Every entry is for another file, and has what belongs in it.
Sound(plan) ==
  /\ plan \in Seq(Entries(plan))
  /\ \A i \in DOMAIN plan : plan[i].f \in Files /\ plan[i].v.is = Holds(plan[i].f)
  /\ \A i, j \in DOMAIN plan : plan[i].f = plan[j].f => i = j

\* The first entries of the plan are on the disk, the others are still to be written.
Progress(plan, rest, dir) ==
  /\ rest \in Seq(Entries(plan)) /\ Len(rest) <= Len(plan)
  /\ \A i \in 1 .. Len(rest) : rest[i] = plan[Len(plan) - Len(rest) + i]
  /\ \A i \in 1 .. Len(plan) - Len(rest) : dir[plan[i].f] = plan[i].v

\* The server's pair is of this boot: its CA is the pin, its date is today.
ServerIssued ==
  \E k \in Nat : disk["server.crt"] = Cert(k, pin, now) /\ disk["server.key"] = Key(k)

\* What is being written, and for whom.
Writing ==
  /\ pc # "write" => toWrite = <<>>
  /\ pc = "sign" => kind \in {"server", "client"}
  /\ pc = "write" =>
       \/ kind \in {"server", "client"} /\ \E k \in Nat : Progress(EnsurePlan(kind, k, pin, now), toWrite, disk)
       \/ kind = "legacy" /\ \E k \in Nat, x \in CAs : Progress(LegacyPlan(k, x, now), toWrite, disk)
  /\ pc \in {"sign", "write"} /\ kind = "client" => ServerIssued

\* Without a mishap the directory is complete, or was never written.
Unharmed ==
  ~mishap => /\ tls # "failed"
             /\ pc = "up" => FullyProvisioned
             /\ pc = "down" => FullyProvisioned \/ disk["ca.crt"] = NoFile

CertInv == CertTypeOK /\ Writing /\ Unharmed

------------------------------------------------------------------------------
(* Plans *)

LEMMA EnsurePlanSound ==
  ASSUME NEW k \in Nat, NEW x, NEW t, NEW kd \in {"server", "client"}
  PROVE  Sound(EnsurePlan(kd, k, x, t)) /\ Len(EnsurePlan(kd, k, x, t)) = 3
<1>1. ASSUME NEW a, NEW b, NEW d
      PROVE  <<a, b, d>> \in Seq(Entries(<<a, b, d>>))
  BY DEF Entries
<1> DEFINE e == EnsurePlan(kd, k, x, t)
<1>2. e \in Seq(Entries(e))
  BY <1>1 DEF EnsurePlan
<1>3. /\ Len(e) = 3 /\ DOMAIN e = 1 .. 3
      /\ e[1].f = "ca.crt" /\ e[2].f = CrtFile(kd) /\ e[3].f = KeyFile(kd)
      /\ e[1].v.is = "ca" /\ e[2].v.is = "cert" /\ e[3].v.is = "key"
  BY DEF EnsurePlan, CA, Cert, Key
<1>4. Sound(e) /\ Len(e) = 3
  <2> HIDE DEF e
  <2> QED
    BY <1>2, <1>3 DEF Sound, CrtFile, KeyFile, Files, Holds
<1> QED
  BY <1>4

LEMMA LegacyPlanSound ==
  ASSUME NEW k \in Nat, NEW x, NEW t
  PROVE  Sound(LegacyPlan(k, x, t)) /\ Len(LegacyPlan(k, x, t)) = 5
<1>1. ASSUME NEW a, NEW b, NEW d, NEW e, NEW g
      PROVE  <<a, b, d, e, g>> \in Seq(Entries(<<a, b, d, e, g>>))
  BY DEF Entries
<1> DEFINE l == LegacyPlan(k, x, t)
<1>2. l \in Seq(Entries(l))
  BY <1>1 DEF LegacyPlan
<1>3. /\ Len(l) = 5 /\ DOMAIN l = 1 .. 5
      /\ l[1].f = "ca.crt" /\ l[2].f = "client.crt" /\ l[3].f = "client.key"
      /\ l[4].f = "server.crt" /\ l[5].f = "server.key"
      /\ l[1].v.is = "ca" /\ l[2].v.is = "cert" /\ l[3].v.is = "key"
      /\ l[4].v.is = "cert" /\ l[5].v.is = "key"
  BY DEF LegacyPlan, CA, Cert, Key
<1>4. Sound(l) /\ Len(l) = 5
  <2> HIDE DEF l
  <2> QED
    BY <1>2, <1>3 DEF Sound, Files, Holds
<1> QED
  BY <1>4

\* Beginning a plan.
LEMMA PlanBegins ==
  ASSUME NEW plan, Sound(plan), NEW dir
  PROVE  Progress(plan, plan, dir)
<1>1. Len(plan) \in Nat /\ \A i \in 1 .. Len(plan) : plan[Len(plan) - Len(plan) + i] = plan[i]
  BY DEF Sound
<1>2. 1 .. Len(plan) - Len(plan) = {}
  BY <1>1
<1> QED
  BY <1>1, <1>2 DEF Sound, Progress

\* A write, or its first half, brings a plan forward: it touches one file, which
\* belongs to an entry that is still to be written.
LEMMA PlanContinues ==
  ASSUME NEW plan, Sound(plan), Progress(plan, toWrite, disk), CertTypeOK, Truncate \/ WriteRest
  PROVE  /\ Progress(plan, toWrite', disk')
         /\ DOMAIN disk' = Files /\ \A f \in Files : disk'[f].is \in {"missing", "torn", Holds(f)}
         /\ \E e \in Entries(plan) : \A f \in Files \ {e.f} : disk'[f] = disk[f]
<1> DEFINE n == Len(plan) - Len(toWrite) + 1
<1>1. /\ toWrite # <<>> /\ Len(toWrite) \in Nat /\ Len(toWrite) > 0 /\ Head(toWrite) = toWrite[1]
      /\ Len(plan) \in Nat /\ n \in DOMAIN plan /\ toWrite[1] = plan[n]
      /\ DOMAIN plan = 1 .. Len(plan)
  BY DEF Truncate, WriteRest, Progress, Sound
<1>2. /\ plan[n].f \in Files /\ plan[n].v.is = Holds(plan[n].f)
      /\ \A i \in 1 .. n - 1 : plan[i].f \in Files /\ plan[i].f # plan[n].f
  BY <1>1 DEF Sound
<1>3. DOMAIN disk = Files /\ \A f \in Files : disk[f].is \in {"missing", "torn", Holds(f)}
  BY DEF CertTypeOK
<1>4. \A i \in 1 .. n - 1 : disk[plan[i].f] = plan[i].v
  BY <1>1 DEF Progress
<1>5. CASE Truncate
  <2>1. disk' = [disk EXCEPT ![plan[n].f] = Torn] /\ toWrite' = toWrite
    BY <1>1, <1>5 DEF Truncate
  <2>2. Torn.is = "torn"
    BY DEF Torn
  <2>3. /\ DOMAIN disk' = Files /\ \A f \in Files : disk'[f].is \in {"missing", "torn", Holds(f)}
        /\ \A f \in Files \ {plan[n].f} : disk'[f] = disk[f]
    BY <1>2, <1>3, <2>1, <2>2
  <2>4. \A i \in 1 .. Len(plan) - Len(toWrite) : disk'[plan[i].f] = plan[i].v
    BY <1>1, <1>2, <1>4, <2>3
  <2>5. Progress(plan, toWrite', disk')
    BY <2>1, <2>4 DEF Progress
  <2> QED
    BY <1>1, <2>3, <2>5 DEF Entries
<1>6. CASE WriteRest
  <2>1. disk' = [disk EXCEPT ![plan[n].f] = plan[n].v] /\ toWrite' = Tail(toWrite)
    BY <1>1, <1>6 DEF WriteRest
  <2>2. /\ DOMAIN disk' = Files /\ \A f \in Files : disk'[f].is \in {"missing", "torn", Holds(f)}
        /\ \A f \in Files \ {plan[n].f} : disk'[f] = disk[f]
        /\ disk'[plan[n].f] = plan[n].v
    BY <1>2, <1>3, <2>1
  <2>3. /\ toWrite' \in Seq(Entries(plan)) /\ Len(toWrite') = Len(toWrite) - 1
        /\ \A i \in 1 .. Len(toWrite') : toWrite'[i] = toWrite[i + 1]
    BY <1>1, <2>1 DEF Progress
  <2>4. \A i \in 1 .. Len(toWrite') : toWrite'[i] = plan[Len(plan) - Len(toWrite') + i]
    <3> TAKE i \in 1 .. Len(toWrite')
    <3>1. i \in Nat /\ i + 1 \in 1 .. Len(toWrite) /\ toWrite'[i] = toWrite[i + 1]
      BY <1>1, <2>3
    <3>2. toWrite[i + 1] = plan[Len(plan) - Len(toWrite) + (i + 1)]
      BY <3>1 DEF Progress
    <3>3. Len(plan) - Len(toWrite) + (i + 1) = Len(plan) - Len(toWrite') + i
      BY <1>1, <2>3, <3>1
    <3> QED
      BY <3>1, <3>2, <3>3
  <2>5. \A i \in 1 .. Len(plan) - Len(toWrite') : disk'[plan[i].f] = plan[i].v
    <3>1. Len(plan) - Len(toWrite') = n
      BY <1>1, <2>3
    <3>2. \A i \in 1 .. n : i = n \/ i \in 1 .. n - 1
      BY <1>1
    <3> QED
      BY <1>2, <1>4, <2>2, <3>1, <3>2
  <2>6. Len(toWrite') <= Len(plan)
    BY <1>1, <2>3
  <2>7. Progress(plan, toWrite', disk')
    BY <2>3, <2>4, <2>5, <2>6 DEF Progress
  <2> QED
    BY <1>1, <2>2, <2>7 DEF Entries
<1> QED
  BY <1>5, <1>6

------------------------------------------------------------------------------
(* The invariant *)

LEMMA CertStart ==
  CertInit => CertInv
<1> SUFFICES ASSUME CertInit PROVE CertInv
  OBVIOUS
<1>1. DOMAIN disk = Files /\ \A f \in Files : disk[f].is = "missing"
  BY DEF CertInit, NoFile
<1>2. /\ now = 0 /\ keys = 0 /\ pin \in CAs /\ presents \in CAs /\ signs \in CAs /\ mishap \in BOOLEAN
      /\ pc = "down" /\ kind = "none" /\ toWrite = <<>> /\ tls = "none"
  BY Zenon DEF CertInit
<1>3. CertTypeOK
  BY <1>1, <1>2, LifeAssumption DEF CertTypeOK
<1>4. Writing /\ Unharmed
  BY DEF CertInit, Writing, Unharmed, Files
<1> QED
  BY <1>3, <1>4 DEF CertInv

\* What a finished plan has left on the disk.
LEMMA PlanDone ==
  ASSUME NEW plan, Progress(plan, toWrite, disk), Sound(plan), toWrite = <<>>
  PROVE  \A i \in 1 .. Len(plan) : disk[plan[i].f] = plan[i].v
  BY DEF Progress, Sound

\* When Ensure is done with both pairs, and when the legacy bootstrap is done, the
\* module is fully provisioned.
LEMMA WrittenIsComplete ==
  ASSUME CertTypeOK, Writing, pc = "write", toWrite = <<>>
  PROVE  /\ kind = "server" => ServerIssued
         /\ kind = "client" => FullyProvisioned /\ disk["ca.crt"] = CA(pin)
         /\ kind = "legacy" => FullyProvisioned
<1>1. CASE kind \in {"server", "client"}
  <2>1. PICK k \in Nat : Progress(EnsurePlan(kind, k, pin, now), toWrite, disk)
    BY <1>1 DEF Writing
  <2>2. Sound(EnsurePlan(kind, k, pin, now)) /\ Len(EnsurePlan(kind, k, pin, now)) = 3
    BY <1>1, EnsurePlanSound
  <2>3. /\ disk["ca.crt"] = CA(pin)
        /\ disk[CrtFile(kind)] = Cert(k, pin, now) /\ disk[KeyFile(kind)] = Key(k)
    <3>1. \A i \in 1 .. 3 : disk[EnsurePlan(kind, k, pin, now)[i].f] = EnsurePlan(kind, k, pin, now)[i].v
      BY <2>1, <2>2, PlanDone
    <3> QED
      BY <3>1 DEF EnsurePlan
  <2>4. CASE kind = "server"
    BY <2>3, <2>4 DEF CrtFile, KeyFile, ServerIssued
  <2>5. CASE kind = "client"
    <3>1. PICK q \in Nat : disk["server.crt"] = Cert(q, pin, now) /\ disk["server.key"] = Key(q)
      BY <2>5 DEF Writing, ServerIssued
    <3>2. disk["client.crt"] = Cert(k, pin, now) /\ disk["client.key"] = Key(k)
      BY <2>3, <2>5 DEF CrtFile, KeyFile
    <3> QED
      BY <2>3, <2>5, <3>1, <3>2 DEF FullyProvisioned, Pair, CA, Cert
  <2> QED
    BY <1>1, <2>4, <2>5
<1>2. CASE kind = "legacy"
  <2>1. PICK k \in Nat, x \in CAs : Progress(LegacyPlan(k, x, now), toWrite, disk)
    BY <1>2 DEF Writing
  <2>2. Sound(LegacyPlan(k, x, now)) /\ Len(LegacyPlan(k, x, now)) = 5
    BY LegacyPlanSound
  <2>3. \A i \in 1 .. 5 : disk[LegacyPlan(k, x, now)[i].f] = LegacyPlan(k, x, now)[i].v
    BY <2>1, <2>2, PlanDone
  <2>4. /\ disk["ca.crt"] = CA(x)
        /\ disk["client.crt"] = Cert(k + 1, x, now) /\ disk["client.key"] = Key(k + 1)
        /\ disk["server.crt"] = Cert(k + 2, x, now) /\ disk["server.key"] = Key(k + 2)
    BY <2>3 DEF LegacyPlan
  <2> QED
    BY <1>2, <2>4 DEF FullyProvisioned, Pair, CA, Cert
<1> QED
  BY <1>1, <1>2

LEMMA CertStep ==
  CertInv /\ [CertNext]_certVars => CertInv'
<1> SUFFICES ASSUME CertInv, [CertNext]_certVars
             PROVE  CertInv'
  OBVIOUS
<1> USE LifeAssumption DEF CertInv
<1>1. CASE Boot
  <2>1. CheckLocalCert /\ ~mishap => FullyProvisioned
    BY <1>1 DEF Boot, CheckLocalCert, Unharmed, CA, NoFile
  <2>2. CertTypeOK'
    BY <1>1 DEF Boot, CertTypeOK
  <2>3. Writing'
    BY <1>1 DEF Boot, Writing
  <2>4. Unharmed'
    BY <1>1, <2>1 DEF Boot, Unharmed, FullyProvisioned, Pair
  <2> QED
    BY <2>2, <2>3, <2>4
<1>2. CASE Sign
  <2> DEFINE plan == EnsurePlan(kind, keys', pin, now)
  <2>1. /\ kind \in {"server", "client"} /\ keys' = keys + 1 /\ keys' \in Nat
        /\ pc = "sign" /\ pc' = "write" /\ toWrite' = plan
        /\ UNCHANGED <<disk, now, pin, kind, mishap, tls>>
    BY <1>2 DEF Sign, Writing, EnsurePlan, CertTypeOK
  <2>2. Sound(plan) /\ Len(plan) = 3
    BY <2>1, EnsurePlanSound
  <2>3. Progress(plan, toWrite', disk')
    BY <2>1, <2>2, PlanBegins
  <2>4. Writing'
    BY <2>1, <2>3 DEF Writing, ServerIssued
  <2> HIDE DEF plan
  <2>5. Len(toWrite') <= 5
    BY <2>1, <2>2
  <2>6. CertTypeOK'
    BY <1>2, <2>5 DEF Sign, CertTypeOK
  <2>7. Unharmed'
    BY <2>1 DEF Unharmed
  <2> QED
    BY <2>4, <2>6, <2>7
<1>3. CASE SignFail
  BY <1>3 DEF SignFail, CertTypeOK, Writing, Unharmed
<1>4. CASE LegacyBootstrap
  <2> DEFINE plan == LegacyPlan(keys, signs, now)
  <2>1. /\ keys \in Nat /\ keys' = keys + 2 /\ signs \in CAs
        /\ pc = "down" /\ pc' = "write" /\ kind' = "legacy" /\ toWrite' = plan
        /\ UNCHANGED <<disk, now, pin, signs, mishap, tls>>
    BY <1>4 DEF LegacyBootstrap, LegacyPlan, CertTypeOK
  <2>2. Sound(plan) /\ Len(plan) = 5
    BY <2>1, LegacyPlanSound
  <2>3. Progress(plan, toWrite', disk')
    BY <2>1, <2>2, PlanBegins
  <2>4. Writing'
    BY <2>1, <2>3 DEF Writing
  <2> HIDE DEF plan
  <2>5. Len(toWrite') <= 5
    BY <2>1, <2>2
  <2>6. CertTypeOK'
    BY <1>4, <2>5 DEF LegacyBootstrap, CertTypeOK
  <2>7. Unharmed'
    BY <2>1 DEF Unharmed
  <2> QED
    BY <2>4, <2>6, <2>7
<1>5. CASE Truncate \/ WriteRest
  <2>1. /\ pc = "write" /\ UNCHANGED <<now, pin, presents, signs, pc, kind, keys, tls, mishap>>
    BY <1>5 DEF Truncate, WriteRest
  <2>2. ASSUME NEW plan, Sound(plan), Len(plan) <= 5, Progress(plan, toWrite, disk)
        PROVE  CertTypeOK' /\ Progress(plan, toWrite', disk')
    <3>1. /\ Progress(plan, toWrite', disk')
          /\ DOMAIN disk' = Files /\ \A f \in Files : disk'[f].is \in {"missing", "torn", Holds(f)}
      BY <1>5, <2>2, PlanContinues
    <3>2. Len(toWrite') <= 5
      BY <2>2, <3>1 DEF Progress, Sound
    <3> QED
      BY <2>1, <3>1, <3>2 DEF CertTypeOK
  <2>3. Unharmed'
    BY <2>1 DEF Unharmed
  <2>4. CASE kind = "legacy"
    <3>1. PICK k \in Nat, x \in CAs : Progress(LegacyPlan(k, x, now), toWrite, disk)
      BY <2>1, <2>4 DEF Writing
    <3> DEFINE plan == LegacyPlan(k, x, now)
    <3>2. Sound(plan) /\ Len(plan) = 5
      BY LegacyPlanSound
    <3>3. Len(plan) <= 5
      BY <3>2
    <3>4. CertTypeOK' /\ Progress(plan, toWrite', disk')
      BY <2>2, <3>1, <3>2, <3>3, Zenon
    <3>5. Writing'
      BY <2>1, <2>4, <3>4 DEF Writing
    <3> QED
      BY <2>3, <3>4, <3>5
  <2>5. CASE kind \in {"server", "client"}
    <3>1. PICK k \in Nat : Progress(EnsurePlan(kind, k, pin, now), toWrite, disk)
      BY <2>1, <2>5 DEF Writing
    <3>a. Sound(EnsurePlan(kind, k, pin, now)) /\ Len(EnsurePlan(kind, k, pin, now)) = 3
      BY <2>5, EnsurePlanSound
    <3>2. Sound(EnsurePlan(kind, k, pin, now)) /\ Len(EnsurePlan(kind, k, pin, now)) <= 5
      BY <3>a
    <3>3. CertTypeOK' /\ Progress(EnsurePlan(kind, k, pin, now), toWrite', disk')
      BY <2>2, <3>1, <3>2, Zenon
    <3>4. CASE kind = "server"
      BY <2>1, <2>3, <3>3, <3>4 DEF Writing
    <3>5. CASE kind = "client"
      <4>1. \A e \in Entries(EnsurePlan(kind, k, pin, now)) : e.f \in {"ca.crt", "client.crt", "client.key"}
        BY <3>5 DEF Entries, EnsurePlan, CrtFile, KeyFile
      <4>2. PICK e \in Entries(EnsurePlan(kind, k, pin, now)) : \A f \in Files \ {e.f} : disk'[f] = disk[f]
        BY <1>5, <3>1, <3>2, PlanContinues
      <4>3. disk'["server.crt"] = disk["server.crt"] /\ disk'["server.key"] = disk["server.key"]
        BY <4>1, <4>2 DEF Files
      <4>4. ServerIssued'
        BY <2>1, <3>5, <4>3 DEF Writing, ServerIssued
      <4> QED
        BY <2>1, <2>3, <3>3, <3>5, <4>4 DEF Writing
    <3> QED
      BY <2>5, <3>4, <3>5
  <2> QED
    BY <2>1, <2>4, <2>5 DEF Writing
<1>6. CASE Written
  <2>1. /\ pc = "write" /\ toWrite = <<>>
        /\ UNCHANGED <<disk, now, pin, presents, signs, toWrite, keys, tls, mishap>>
    BY <1>6 DEF Written
  <2>2. kind \in {"server", "client", "legacy"}
    BY <2>1 DEF Writing
  <2>3. /\ kind = "server" => pc' = "sign" /\ kind' = "client"
        /\ kind = "client" => pc' = "up" /\ kind' = kind
        /\ kind = "legacy" => pc' = "down" /\ kind' = kind
    BY <1>6 DEF Written
  <2>4. /\ kind = "server" => ServerIssued
        /\ kind \in {"client", "legacy"} => FullyProvisioned
    BY <2>1, WrittenIsComplete
  <2>5. CertTypeOK'
    BY <2>1, <2>2, <2>3 DEF CertTypeOK
  <2>6. Writing'
    BY <2>1, <2>2, <2>3, <2>4 DEF Writing, ServerIssued
  <2>7. Unharmed'
    BY <2>1, <2>2, <2>3, <2>4 DEF Unharmed, FullyProvisioned, Pair
  <2> QED
    BY <2>5, <2>6, <2>7
<1>7. CASE Serve
  <2>1. ~mishap => tls' = "ok"
    BY <1>7 DEF Serve, Unharmed, FullyProvisioned
  <2> QED
    BY <1>7, <2>1 DEF Serve, CertTypeOK, Writing, Unharmed, FullyProvisioned, Pair
<1>8. CASE Crash
  <2>1. mishap' \in BOOLEAN /\ (~mishap' => ~mishap /\ pc = "up")
    BY <1>8, Zenon DEF Crash, CertTypeOK
  <2> QED
    BY <1>8, <2>1 DEF Crash, CertTypeOK, Writing, Unharmed, FullyProvisioned, Pair
<1>9. CASE Tick
  BY <1>9 DEF Tick, CertTypeOK, Writing, Unharmed, FullyProvisioned, Pair
<1>10. CASE Repin
  BY <1>10 DEF Repin, CertTypeOK, Writing, Unharmed, FullyProvisioned, Pair
<1>11. CASE Rotate \/ UNCHANGED certVars
  <2>1. /\ UNCHANGED <<disk, now, pin, pc, kind, toWrite, keys, tls, mishap>>
        /\ presents' \in CAs /\ signs' \in CAs
    BY <1>11 DEF Rotate, certVars, CertTypeOK
  <2>2. CertTypeOK' /\ Unharmed'
    BY <2>1 DEF CertTypeOK, Unharmed, FullyProvisioned, Pair
  <2>3. Writing'
    BY <2>1 DEF Writing, ServerIssued
  <2> QED
    BY <2>2, <2>3
<1> QED
  BY <1>1, <1>2, <1>3, <1>4, <1>5, <1>6, <1>7, <1>8, <1>9, <1>10, <1>11 DEF CertNext

LEMMA CertHolds ==
  CertSpec => []CertInv
  BY CertStart, CertStep, PTL DEF CertSpec

------------------------------------------------------------------------------
(* Theorems *)

\* Type correctness: a file never holds what belongs in another one.
THEOREM TypeCorrect ==
  CertSpec => []CertTypeOK
<1>1. CertInv => CertTypeOK
  BY DEF CertInv
<1> QED
  BY <1>1, CertHolds, PTL

\* As long as nothing was cut short, a module that is up is fully provisioned and
\* serves TLS, for every number of CAs, boots and keys.
THEOREM WithoutMishapProvisioned ==
  CertSpec => []OnlyMishapsDegrade
<1>1. CertInv => OnlyMishapsDegrade
  BY DEF CertInv, Unharmed, OnlyMishapsDegrade
<1> QED
  BY <1>1, CertHolds, PTL

\* Ensure never returns without an error unless the disk has the pinned CA and a
\* server certificate of it that is good for more than RenewBefore.
THEOREM PinKept ==
  CertSpec => EnsureKeepsPin
<1> DEFINE Kept == Returns => /\ disk'["ca.crt"] = CA(pin)
                              /\ disk'["server.crt"].is = "cert" /\ disk'["server.crt"].ca = pin
                              /\ now + RenewBefore < disk'["server.crt"].until
<1>1. CertInv /\ [CertNext]_certVars => [Kept]_certVars
  <2> SUFFICES ASSUME CertInv, CertNext, pc # "up", pc' = "up"
               PROVE  /\ disk'["ca.crt"] = CA(pin)
                      /\ disk'["server.crt"].is = "cert" /\ disk'["server.crt"].ca = pin
                      /\ now + RenewBefore < disk'["server.crt"].until
    BY DEF Returns
  <2>1. Boot \/ Written
    BY DEF CertNext, Sign, SignFail, LegacyBootstrap, Truncate, WriteRest, Serve, Crash, Tick, Repin, Rotate
  <2>2. CASE Boot
    BY <2>2 DEF Boot, CheckLocalCert, CA
  <2>3. CASE Written
    <3>1. /\ CertTypeOK /\ Writing /\ pc = "write" /\ toWrite = <<>> /\ kind = "client" /\ UNCHANGED disk
      BY <2>3 DEF CertInv, Written, Writing
    <3>2. disk["ca.crt"] = CA(pin)
      BY <3>1, WrittenIsComplete
    <3>3. PICK k \in Nat : disk["server.crt"] = Cert(k, pin, now)
      BY <3>1 DEF Writing, ServerIssued
    <3>4. now \in Nat
      BY <3>1, LifeAssumption DEF CertTypeOK
    <3> QED
      BY <3>1, <3>2, <3>3, <3>4, LifeAssumption DEF Cert
  <2> QED
    BY <2>1, <2>2, <2>3
<1>2. [Kept]_certVars => [Returns => LET srv == disk'["server.crt"]
                                 IN /\ disk'["ca.crt"] = CA(pin)
                                    /\ srv.is = "cert" /\ srv.ca = pin
                                    /\ now + RenewBefore < srv.until]_certVars
  OBVIOUS
<1> QED
  BY <1>1, <1>2, CertHolds, PTL DEF CertSpec, EnsureKeepsPin

\* A boot that had to issue certificates ends with both pairs matching and hanging
\* off the CA on the disk, whatever was there before.
THEOREM IssuedIsComplete ==
  CertSpec => IssueProvisions
<1>1. CertInv /\ [CertNext]_certVars => [(pc = "write" /\ pc' = "up") => FullyProvisioned']_certVars
  <2> SUFFICES ASSUME CertInv, CertNext, pc = "write", pc' = "up"
               PROVE  FullyProvisioned'
    OBVIOUS
  <2>1. Written
    BY DEF CertNext, Boot, Sign, SignFail, LegacyBootstrap, Truncate, WriteRest, Serve, Crash, Tick, Repin, Rotate
  <2>2. CertTypeOK /\ Writing /\ toWrite = <<>> /\ kind = "client" /\ UNCHANGED disk
    BY <2>1 DEF CertInv, Written, Writing
  <2>3. FullyProvisioned
    BY <2>2, WrittenIsComplete
  <2> QED
    BY <2>2, <2>3 DEF FullyProvisioned, Pair
<1> QED
  BY <1>1, CertHolds, PTL DEF CertSpec, IssueProvisions
==============================================================================
