----------------------- MODULE SidechainBridge_proofs -----------------------
(***************************************************************************)
(* Proofs about SidechainBridge for every federation, every set of         *)
(* requests and every width of the integers.                               *)
(***************************************************************************)
EXTENDS SidechainBridge, FiniteSetTheorems, TLAPS

-----------------------------------------------------------------------------
(* Maps.                                                                   *)

LEMMA EmptyMapType ==
  ASSUME NEW K, NEW V
  PROVE  IsMap(EmptyMap, K, V)
BY DEF IsMap, EmptyMap

LEMMA PutType ==
  ASSUME NEW K, NEW V, NEW m, IsMap(m, K, V), NEW k \in K, NEW v \in V
  PROVE  /\ IsMap(Put(m, k, v), K, V)
         /\ DOMAIN Put(m, k, v) = DOMAIN m \cup {k}
         /\ Put(m, k, v)[k] = v
         /\ \A j \in DOMAIN m : j # k => Put(m, k, v)[j] = m[j]
BY DEF IsMap, Put

LEMMA EraseType ==
  ASSUME NEW K, NEW V, NEW m, IsMap(m, K, V), NEW k
  PROVE  IsMap(Erase(m, k), K, V)
BY DEF IsMap, Erase

LEMMA PutAllType ==
  ASSUME NEW K, NEW V, NEW m, NEW n, IsMap(m, K, V), IsMap(n, K, V)
  PROVE  IsMap(PutAll(m, n), K, V)
BY DEF IsMap, PutAll

LEMMA UpdateType ==
  ASSUME NEW K, NEW V, NEW m, IsMap(m, K, V), NEW k \in DOMAIN m, NEW v \in V
  PROVE  IsMap([m EXCEPT ![k] = v], K, V)
BY DEF IsMap

-----------------------------------------------------------------------------
(* Arithmetic and conversions.                                             *)

LEMMA UInt64Closed ==
  ASSUME NEW x \in UInt64, NEW y \in UInt64
  PROVE  Add64(x, y) \in UInt64 /\ Sub64(x, y) \in UInt64
BY AmountAssumption DEF UInt64, Add64, Sub64

LEMMA SignerTypes ==
  ASSUME NEW signer \in SignerData
  PROVE  /\ RecordSignature(signer) \in SignerData
         /\ RecordMissedSignature(signer) \in SignerData
         /\ StoredSigner(signer) \in SignerData
<1>1. RecordSignature(signer) \in SignerData
  BY FederationAssumption, AmountAssumption DEF SignerData, RecordSignature, UInt64
<1>2. 1 \in UInt64 /\ RepPenalty \in UInt64
  BY FederationAssumption, AmountAssumption DEF UInt64
<1>3. RecordMissedSignature(signer) \in SignerData
  BY <1>2, UInt64Closed DEF SignerData, RecordMissedSignature
<1>4. StoredSigner(signer) \in SignerData
  BY JsonAssumption DEF SignerData, StoredSigner, UInt64
<1> QED BY <1>1, <1>3, <1>4

LEMMA NewSignerType == NewSigner \in SignerData
BY FederationAssumption, AmountAssumption DEF NewSigner, SignerData, UInt64

LEMMA StoredPegOutType ==
  ASSUME NEW pegout \in PegOutData
  PROVE  /\ StoredPegOut(pegout) \in PegOutData
         /\ StoredPegOut(pegout).status = pegout.status
         /\ StoredPegOut(pegout).dest = pegout.dest
         /\ StoredPegOut(pegout).anchor = pegout.anchor
         /\ StoredPegOut(pegout).openedAt = pegout.openedAt
         /\ StoredPegOut(pegout).signatures = pegout.signatures
BY JsonAssumption DEF PegOutData, StoredPegOut, UInt64

LEMMA SignerBatchType ==
  ASSUME NEW signers, IsMap(signers, Signers, SignerData), NEW ids
  PROVE  IsMap(SignerBatch(signers, ids), Signers, SignerData)
BY SignerTypes DEF IsMap, SignerBatch

-----------------------------------------------------------------------------
(* Type correctness.                                                       *)

LEMMA StatsTypes ==
  ASSUME stats \in Stats, NEW amount \in UInt64
  PROVE  /\ amount >= BRIDGE_FEE => RecordPegin(amount) \in Stats
         /\ RecordPegout(amount) \in Stats
<1>1. BRIDGE_FEE \in UInt64
  BY AmountAssumption DEF UInt64
<1>2. amount >= BRIDGE_FEE => amount - BRIDGE_FEE \in UInt64
  BY AmountAssumption DEF UInt64
<1>3. /\ Add64(stats.locked, amount) \in UInt64
      /\ Sub64(stats.locked, amount) \in UInt64
      /\ Sub64(stats.minted, amount) \in UInt64
      /\ Add64(stats.fees, BRIDGE_FEE) \in UInt64
      /\ amount >= BRIDGE_FEE => Add64(stats.minted, amount - BRIDGE_FEE) \in UInt64
  BY <1>1, <1>2, UInt64Closed DEF Stats
<1> DEFINE books(p, q, l, m, f) ==
      [stats EXCEPT !.totalPegins = p, !.totalPegouts = q,
                    !.locked = l, !.minted = m, !.fees = f]
<1>a. ASSUME NEW p \in Nat, NEW q \in Nat, NEW l \in UInt64, NEW m \in UInt64,
             NEW f \in UInt64
      PROVE  books(p, q, l, m, f) \in Stats
  BY DEF Stats
<1>4. amount >= BRIDGE_FEE => RecordPegin(amount) \in Stats
  <2>1. RecordPegin(amount) =
          books(stats.totalPegins + 1, stats.totalPegouts, Add64(stats.locked, amount),
                Add64(stats.minted, amount - BRIDGE_FEE), Add64(stats.fees, BRIDGE_FEE))
    BY DEF Stats, RecordPegin
  <2> HIDE DEF books
  <2> QED BY <2>1, <1>3, <1>a DEF Stats
<1>5. RecordPegout(amount) \in Stats
  <2>1. RecordPegout(amount) =
          books(stats.totalPegins, stats.totalPegouts + 1, Sub64(stats.locked, amount),
                Sub64(stats.minted, amount), Add64(stats.fees, BRIDGE_FEE))
    BY DEF Stats, RecordPegout
  <2> HIDE DEF books
  <2> QED BY <2>1, <1>3, <1>a DEF Stats
<1> QED BY <1>4, <1>5

\* Every peg-in that was accepted is large enough to pay the bridge fee: needed
\* for the amount recordPegin computes to be a uint64_t.
PegInsPayFee == \A o \in DOMAIN pegins : pegins[o].amount >= BRIDGE_FEE

TypeInv == TypeOK /\ PegInsPayFee

LEMMA TypeInit == Init => TypeInv
<1> SUFFICES ASSUME Init PROVE TypeInv
  OBVIOUS
<1>1. /\ IsMap(federation, Signers, SignerData)
      /\ IsMap(pegins, Outpoints, PegInData)
      /\ IsMap(pegouts, PegOutIds, PegOutData)
      /\ IsMap(disk.signer, Signers, SignerData)
      /\ IsMap(disk.pegout, PegOutIds, PegOutData)
  BY EmptyMapType DEF Init
<1>2. stats \in Stats
  BY AmountAssumption DEF Init, ZeroStats, Stats, UInt64
<1>3. PegInsPayFee
  BY DEF Init, EmptyMap, PegInsPayFee
<1>4. clock \in 0 .. MaxClock /\ l2Height \in 0 .. clock /\ minted \in [Outpoints -> Nat]
  BY BoundAssumption DEF Init
<1>5. /\ anchors \subseteq Anchors /\ emergencyMode \in BOOLEAN
      /\ DOMAIN disk = {"signer", "signerIndex", "pegout", "pegoutIndex"}
      /\ disk.signerIndex \subseteq Signers /\ disk.pegoutIndex \subseteq PegOutIds
      /\ released \subseteq PegOutIds
  BY DEF Init
<1> QED BY <1>1, <1>2, <1>3, <1>4, <1>5 DEF TypeInv, TypeOK

\* What a batch leaves on disk has the type of the disk.
DiskOK(d) ==
  /\ DOMAIN d = {"signer", "signerIndex", "pegout", "pegoutIndex"}
  /\ IsMap(d.signer, Signers, SignerData)
  /\ d.signerIndex \subseteq Signers
  /\ IsMap(d.pegout, PegOutIds, PegOutData)
  /\ d.pegoutIndex \subseteq PegOutIds

LEMMA BatchType ==
  ASSUME NEW d, DiskOK(disk), DiskOK(d), ExecuteBatch(d)
  PROVE  DiskOK(disk')
BY DEF ExecuteBatch, DiskOK

LEMMA TypeNext == TypeInv /\ [Next]_vars => TypeInv'
<1> SUFFICES ASSUME TypeInv, [Next]_vars PROVE TypeInv'
  OBVIOUS
<1> USE DEF TypeInv
<1>a. DiskOK(disk)
  BY DEF DiskOK, TypeOK
<1>1. ASSUME NEW s \in Signers, AddFederationSigner(s) PROVE TypeInv'
  <2> DEFINE signer  == IF s \in DOMAIN disk.signer THEN disk.signer[s] ELSE NewSigner
             signers == Put(federation, s, signer)
             d == [disk EXCEPT !.signer = PutAll(@, SignerBatch(signers, {s})),
                               !.signerIndex = ActiveSigners(signers)]
  <2>1. signer \in SignerData
    BY NewSignerType DEF TypeOK, IsMap
  <2>2. IsMap(signers, Signers, SignerData)
    BY <2>1, PutType DEF TypeOK
  <2> HIDE DEF signers
  <2>3. ActiveSigners(signers) \subseteq Signers
    BY <2>2 DEF ActiveSigners, IsMap
  <2>4. IsMap(PutAll(disk.signer, SignerBatch(signers, {s})), Signers, SignerData)
    BY <2>2, SignerBatchType, PutAllType DEF TypeOK
  <2>5. DiskOK(d)
    BY <1>a, <2>3, <2>4 DEF DiskOK
  <2>6. ExecuteBatch(d) /\ federation' = signers
    BY <1>1 DEF AddFederationSigner, signers
  <2> HIDE DEF d
  <2>7. DiskOK(disk')
    BY <1>a, <2>5, <2>6, BatchType
  <2> QED
    BY <1>1, <2>2, <2>6, <2>7 DEF AddFederationSigner, TypeOK, PegInsPayFee, DiskOK
<1>2. ASSUME NEW s \in Signers, RemoveSigner(s) PROVE TypeInv'
  BY <1>2, EraseType DEF RemoveSigner, TypeOK, PegInsPayFee
<1>3. ASSUME NEW s \in Signers, MissSignature(s) PROVE TypeInv'
  <2>1. federation' = [federation EXCEPT ![s] = RecordMissedSignature(federation[s])]
    BY <1>3 DEF MissSignature
  <2>2. RecordMissedSignature(federation[s]) \in SignerData
    BY <1>3, SignerTypes DEF MissSignature, TypeOK, IsMap
  <2>3. IsMap(federation', Signers, SignerData)
    BY <1>3, <2>1, <2>2 DEF MissSignature, TypeOK, IsMap
  <2> QED BY <1>3, <2>3 DEF MissSignature, TypeOK, PegInsPayFee
<1>4. ASSUME NEW o \in Outpoints, InitiatePegIn(o) PROVE TypeInv'
  <2> DEFINE pegin == [amount |-> OutpointAmount[o], confirmations |-> 0,
                       status |-> "INITIATED"]
  <2>1. pegin \in PegInData /\ pegin.amount >= BRIDGE_FEE
    BY <1>4, AmountAssumption DEF PegInData, UInt64, InitiatePegIn
  <2>2. pegins' = Put(pegins, o, pegin)
    BY <1>4 DEF InitiatePegIn
  <2> HIDE DEF pegin
  <2>3. IsMap(pegins', Outpoints, PegInData)
    BY <2>1, <2>2, PutType DEF TypeOK
  <2>4. PegInsPayFee'
    BY <2>1, <2>2 DEF Put, PegInsPayFee
  <2> QED BY <1>4, <2>3, <2>4 DEF InitiatePegIn, TypeOK
<1>5. ASSUME NEW o \in Outpoints, SubmitSPVProof(o) PROVE TypeInv'
  <2>1. IsMap(pegins', Outpoints, PegInData) /\ PegInsPayFee'
    BY <1>5 DEF SubmitSPVProof, TypeOK, IsMap, PegInData, PegInsPayFee
  <2> QED BY <1>5, <2>1 DEF SubmitSPVProof, TypeOK
<1>6. ASSUME NEW o \in Outpoints, NEW height \in 0 .. MaxBtcHeight,
             NEW current \in 0 .. MaxBtcHeight,
             UpdatePegInConfirmations(o, height, current)
      PROVE  TypeInv'
  <2>1. Confirmations(height, current) \in Nat
    BY DEF Confirmations
  <2>2. IsMap(pegins', Outpoints, PegInData) /\ PegInsPayFee'
    BY <1>6, <2>1
    DEF UpdatePegInConfirmations, TypeOK, IsMap, PegInData, PegInsPayFee
  <2> QED BY <1>6, <2>2 DEF UpdatePegInConfirmations, TypeOK
<1>7. ASSUME NEW o \in Outpoints, CompletePegInMint(o) PROVE TypeInv'
  <2>1. IsMap(pegins', Outpoints, PegInData) /\ PegInsPayFee'
    BY <1>7 DEF CompletePegInMint, TypeOK, IsMap, PegInData, PegInsPayFee
  <2>2. pegins[o].amount \in UInt64 /\ pegins[o].amount >= BRIDGE_FEE
    BY <1>7 DEF CompletePegInMint, TypeOK, IsMap, PegInData, PegInsPayFee
  <2>3. stats' \in Stats
    BY <1>7, <2>2, StatsTypes DEF CompletePegInMint, TypeOK
  <2>4. pegins[o].amount - BRIDGE_FEE \in Nat
    BY <2>2, AmountAssumption DEF UInt64
  <2>5. minted' \in [Outpoints -> Nat]
    BY <1>7, <2>4 DEF CompletePegInMint, TypeOK
  <2> QED BY <1>7, <2>1, <2>3, <2>5 DEF CompletePegInMint, TypeOK
<1>8. ASSUME NEW h \in Anchors, RegisterAnchorCommitment(h) PROVE TypeInv'
  BY <1>8 DEF RegisterAnchorCommitment, TypeOK, PegInsPayFee
<1>9. ASSUME NEW source \in Sources, NEW dest \in Dests, NEW amount \in Amounts,
             NEW h \in Anchors, InitiatePegOut(source, dest, amount, h)
      PROVE  TypeInv'
  <2> DEFINE id == [source |-> source, amount |-> amount, time |-> clock]
             new == [dest |-> dest, anchor |-> h, burn |-> amount,
                     confirmations |-> 0, openedAt |-> l2Height,
                     status |-> "BURN_INITIATED",
                     signatures |-> [s \in Signers |-> NoSignature]]
  <2>1. id \in PegOutIds
    BY DEF PegOutIds, TypeOK
  <2>2. new \in PegOutData
    BY AmountAssumption, BoundAssumption DEF PegOutData, UInt64, TypeOK
  <2>3. pegouts' = Put(pegouts, id, new)
    BY <1>9 DEF InitiatePegOut
  <2> HIDE DEF id, new
  <2>4. IsMap(pegouts', PegOutIds, PegOutData)
    BY <2>1, <2>2, <2>3, PutType DEF TypeOK
  <2> QED BY <1>9, <2>4 DEF InitiatePegOut, TypeOK, PegInsPayFee
<1>10. ASSUME NEW id \in DOMAIN pegouts, NEW burnHeight \in 0 .. l2Height,
              UpdatePegOutConfirmations(id, burnHeight)
       PROVE  TypeInv'
  <2>1. Confirmations(burnHeight, l2Height) \in UInt64
    BY BoundAssumption, AmountAssumption DEF Confirmations, UInt64, TypeOK
  <2>2. IsMap(pegouts', PegOutIds, PegOutData)
    BY SMTT(30), <1>10, <2>1 DEF UpdatePegOutConfirmations, TypeOK, IsMap, PegOutData
  <2> QED BY <1>10, <2>2 DEF UpdatePegOutConfirmations, TypeOK, PegInsPayFee
<1>11. ASSUME NEW id \in DOMAIN pegouts, NEW s \in Signers, NEW signature \in Signatures,
              SignPegOut(id, s, signature)
       PROVE  TypeInv'
  <2> DEFINE signed == [pegouts[id] EXCEPT !.signatures[s] = signature]
  <2>a. pegouts[id] \in PegOutData
    BY DEF TypeOK, IsMap
  <2>b. [pegouts[id].signatures EXCEPT ![s] = signature]
          \in [Signers -> Signatures \cup {NoSignature}]
    BY <2>a DEF PegOutData
  <2>c. signed \in PegOutData
    BY <2>a, <2>b DEF PegOutData
  <2>d. pegouts' = [pegouts EXCEPT ![id] = signed]
    BY <1>11 DEF SignPegOut
  <2> HIDE DEF signed
  <2>1. IsMap(pegouts', PegOutIds, PegOutData)
    BY <2>c, <2>d DEF TypeOK, IsMap
  <2>2. s \in DOMAIN federation /\ RecordSignature(federation[s]) \in SignerData
    BY <1>11, SignerTypes DEF SignPegOut, ActiveSigners, TypeOK, IsMap
  <2>3. federation' = [federation EXCEPT ![s] = RecordSignature(federation[s])]
    BY <1>11 DEF SignPegOut
  <2>4. IsMap(federation', Signers, SignerData)
    BY <2>2, <2>3, UpdateType DEF TypeOK
  <2> QED BY <1>11, <2>1, <2>4 DEF SignPegOut, TypeOK, PegInsPayFee
<1>12. ASSUME NEW id \in DOMAIN pegouts, CompletePegOut(id) PROVE TypeInv'
  <2> DEFINE done == [pegouts[id] EXCEPT !.status = "COMPLETED"]
             batch == SignerBatch(federation, SignedBy(done))
             d == [disk EXCEPT !.pegout = Put(@, id, StoredPegOut(done)),
                               !.pegoutIndex = DOMAIN pegouts,
                               !.signer = PutAll(@, batch)]
  <2>1. done \in PegOutData /\ id \in PegOutIds
    BY SMTT(30) DEF TypeOK, IsMap, PegOutData
  <2>2. pegouts' = [pegouts EXCEPT ![id] = done] /\ ExecuteBatch(d)
    BY <1>12 DEF CompletePegOut
  <2> HIDE DEF done
  <2>3. IsMap(pegouts', PegOutIds, PegOutData)
    BY <2>1, <2>2, UpdateType DEF TypeOK
  <2>4. IsMap(Put(disk.pegout, id, StoredPegOut(done)), PegOutIds, PegOutData)
    BY <2>1, StoredPegOutType, PutType DEF TypeOK
  <2>5. IsMap(PutAll(disk.signer, batch), Signers, SignerData)
    BY SignerBatchType, PutAllType DEF TypeOK
  <2> HIDE DEF batch
  <2>6. DOMAIN pegouts \subseteq PegOutIds
    BY DEF TypeOK, IsMap
  <2>7. DiskOK(d)
    BY <1>a, <2>4, <2>5, <2>6 DEF DiskOK
  <2> HIDE DEF d
  <2>8. DiskOK(disk')
    BY <1>a, <2>2, <2>7, BatchType
  <2>9. stats' \in Stats
    BY <1>12, StatsTypes DEF CompletePegOut, TypeOK, IsMap, PegOutData
  <2> QED
    BY <1>12, <2>1, <2>3, <2>8, <2>9 DEF CompletePegOut, TypeOK, PegInsPayFee, DiskOK
<1>13. CASE ActivateEmergencyMode \/ DeactivateEmergencyMode
  BY <1>13 DEF ActivateEmergencyMode, DeactivateEmergencyMode, TypeOK, PegInsPayFee
<1>14. CASE Tick
  <2>1. clock' \in 0 .. MaxClock /\ l2Height' \in 0 .. clock'
    BY <1>14, BoundAssumption DEF Tick, TypeOK
  <2> QED BY <1>14, <2>1 DEF Tick, TypeOK, PegInsPayFee
<1>15. CASE Restart
  <2>1. IsMap(federation', Signers, SignerData) /\ IsMap(pegouts', PegOutIds, PegOutData)
    BY <1>15 DEF Restart, TypeOK, IsMap
  <2>2. IsMap(pegins', Outpoints, PegInData) /\ PegInsPayFee'
    BY <1>15, EmptyMapType DEF Restart, EmptyMap, PegInsPayFee
  <2>3. stats' \in Stats
    BY <1>15, AmountAssumption DEF Restart, ZeroStats, Stats, UInt64
  <2> QED BY <1>15, <2>1, <2>2, <2>3 DEF Restart, TypeOK
<1>16. CASE UNCHANGED vars
  BY <1>16 DEF vars, TypeOK, PegInsPayFee
<1>17. ASSUME NEW id \in DOMAIN pegouts, NEW s \in Signers, NEW key \in Signers,
              NEW dest \in Dests, NEW h \in Anchors
       PROVE  [key |-> key, payload |-> [id |-> id, dest |-> dest, anchor |-> h]]
                \in Signatures
  BY DEF Signatures, Payloads, TypeOK, IsMap
<1>18. CASE FederationNext
  BY <1>18, <1>1, <1>2, <1>3 DEF FederationNext
<1>19. CASE PegInNext
  BY <1>19, <1>4, <1>5, <1>6, <1>7 DEF PegInNext
<1>20. CASE PegOutNext
  BY <1>20, <1>8, <1>9, <1>10, <1>11, <1>12, <1>17 DEF PegOutNext
<1> QED
  BY <1>13, <1>14, <1>15, <1>16, <1>18, <1>19, <1>20 DEF Next

\* The bridge keeps its types: all amounts stay uint64_t, every record in memory
\* and on disk is well formed.
THEOREM TypeCorrect == Spec => []TypeOK
<1>1. Spec => []TypeInv
  BY TypeInit, TypeNext, PTL DEF Spec
<1> QED BY <1>1, PTL DEF TypeInv

-----------------------------------------------------------------------------
(* Release safety.                                                         *)
(*                                                                         *)
(* A peg-out leaves BURN_INITIATED only after an L2 block, hence after the *)
(* second its id was made in: an id that can be signed or was released is  *)
(* never made again.  That is what keeps a colliding request from          *)
(* reopening a released peg-out or inheriting its signatures.              *)

SignedOver(id, pegout) ==
  \A s \in SignedBy(pegout) :
    pegout.signatures[s] = [key |-> s, payload |-> [id |-> id, dest |-> pegout.dest,
                                                    anchor |-> pegout.anchor]]

WellTimed(id, pegout, now, height) ==
  /\ id.time <= now
  /\ pegout.openedAt <= height
  /\ height - pegout.openedAt <= now - id.time
  /\ pegout.status # "BURN_INITIATED" => id.time < now

Settled(id, pegout, done) ==
  /\ id \in done <=> pegout.status = "COMPLETED"
  /\ id \in done => Cardinality(SignedBy(pegout)) >= FEDERATION_THRESHOLD

PegOutSound(id, pegout, now, height, done) ==
  /\ SignedOver(id, pegout)
  /\ WellTimed(id, pegout, now, height)
  /\ Settled(id, pegout, done)

\* What is stored about a completed peg-out, if every batch succeeds.
Durable(id) ==
  /\ id \in DOMAIN disk.pegout
  /\ id \in disk.pegoutIndex
  /\ disk.pegout[id].dest = pegouts[id].dest
  /\ disk.pegout[id].signatures = pegouts[id].signatures

ReleaseInv ==
  /\ \A id \in DOMAIN pegouts : PegOutSound(id, pegouts[id], clock, l2Height, released)
  /\ \A id \in DOMAIN disk.pegout :
       /\ PegOutSound(id, disk.pegout[id], clock, l2Height, released)
       /\ disk.pegout[id].status = "COMPLETED"
  /\ \A id \in released : id.time < clock

DurableInv ==
  \A id \in DOMAIN pegouts : pegouts[id].status = "COMPLETED" => Durable(id)

LEMMA ReleaseInit == Init => ReleaseInv
BY DEF Init, EmptyMap, ReleaseInv

\* Steps that leave the peg-outs, in memory and on disk, and the clock alone.
LEMMA ReleaseFrame ==
  ASSUME ReleaseInv, UNCHANGED <<pegouts, clock, l2Height, released>>,
         disk'.pegout = disk.pegout
  PROVE  ReleaseInv'
BY DEF ReleaseInv

LEMMA ReleaseNext == TypeOK /\ ReleaseInv /\ [Next]_vars => ReleaseInv'
<1> SUFFICES ASSUME TypeOK, ReleaseInv, [Next]_vars PROVE ReleaseInv'
  OBVIOUS
<1>1. CASE FederationNext
  <2> PICK s \in Signers : AddFederationSigner(s) \/ RemoveSigner(s) \/ MissSignature(s)
    BY <1>1 DEF FederationNext
  <2>1. disk'.pegout = disk.pegout
    BY DEF AddFederationSigner, RemoveSigner, MissSignature, ExecuteBatch, TypeOK
  <2>2. UNCHANGED <<pegouts, clock, l2Height, released>>
    BY DEF AddFederationSigner, RemoveSigner, MissSignature
  <2> QED BY <2>1, <2>2, ReleaseFrame
<1>2. CASE PegInNext
  <2>1. UNCHANGED <<pegouts, clock, l2Height, released, disk>>
    BY <1>2 DEF PegInNext, InitiatePegIn, SubmitSPVProof, UpdatePegInConfirmations,
                CompletePegInMint
  <2> QED BY <2>1, ReleaseFrame
<1>3. ASSUME NEW h \in Anchors, RegisterAnchorCommitment(h) PROVE ReleaseInv'
  BY <1>3, ReleaseFrame DEF RegisterAnchorCommitment
<1>4. ASSUME NEW source \in Sources, NEW dest \in Dests, NEW amount \in Amounts,
             NEW h \in Anchors, InitiatePegOut(source, dest, amount, h)
      PROVE  ReleaseInv'
  <2> DEFINE id == [source |-> source, amount |-> amount, time |-> clock]
             new == [dest |-> dest, anchor |-> h, burn |-> amount,
                     confirmations |-> 0, openedAt |-> l2Height,
                     status |-> "BURN_INITIATED",
                     signatures |-> [s \in Signers |-> NoSignature]]
  <2>1. pegouts' = Put(pegouts, id, new) /\ UNCHANGED <<disk, clock, l2Height, released>>
    BY <1>4 DEF InitiatePegOut
  <2>2. id \notin released
    BY DEF ReleaseInv, TypeOK
  <2>3. SignedBy(new) = {}
    BY DEF SignedBy
  <2>4. PegOutSound(id, new, clock, l2Height, released)
    BY <2>2, <2>3 DEF PegOutSound, SignedOver, WellTimed, Settled, TypeOK
  <2> HIDE DEF id, new
  <2>5. \A i \in DOMAIN pegouts' : PegOutSound(i, pegouts'[i], clock', l2Height', released')
    BY <2>1, <2>4 DEF Put, ReleaseInv
  <2> QED BY <2>1, <2>5 DEF ReleaseInv
<1>5. ASSUME NEW id \in DOMAIN pegouts, NEW burnHeight \in 0 .. l2Height,
             UpdatePegOutConfirmations(id, burnHeight)
      PROVE  ReleaseInv'
  <2> DEFINE n == Confirmations(burnHeight, l2Height)
  <2>1. UNCHANGED <<disk, clock, l2Height, released>>
    BY <1>5 DEF UpdatePegOutConfirmations
  <2>2. pegouts[id] \in PegOutData /\ id \in PegOutIds
    BY DEF TypeOK, IsMap
  <2>3. n >= MIN_CONFIRMATIONS_PEGOUT => id.time < clock
    BY <1>5, <2>2, ConfirmationAssumption
    DEF UpdatePegOutConfirmations, Confirmations, ReleaseInv, PegOutSound, WellTimed,
        TypeOK, PegOutData, PegOutIds
  <2>4. /\ DOMAIN pegouts' = DOMAIN pegouts
        /\ \A i \in DOMAIN pegouts : i # id => pegouts'[i] = pegouts[i]
    BY <1>5 DEF UpdatePegOutConfirmations
  <2>5. /\ pegouts'[id].dest = pegouts[id].dest
        /\ pegouts'[id].anchor = pegouts[id].anchor
        /\ pegouts'[id].openedAt = pegouts[id].openedAt
        /\ pegouts'[id].signatures = pegouts[id].signatures
    BY <1>5, <2>2 DEF UpdatePegOutConfirmations, PegOutData
  <2>6. \/ pegouts'[id].status = pegouts[id].status
        \/ /\ pegouts[id].status = "BURN_INITIATED"
           /\ pegouts'[id].status = "PENDING_PEGOUT"
           /\ id.time < clock
    BY <1>5, <2>2, <2>3 DEF UpdatePegOutConfirmations, PegOutData
  <2>7. PegOutSound(id, pegouts'[id], clock', l2Height', released')
    BY <2>1, <2>5, <2>6 DEF ReleaseInv, PegOutSound, SignedOver, SignedBy, WellTimed, Settled
  <2>8. \A i \in DOMAIN pegouts' : PegOutSound(i, pegouts'[i], clock', l2Height', released')
    BY <2>1, <2>4, <2>7 DEF ReleaseInv
  <2> QED BY <2>1, <2>8 DEF ReleaseInv
<1>6. ASSUME NEW id \in DOMAIN pegouts, NEW s \in Signers, NEW signature,
             SignPegOut(id, s, signature),
             signature = [key |-> signature.key, payload |-> signature.payload]
      PROVE  ReleaseInv'
  <2>1. UNCHANGED <<disk, clock, l2Height, released>>
    BY <1>6 DEF SignPegOut
  <2>2. pegouts[id] \in PegOutData /\ id \in PegOutIds
    BY DEF TypeOK, IsMap
  <2>3. /\ DOMAIN pegouts' = DOMAIN pegouts
        /\ \A i \in DOMAIN pegouts : i # id => pegouts'[i] = pegouts[i]
    BY <1>6 DEF SignPegOut
  <2>4. /\ pegouts'[id].dest = pegouts[id].dest
        /\ pegouts'[id].anchor = pegouts[id].anchor
        /\ pegouts'[id].openedAt = pegouts[id].openedAt
        /\ pegouts'[id].status = pegouts[id].status
        /\ pegouts[id].status = "PENDING_PEGOUT"
        /\ pegouts'[id].signatures = [pegouts[id].signatures EXCEPT ![s] = signature]
    BY <1>6, <2>2 DEF SignPegOut, PegOutData
  <2>5. signature = [key |-> s, payload |-> [id |-> id, dest |-> pegouts[id].dest,
                                             anchor |-> pegouts[id].anchor]]
    BY <1>6 DEF SignPegOut, VerifyPegOutSignature, PayloadOf
  <2>6. /\ SignedOver(id, pegouts[id])
        /\ WellTimed(id, pegouts[id], clock, l2Height)
        /\ Settled(id, pegouts[id], released)
    BY DEF ReleaseInv, PegOutSound
  <2>7. SignedOver(id, pegouts'[id])
    BY <2>2, <2>4, <2>5, <2>6 DEF SignedOver, SignedBy, PegOutData
  <2>8. WellTimed(id, pegouts'[id], clock', l2Height') /\ Settled(id, pegouts'[id], released')
    BY <2>1, <2>4, <2>6 DEF WellTimed, Settled
  <2>9. \A i \in DOMAIN pegouts' : PegOutSound(i, pegouts'[i], clock', l2Height', released')
    BY <2>1, <2>3, <2>7, <2>8 DEF ReleaseInv, PegOutSound
  <2> QED BY <2>1, <2>9 DEF ReleaseInv
<1>7. ASSUME NEW id \in DOMAIN pegouts, CompletePegOut(id) PROVE ReleaseInv'
  <2> DEFINE done == [pegouts[id] EXCEPT !.status = "COMPLETED"]
  <2>1. UNCHANGED <<clock, l2Height>> /\ released' = released \cup {id}
    BY <1>7 DEF CompletePegOut
  <2>2. pegouts[id] \in PegOutData /\ id \in PegOutIds
    BY DEF TypeOK, IsMap
  <2>3. /\ done \in PegOutData /\ done.status = "COMPLETED"
        /\ done.dest = pegouts[id].dest /\ done.anchor = pegouts[id].anchor
        /\ done.openedAt = pegouts[id].openedAt
        /\ done.signatures = pegouts[id].signatures
    BY <2>2 DEF PegOutData
  <2>4. /\ pegouts' = [pegouts EXCEPT ![id] = done]
        /\ pegouts[id].status = "PENDING_PEGOUT"
        /\ Cardinality(SignedBy(pegouts[id])) >= FEDERATION_THRESHOLD
    BY <1>7 DEF CompletePegOut
  <2>5. disk'.pegout = disk.pegout \/ disk'.pegout = Put(disk.pegout, id, StoredPegOut(done))
    BY <1>7 DEF CompletePegOut, ExecuteBatch, TypeOK
  <2> HIDE DEF done
  <2>6. /\ SignedBy(done) = SignedBy(pegouts[id])
        /\ SignedBy(StoredPegOut(done)) = SignedBy(pegouts[id])
    BY <2>3, StoredPegOutType DEF SignedBy
  <2>7. /\ SignedOver(id, pegouts[id])
        /\ WellTimed(id, pegouts[id], clock, l2Height)
        /\ id.time < clock
    BY <2>4 DEF ReleaseInv, PegOutSound, WellTimed
  <2>8. /\ PegOutSound(id, done, clock', l2Height', released')
        /\ PegOutSound(id, StoredPegOut(done), clock', l2Height', released')
    <3>1. ASSUME NEW q, q.status = "COMPLETED", q.dest = pegouts[id].dest,
                 q.anchor = pegouts[id].anchor, q.openedAt = pegouts[id].openedAt,
                 q.signatures = pegouts[id].signatures
          PROVE  SignedOver(id, q)
      BY <3>1, <2>7 DEF SignedOver, SignedBy
    <3>2. SignedOver(id, done) /\ SignedOver(id, StoredPegOut(done))
      BY <3>1, <2>3, StoredPegOutType
    <3>3. /\ WellTimed(id, done, clock, l2Height)
          /\ WellTimed(id, StoredPegOut(done), clock, l2Height)
      BY <2>3, <2>7, StoredPegOutType DEF WellTimed
    <3>4. Settled(id, done, released') /\ Settled(id, StoredPegOut(done), released')
      BY <2>1, <2>3, <2>4, <2>6, StoredPegOutType DEF Settled, SignedBy
    <3> QED BY <3>2, <3>3, <3>4, <2>1 DEF PegOutSound
  <2>9. ASSUME NEW i, NEW q, i # id, PegOutSound(i, q, clock, l2Height, released)
        PROVE  PegOutSound(i, q, clock', l2Height', released')
    BY <2>1, <2>9 DEF PegOutSound, Settled
  <2>10. \A i \in DOMAIN pegouts' : PegOutSound(i, pegouts'[i], clock', l2Height', released')
    BY <2>4, <2>8, <2>9 DEF ReleaseInv
  <2>11. \A i \in DOMAIN disk.pegout :
           i # id => PegOutSound(i, disk.pegout[i], clock', l2Height', released')
    BY <2>9 DEF ReleaseInv
  <2>12. id \notin DOMAIN disk.pegout
    BY <2>4 DEF ReleaseInv, PegOutSound, Settled
  <2>13. \A i \in DOMAIN disk'.pegout :
           /\ PegOutSound(i, disk'.pegout[i], clock', l2Height', released')
           /\ disk'.pegout[i].status = "COMPLETED"
    <3>1. CASE disk'.pegout = disk.pegout
      BY <3>1, <2>11, <2>12 DEF ReleaseInv
    <3>2. CASE disk'.pegout = Put(disk.pegout, id, StoredPegOut(done))
      BY <3>2, <2>3, <2>8, <2>11, StoredPegOutType DEF ReleaseInv, Put
    <3> QED BY <3>1, <3>2, <2>5
  <2>14. \A i \in released' : i.time < clock'
    BY <2>1, <2>7 DEF ReleaseInv
  <2> QED BY <2>10, <2>13, <2>14 DEF ReleaseInv
<1>8. CASE ActivateEmergencyMode \/ DeactivateEmergencyMode
  BY <1>8, ReleaseFrame DEF ActivateEmergencyMode, DeactivateEmergencyMode
<1>9. CASE Tick
  <2>1. UNCHANGED <<pegouts, disk, released>> /\ clock' = clock + 1
        /\ l2Height' \in {l2Height, l2Height + 1}
    BY <1>9 DEF Tick
  <2>2. ASSUME NEW i \in PegOutIds, NEW q \in PegOutData,
               PegOutSound(i, q, clock, l2Height, released)
        PROVE  PegOutSound(i, q, clock', l2Height', released')
    <3>1. WellTimed(i, q, clock', l2Height')
      BY <2>1, <2>2 DEF PegOutSound, WellTimed, TypeOK, PegOutIds, PegOutData
    <3> QED BY <3>1, <2>1, <2>2 DEF PegOutSound
  <2>3. \A i \in DOMAIN pegouts : PegOutSound(i, pegouts[i], clock', l2Height', released')
    BY <2>2 DEF ReleaseInv, TypeOK, IsMap
  <2>4. \A i \in DOMAIN disk.pegout : PegOutSound(i, disk.pegout[i], clock', l2Height', released')
    BY <2>2 DEF ReleaseInv, TypeOK, IsMap
  <2>5. \A i \in released' : i.time < clock'
    BY <2>1 DEF ReleaseInv, TypeOK, PegOutIds
  <2> QED BY <2>1, <2>3, <2>4, <2>5 DEF ReleaseInv
<1>10. CASE Restart
  <2>1. UNCHANGED <<disk, clock, l2Height, released>>
    BY <1>10 DEF Restart
  <2>2. pegouts' = [id \in disk.pegoutIndex \cap DOMAIN disk.pegout |-> disk.pegout[id]]
    BY <1>10 DEF Restart
  <2>3. \A i \in DOMAIN pegouts' : PegOutSound(i, pegouts'[i], clock', l2Height', released')
    BY <2>1, <2>2 DEF ReleaseInv
  <2> QED BY <2>1, <2>3 DEF ReleaseInv
<1>11. CASE UNCHANGED vars
  BY <1>11, ReleaseFrame DEF vars
<1>12. CASE PegOutNext
  BY <1>12, <1>3, <1>4, <1>5, <1>6, <1>7 DEF PegOutNext
<1> QED
  BY <1>1, <1>2, <1>8, <1>9, <1>10, <1>11, <1>12 DEF Next

LEMMA ReleaseInvariant == Spec => [](TypeOK /\ ReleaseInv)
<1>1. Init => TypeInv /\ ReleaseInv
  BY TypeInit, ReleaseInit
<1>2. (TypeInv /\ ReleaseInv) /\ [Next]_vars => (TypeInv /\ ReleaseInv)'
  BY TypeNext, ReleaseNext DEF TypeInv
<1>3. TypeInv => TypeOK
  BY DEF TypeInv
<1> QED BY <1>1, <1>2, <1>3, PTL DEF Spec

\* No signature a peg-out carries was made for another destination, anchor or
\* request, and none is filed under a key that did not make it.
THEOREM SignaturesSound == Spec => []SignaturesOverRecord
<1>1. ReleaseInv => SignaturesOverRecord
  BY DEF ReleaseInv, PegOutSound, SignedOver, SignaturesOverRecord
<1> QED BY <1>1, ReleaseInvariant, PTL

\* A peg-out is released at most once, whether or not the batches reach the disk.
THEOREM ReleasedOnce == Spec => []ReleasedStaysClosed
<1>1. ReleaseInv => ReleasedStaysClosed
  BY DEF ReleaseInv, PegOutSound, Settled, ReleasedStaysClosed
<1> QED BY <1>1, ReleaseInvariant, PTL

\* A peg-out is COMPLETED only after a release that a quorum of signers signed.
THEOREM CompletedWithQuorum == Spec => []CompletedHasQuorum
<1>1. ReleaseInv => CompletedHasQuorum
  BY DEF ReleaseInv, PegOutSound, Settled, CompletedHasQuorum
<1> QED BY <1>1, ReleaseInvariant, PTL

-----------------------------------------------------------------------------
(* Durability of completed peg-outs.                                       *)

LEMMA DurableNext ==
  ASSUME BatchOutcomes = {TRUE}, TypeOK, ReleaseInv, DurableInv, [Next]_vars
  PROVE  /\ DurableInv'
         /\ \A id \in DOMAIN pegouts :
              pegouts[id].status = "COMPLETED" =>
                /\ id \in DOMAIN pegouts'
                /\ pegouts'[id].status = "COMPLETED"
                /\ pegouts'[id].dest = pegouts[id].dest
                /\ pegouts'[id].signatures = pegouts[id].signatures
<1> DEFINE Kept == \A id \in DOMAIN pegouts :
              pegouts[id].status = "COMPLETED" =>
                /\ id \in DOMAIN pegouts'
                /\ pegouts'[id].status = "COMPLETED"
                /\ pegouts'[id].dest = pegouts[id].dest
                /\ pegouts'[id].signatures = pegouts[id].signatures
<1>a. ASSUME UNCHANGED pegouts, disk'.pegout = disk.pegout,
             disk'.pegoutIndex = disk.pegoutIndex
      PROVE  DurableInv' /\ Kept
  BY <1>a DEF DurableInv, Durable
<1>b. ASSUME UNCHANGED disk, NEW id, DOMAIN pegouts' = DOMAIN pegouts \cup {id},
             pegouts'[id].status # "COMPLETED",
             id \in DOMAIN pegouts => pegouts[id].status # "COMPLETED",
             \A i \in DOMAIN pegouts : i # id => pegouts'[i] = pegouts[i]
      PROVE  DurableInv' /\ Kept
  BY <1>b DEF DurableInv, Durable
<1>1. CASE FederationNext
  <2> PICK s \in Signers : AddFederationSigner(s) \/ RemoveSigner(s) \/ MissSignature(s)
    BY <1>1 DEF FederationNext
  <2>1. disk'.pegout = disk.pegout /\ disk'.pegoutIndex = disk.pegoutIndex
    BY DEF AddFederationSigner, RemoveSigner, MissSignature, ExecuteBatch, TypeOK
  <2>2. UNCHANGED pegouts
    BY DEF AddFederationSigner, RemoveSigner, MissSignature
  <2> QED BY <2>1, <2>2, <1>a
<1>2. CASE PegInNext
  <2>1. UNCHANGED <<pegouts, disk>>
    BY <1>2 DEF PegInNext, InitiatePegIn, SubmitSPVProof, UpdatePegInConfirmations,
                CompletePegInMint
  <2> QED BY <2>1, <1>a
<1>3. ASSUME NEW h \in Anchors, RegisterAnchorCommitment(h) PROVE DurableInv' /\ Kept
  BY <1>3, <1>a DEF RegisterAnchorCommitment
<1>4. ASSUME NEW source \in Sources, NEW dest \in Dests, NEW amount \in Amounts,
             NEW h \in Anchors, InitiatePegOut(source, dest, amount, h)
      PROVE  DurableInv' /\ Kept
  <2> DEFINE id == [source |-> source, amount |-> amount, time |-> clock]
  <2>1. UNCHANGED disk /\ DOMAIN pegouts' = DOMAIN pegouts \cup {id}
    BY <1>4 DEF InitiatePegOut, Put
  <2>2. pegouts'[id].status # "COMPLETED"
    BY <1>4 DEF InitiatePegOut, Put
  <2>3. \A i \in DOMAIN pegouts : i # id => pegouts'[i] = pegouts[i]
    BY <1>4 DEF InitiatePegOut, Put
  <2>4. id \in DOMAIN pegouts => pegouts[id].status # "COMPLETED"
    BY DEF ReleaseInv, PegOutSound, Settled, TypeOK
  <2> HIDE DEF id
  <2> QED BY <2>1, <2>2, <2>3, <2>4, <1>b
<1>5. ASSUME NEW id \in DOMAIN pegouts, NEW burnHeight \in 0 .. l2Height,
             UpdatePegOutConfirmations(id, burnHeight)
      PROVE  DurableInv' /\ Kept
  <2>1. pegouts[id] \in PegOutData
    BY DEF TypeOK, IsMap
  <2>2. /\ UNCHANGED disk /\ DOMAIN pegouts' = DOMAIN pegouts
        /\ \A i \in DOMAIN pegouts : i # id => pegouts'[i] = pegouts[i]
    BY <1>5 DEF UpdatePegOutConfirmations
  <2>3. /\ pegouts'[id].dest = pegouts[id].dest
        /\ pegouts'[id].signatures = pegouts[id].signatures
        /\ pegouts'[id].status = "COMPLETED" <=> pegouts[id].status = "COMPLETED"
    BY <1>5, <2>1 DEF UpdatePegOutConfirmations, PegOutData
  <2> QED BY <2>2, <2>3 DEF DurableInv, Durable
<1>6. ASSUME NEW id \in DOMAIN pegouts, NEW s \in Signers, NEW signature,
             SignPegOut(id, s, signature)
      PROVE  DurableInv' /\ Kept
  <2>1. pegouts[id] \in PegOutData
    BY DEF TypeOK, IsMap
  <2>2. /\ UNCHANGED disk /\ DOMAIN pegouts' = DOMAIN pegouts
        /\ \A i \in DOMAIN pegouts : i # id => pegouts'[i] = pegouts[i]
        /\ pegouts[id].status = "PENDING_PEGOUT"
    BY <1>6 DEF SignPegOut
  <2>3. pegouts'[id].status = "PENDING_PEGOUT"
    BY <1>6, <2>1, <2>2 DEF SignPegOut, PegOutData
  <2> QED BY <2>2, <2>3, <1>b
<1>7. ASSUME NEW id \in DOMAIN pegouts, CompletePegOut(id) PROVE DurableInv' /\ Kept
  <2> DEFINE done == [pegouts[id] EXCEPT !.status = "COMPLETED"]
  <2>1. done \in PegOutData /\ pegouts[id].status = "PENDING_PEGOUT"
    BY SMTT(30), <1>7 DEF CompletePegOut, TypeOK, IsMap, PegOutData
  <2>2. pegouts' = [pegouts EXCEPT ![id] = done]
    BY <1>7 DEF CompletePegOut
  <2>3. /\ disk'.pegout = Put(disk.pegout, id, StoredPegOut(done))
        /\ disk'.pegoutIndex = DOMAIN pegouts
    BY <1>7 DEF CompletePegOut, ExecuteBatch, TypeOK
  <2> HIDE DEF done
  <2>4. Durable(id)'
    BY <2>1, <2>2, <2>3, StoredPegOutType DEF Durable, Put
  <2>5. \A i \in DOMAIN pegouts : i # id /\ Durable(i) => Durable(i)'
    BY <2>2, <2>3 DEF Durable, Put
  <2> QED BY <2>1, <2>2, <2>4, <2>5 DEF DurableInv
<1>8. CASE ActivateEmergencyMode \/ DeactivateEmergencyMode \/ Tick \/ UNCHANGED vars
  BY <1>8, <1>a DEF ActivateEmergencyMode, DeactivateEmergencyMode, Tick, vars
<1>9. CASE Restart
  <2>1. pegouts' = [id \in disk.pegoutIndex \cap DOMAIN disk.pegout |-> disk.pegout[id]]
        /\ UNCHANGED disk
    BY <1>9 DEF Restart
  <2>2. DurableInv'
    BY <2>1 DEF DurableInv, Durable
  <2>3. Kept
    BY <2>1 DEF DurableInv, Durable, ReleaseInv
  <2> QED BY <2>2, <2>3
<1>10. CASE PegOutNext
  BY <1>10, <1>3, <1>4, <1>5, <1>6, <1>7 DEF PegOutNext
<1> QED
  BY <1>1, <1>2, <1>8, <1>9, <1>10 DEF Next

\* If every batch reaches the disk, no step and no restart loses or alters a
\* completed peg-out.
THEOREM CompletedSurvives ==
  ASSUME BatchOutcomes = {TRUE}
  PROVE  Spec => CompletedIsFinal
<1> DEFINE Final == \A id \in DOMAIN pegouts :
              pegouts[id].status = "COMPLETED" =>
                /\ id \in DOMAIN pegouts'
                /\ pegouts'[id].status = "COMPLETED"
                /\ pegouts'[id].dest = pegouts[id].dest
                /\ pegouts'[id].signatures = pegouts[id].signatures
<1>1. Init => DurableInv
  BY DEF Init, EmptyMap, DurableInv
<1>2. TypeOK /\ ReleaseInv /\ DurableInv /\ [Next]_vars => DurableInv' /\ Final
  BY DurableNext
<1>3. (TypeOK /\ ReleaseInv /\ DurableInv /\ [Next]_vars) => [Final]_vars
  BY <1>2
<1> HIDE DEF Final
<1>4. Spec => []DurableInv
  BY <1>1, <1>2, ReleaseInvariant, PTL DEF Spec
<1>5. Spec => [][Final]_vars
  BY <1>3, <1>4, ReleaseInvariant, PTL DEF Spec
<1> QED BY <1>5 DEF CompletedIsFinal, Final

-----------------------------------------------------------------------------
(* Reputation.                                                             *)

LEMMA ProductMonotone ==
  ASSUME NEW x \in Nat, NEW y \in Nat, NEW z \in Nat, y <= z
  PROVE  x * y <= x * z /\ x * (y + 1) = x * y + x /\ x * y \in Nat
OBVIOUS

\* The four ways a signer's record comes about keep it sound: the penalty of an
\* active signer is paid from what RepMax leaves after its earlier misses.
LEMMA SignerSound ==
  ASSUME NEW signer \in SignerData, SoundReputation(signer)
  PROVE  /\ SoundReputation(RecordSignature(signer))
         /\ SoundReputation(RecordMissedSignature(signer))
         /\ SoundReputation(StoredSigner(signer))
<1> DEFINE m == signer.missed
           missed == RecordMissedSignature(signer)
           stored == StoredSigner(signer)
<1>1. /\ RepMax \in Nat /\ RepPenalty \in Nat /\ MissedLimit \in Nat
      /\ RepPenalty * MissedLimit <= RepMax /\ m \in Nat /\ W \in Nat
      /\ MissedLimit < W /\ RepMax < W
  BY FederationAssumption, AmountAssumption DEF SignerData, UInt64
<1>2. RepPenalty * m \in Nat
  BY <1>1, ProductMonotone
<1>3. SoundReputation(RecordSignature(signer))
  <2>1. RecordSignature(signer).active = signer.active
        /\ RecordSignature(signer).missed = signer.missed
        /\ RecordSignature(signer).reputation =
             (IF signer.reputation < RepMax THEN signer.reputation + 1 ELSE signer.reputation)
    BY DEF SignerData, RecordSignature
  <2> QED BY <2>1, <1>1, <1>2 DEF SoundReputation, SignerData, UInt64
<1>4. SoundReputation(missed)
  <2> SUFFICES ASSUME missed.active PROVE /\ missed.missed < MissedLimit
              /\ missed.reputation \in (RepMax - RepPenalty * missed.missed) .. RepMax
    BY DEF SoundReputation
  <2>1. signer.active /\ Add64(m, 1) < MissedLimit /\ missed.missed = Add64(m, 1)
        /\ missed.reputation = Sub64(signer.reputation, RepPenalty)
    BY DEF RecordMissedSignature
  <2>2. signer.reputation \in (RepMax - RepPenalty * m) .. RepMax /\ m < MissedLimit
    BY <2>1 DEF SoundReputation
  <2>3. Add64(m, 1) = m + 1
    BY <1>1, <2>2 DEF Add64
  <2>4. RepPenalty * (m + 1) = RepPenalty * m + RepPenalty
        /\ RepPenalty * (m + 1) <= RepPenalty * MissedLimit
    BY <1>1, <2>2, ProductMonotone
  <2> DEFINE pm == RepPenalty * m
             pn == RepPenalty * (m + 1)
             pl == RepPenalty * MissedLimit
  <2>5. pm \in Nat /\ pn = pm + RepPenalty /\ pn <= pl /\ pl <= RepMax
    BY <1>1, <1>2, <2>4
  <2>6. signer.reputation \in (RepMax - pm) .. RepMax
    BY <2>2
  <2> HIDE DEF pm, pn, pl
  <2>7. pn \in Nat /\ pl \in Nat
    BY <1>1, <2>5, ProductMonotone DEF pl
  <2>8. signer.reputation >= RepPenalty
    BY <1>1, <2>5, <2>6, <2>7
  <2>9. missed.reputation = signer.reputation - RepPenalty
    BY <2>1, <2>8, <1>1, <2>6 DEF Sub64
  <2>10. missed.reputation \in (RepMax - pn) .. RepMax
    BY <2>9, <2>5, <2>6, <2>7, <2>8, <1>1
  <2> QED BY <2>10, <2>1, <2>3 DEF pn
<1>5. SoundReputation(stored)
  <2>1. stored.active = signer.active
        /\ stored.missed = JsonNum(signer.missed)
        /\ stored.reputation = JsonNum(signer.reputation)
    BY DEF SignerData, StoredSigner
  <2>2. CASE ~signer.active
    BY <2>1, <2>2 DEF SoundReputation
  <2>3. CASE signer.active
    <3>1. signer.missed \in 0 .. RepMax + MissedLimit
          /\ signer.reputation \in 0 .. RepMax + MissedLimit
      BY <2>3, <1>1, <1>2 DEF SoundReputation, SignerData, UInt64
    <3> QED BY <3>1, <2>1, JsonAssumption DEF SoundReputation
  <2> QED BY <2>2, <2>3 
<1> QED BY <1>3, <1>4, <1>5

LEMMA NewSignerSound == SoundReputation(NewSigner)
BY FederationAssumption DEF SoundReputation, NewSigner

LEMMA ReputationNext ==
  TypeOK /\ ActiveReputationSound /\ [Next]_vars => ActiveReputationSound'
<1> SUFFICES ASSUME TypeOK, ActiveReputationSound, [Next]_vars
             PROVE  ActiveReputationSound'
  OBVIOUS
<1>a. ASSUME UNCHANGED federation, disk'.signer = disk.signer
      PROVE  ActiveReputationSound'
  BY <1>a DEF ActiveReputationSound
<1>b. ASSUME NEW signers, IsMap(signers, Signers, SignerData),
             \A s \in DOMAIN signers : SoundReputation(signers[s]), NEW ids
      PROVE  \A s \in DOMAIN PutAll(disk.signer, SignerBatch(signers, ids)) :
               SoundReputation(PutAll(disk.signer, SignerBatch(signers, ids))[s])
  <2>1. \A s \in DOMAIN SignerBatch(signers, ids) :
          SoundReputation(SignerBatch(signers, ids)[s])
    BY <1>b, SignerSound DEF SignerBatch, IsMap
  <2> QED BY <2>1 DEF PutAll, ActiveReputationSound
<1>1. ASSUME NEW s \in Signers, AddFederationSigner(s) PROVE ActiveReputationSound'
  <2> DEFINE signer  == IF s \in DOMAIN disk.signer THEN disk.signer[s] ELSE NewSigner
             signers == Put(federation, s, signer)
  <2>1. signer \in SignerData /\ SoundReputation(signer)
    BY NewSignerType, NewSignerSound DEF TypeOK, IsMap, ActiveReputationSound
  <2>2. /\ federation' = signers
        /\ \/ disk'.signer = disk.signer
           \/ disk'.signer = PutAll(disk.signer, SignerBatch(signers, {s}))
    BY <1>1 DEF AddFederationSigner, ExecuteBatch, TypeOK
  <2> HIDE DEF signer
  <2>3. IsMap(signers, Signers, SignerData)
    BY <2>1, PutType DEF TypeOK
  <2>4. \A t \in DOMAIN signers : SoundReputation(signers[t])
    BY <2>1 DEF Put, ActiveReputationSound
  <2> HIDE DEF signers
  <2> QED BY <2>2, <2>3, <2>4, <1>b DEF ActiveReputationSound
<1>2. ASSUME NEW s \in Signers, RemoveSigner(s) PROVE ActiveReputationSound'
  BY <1>2 DEF RemoveSigner, Erase, ActiveReputationSound
<1>3. ASSUME NEW s \in Signers, MissSignature(s) PROVE ActiveReputationSound'
  <2>1. SoundReputation(RecordMissedSignature(federation[s]))
    BY <1>3, SignerSound DEF MissSignature, TypeOK, IsMap, ActiveReputationSound
  <2> QED BY <1>3, <2>1 DEF MissSignature, ActiveReputationSound
<1>4. CASE PegInNext
  <2>1. UNCHANGED <<federation, disk>>
    BY <1>4 DEF PegInNext, InitiatePegIn, SubmitSPVProof, UpdatePegInConfirmations,
                CompletePegInMint
  <2> QED BY <2>1, <1>a
<1>5. ASSUME NEW id \in DOMAIN pegouts, NEW s \in Signers, NEW signature,
             SignPegOut(id, s, signature)
      PROVE  ActiveReputationSound'
  <2>1. s \in DOMAIN federation
    BY <1>5 DEF SignPegOut, ActiveSigners
  <2>2. SoundReputation(RecordSignature(federation[s]))
    BY <2>1, SignerSound DEF TypeOK, IsMap, ActiveReputationSound
  <2> QED BY <1>5, <2>2 DEF SignPegOut, ActiveReputationSound
<1>6. ASSUME NEW id \in DOMAIN pegouts, CompletePegOut(id) PROVE ActiveReputationSound'
  <2> DEFINE ids == SignedBy([pegouts[id] EXCEPT !.status = "COMPLETED"])
  <2>1. /\ UNCHANGED federation
        /\ \/ disk'.signer = disk.signer
           \/ disk'.signer = PutAll(disk.signer, SignerBatch(federation, ids))
    BY <1>6 DEF CompletePegOut, ExecuteBatch, TypeOK
  <2> HIDE DEF ids
  <2>2. IsMap(federation, Signers, SignerData)
    BY DEF TypeOK
  <2> QED BY <2>1, <2>2, <1>b DEF ActiveReputationSound
<1>7. CASE PegOutNext
  <2>1. ASSUME NEW h \in Anchors, RegisterAnchorCommitment(h) PROVE ActiveReputationSound'
    BY <2>1, <1>a DEF RegisterAnchorCommitment
  <2>2. ASSUME NEW source \in Sources, NEW dest \in Dests, NEW amount \in Amounts,
               NEW h \in Anchors, InitiatePegOut(source, dest, amount, h)
        PROVE  ActiveReputationSound'
    BY <2>2, <1>a DEF InitiatePegOut
  <2>3. ASSUME NEW id \in DOMAIN pegouts, NEW burnHeight \in 0 .. l2Height,
               UpdatePegOutConfirmations(id, burnHeight)
        PROVE  ActiveReputationSound'
    BY <2>3, <1>a DEF UpdatePegOutConfirmations
  <2> QED BY <1>7, <1>5, <1>6, <2>1, <2>2, <2>3 DEF PegOutNext
<1>8. CASE ActivateEmergencyMode \/ DeactivateEmergencyMode \/ Tick \/ UNCHANGED vars
  BY <1>8, <1>a DEF ActivateEmergencyMode, DeactivateEmergencyMode, Tick, vars
<1>9. CASE Restart
  BY <1>9 DEF Restart, ActiveReputationSound
<1>10. CASE FederationNext
  BY <1>10, <1>1, <1>2, <1>3 DEF FederationNext
<1> QED
  BY <1>4, <1>7, <1>8, <1>9, <1>10 DEF Next

\* A signer that counts towards the quorum never has a reputation that wrapped
\* around: it is deactivated before its penalties exceed RepMax.
THEOREM ReputationSound == Spec => []ActiveReputationSound
<1>1. Init => ActiveReputationSound
  BY DEF Init, EmptyMap, ActiveReputationSound
<1> QED BY <1>1, ReputationNext, TypeCorrect, PTL DEF Spec

-----------------------------------------------------------------------------
(* The books.  Every amount is a remainder, so the proof is about which    *)
(* numbers differ by a multiple of W.                                      *)

Congruent(x, y) == \E k \in Int : x = y + k * W

LEMMA Division ==
  ASSUME NEW n \in Int, NEW v \in Int, v > 0, NEW q \in Int, NEW r \in Int,
         q = n \div v, r = n % v
  PROVE  n = q * v + r
OBVIOUS

\* A uint64_t is what is left of every number it is congruent to.
LEMMA RemainderCongruent ==
  ASSUME NEW x \in UInt64, NEW n \in Nat
  PROVE  (x = n % W) <=> Congruent(x, n)
<1>1. W \in Int /\ W > 0 /\ W \in Nat \ {0}
  BY AmountAssumption
<1>2. n % W \in 0 .. W - 1 /\ n \div W \in Int
  BY <1>1
<1>3. PICK r \in 0 .. W - 1 : r = n % W
  BY <1>2
<1>4. PICK q \in Int : q = n \div W
  BY <1>2
<1>5. n = q * W + r
  BY <1>1, <1>3, <1>4, Division
<1>6. x \in Int /\ 0 <= x /\ x < W
  BY <1>1 DEF UInt64
<1>7. ASSUME x = r PROVE Congruent(x, n)
  <2>1. -q \in Int /\ x = n + (-q) * W
    BY <1>1, <1>5, <1>6, <1>7
  <2> QED BY <2>1 DEF Congruent
<1>8. ASSUME Congruent(x, n) PROVE x = r
  <2>1. PICK k \in Int : x = n + k * W
    BY <1>8 DEF Congruent
  <2>2. k + q \in Int /\ x = r + (k + q) * W
    BY <1>1, <1>5, <1>6, <2>1
  <2>3. PICK d \in Int : x = r + d * W
    BY <2>2
  <2>4. CASE d >= 1
    <3>1. d * W >= W
      BY <1>1, <2>4
    <3> QED BY <1>1, <1>6, <2>3, <3>1
  <2>5. CASE d <= -1
    <3>1. d * W <= -W
      BY <1>1, <2>5
    <3> QED BY <1>1, <1>6, <2>3, <3>1
  <2>6. CASE d = 0
    BY <1>1, <1>6, <2>3, <2>6
  <2> QED BY <2>4, <2>5, <2>6
<1> QED BY <1>3, <1>7, <1>8

\* Sums and differences of uint64_t keep congruences.
LEMMA CongruentSums ==
  ASSUME NEW x \in UInt64, NEW y \in Int, NEW c \in UInt64, NEW d \in Int,
         Congruent(x, y), Congruent(c, d)
  PROVE  Congruent(Add64(x, c), y + d) /\ Congruent(Sub64(x, c), y - d)
<1>1. W \in Int /\ x \in Int /\ c \in Int
  BY AmountAssumption DEF UInt64
<1>2. PICK k \in Int : x = y + k * W
  BY DEF Congruent
<1>3. PICK l \in Int : c = d + l * W
  BY DEF Congruent
<1>4. PICK i \in {0, -1} : Add64(x, c) = x + c + i * W
  BY <1>1 DEF Add64
<1>5. PICK j \in {0, 1} : Sub64(x, c) = x - c + j * W
  BY <1>1 DEF Sub64
<1>6. k + l + i \in Int /\ x + c + i * W = (y + d) + (k + l + i) * W
  BY <1>1, <1>2, <1>3
<1>7. k - l + j \in Int /\ x - c + j * W = (y - d) + (k - l + j) * W
  BY <1>1, <1>2, <1>3
<1> QED BY <1>4, <1>5, <1>6, <1>7 DEF Congruent

LEMMA CongruentSame ==
  ASSUME NEW x \in Int
  PROVE  Congruent(x, x)
<1>1. x = x + 0 * W
  BY AmountAssumption
<1> QED BY <1>1 DEF Congruent

\* What locked and minted differ by stays congruent when one amount is added to, or
\* taken from, both of them, except for the fee that is not minted.
LEMMA CongruentBooks ==
  ASSUME NEW l \in UInt64, NEW m \in UInt64, NEW p \in Int, Congruent(l, m + p),
         NEW amount \in UInt64
  PROVE  /\ amount >= BRIDGE_FEE =>
              Congruent(Add64(l, amount), Add64(m, amount - BRIDGE_FEE) + (p + BRIDGE_FEE))
         /\ Congruent(Sub64(l, amount), Sub64(m, amount) + p)
<1>1. /\ W \in Int /\ l \in Int /\ m \in Int /\ amount \in Int /\ BRIDGE_FEE \in Int
  BY AmountAssumption DEF UInt64
<1>2. PICK k \in Int : l = m + p + k * W
  BY DEF Congruent
<1>3. ASSUME amount >= BRIDGE_FEE
      PROVE  Congruent(Add64(l, amount), Add64(m, amount - BRIDGE_FEE) + (p + BRIDGE_FEE))
  <2>1. PICK i \in {0, -1} : Add64(l, amount) = l + amount + i * W
    BY <1>1 DEF Add64
  <2>2. PICK j \in {0, -1} : Add64(m, amount - BRIDGE_FEE) = m + (amount - BRIDGE_FEE) + j * W
    BY <1>1 DEF Add64
  <2>3. /\ k + i - j \in Int
        /\ l + amount + i * W
             = (m + (amount - BRIDGE_FEE) + j * W) + (p + BRIDGE_FEE) + (k + i - j) * W
    BY <1>1, <1>2
  <2> QED BY <2>1, <2>2, <2>3 DEF Congruent
<1>4. Congruent(Sub64(l, amount), Sub64(m, amount) + p)
  <2>1. PICK i \in {0, 1} : Sub64(l, amount) = l - amount + i * W
    BY <1>1 DEF Sub64
  <2>2. PICK j \in {0, 1} : Sub64(m, amount) = m - amount + j * W
    BY <1>1 DEF Sub64
  <2>3. /\ k + i - j \in Int
        /\ l - amount + i * W = (m - amount + j * W) + p + (k + i - j) * W
    BY <1>1, <1>2
  <2> QED BY <2>1, <2>2, <2>3 DEF Congruent
<1> QED BY <1>3, <1>4

\* The balances, without remainders.
Balanced(books) ==
  /\ Congruent(books.locked, books.minted + BRIDGE_FEE * books.totalPegins)
  /\ Congruent(books.fees, BRIDGE_FEE * (books.totalPegins + books.totalPegouts))

LEMMA BalancedBooks ==
  ASSUME stats \in Stats
  PROVE  BooksBalance <=> Balanced(stats)
<1>1. /\ stats.locked \in UInt64 /\ stats.fees \in UInt64 /\ stats.minted \in UInt64
      /\ stats.totalPegins \in Nat /\ stats.totalPegouts \in Nat
  BY DEF Stats
<1>2. BRIDGE_FEE \in Nat /\ stats.minted \in Nat
  BY <1>1, AmountAssumption DEF UInt64
<1>3. /\ stats.minted + BRIDGE_FEE * stats.totalPegins \in Nat
      /\ BRIDGE_FEE * (stats.totalPegins + stats.totalPegouts) \in Nat
  BY <1>1, <1>2
<1> QED BY <1>1, <1>3, RemainderCongruent DEF BooksBalance, Balanced

LEMMA RecordsBalanced ==
  ASSUME stats \in Stats, Balanced(stats), NEW amount \in UInt64
  PROVE  /\ amount >= BRIDGE_FEE => Balanced(RecordPegin(amount))
         /\ Balanced(RecordPegout(amount))
<1>1. /\ stats.locked \in UInt64 /\ stats.fees \in UInt64 /\ stats.minted \in UInt64
      /\ stats.totalPegins \in Nat /\ stats.totalPegouts \in Nat
  BY DEF Stats
<1>2. BRIDGE_FEE \in UInt64 /\ BRIDGE_FEE \in Int
  BY AmountAssumption DEF UInt64
<1>3. PICK p \in Int : p = BRIDGE_FEE * stats.totalPegins
  BY <1>1, <1>2
<1>4. PICK t \in Int : t = BRIDGE_FEE * (stats.totalPegins + stats.totalPegouts)
  BY <1>1, <1>2
<1>5. /\ BRIDGE_FEE * (stats.totalPegins + 1) = p + BRIDGE_FEE
      /\ BRIDGE_FEE * ((stats.totalPegins + 1) + stats.totalPegouts) = t + BRIDGE_FEE
      /\ BRIDGE_FEE * (stats.totalPegins + (stats.totalPegouts + 1)) = t + BRIDGE_FEE
  BY <1>1, <1>2, <1>3, <1>4
<1>6. Congruent(stats.locked, stats.minted + p) /\ Congruent(stats.fees, t)
  BY <1>3, <1>4 DEF Balanced
<1>7. Congruent(Add64(stats.fees, BRIDGE_FEE), t + BRIDGE_FEE)
  BY <1>1, <1>2, <1>6, CongruentSums, CongruentSame
<1>8. ASSUME amount >= BRIDGE_FEE PROVE Balanced(RecordPegin(amount))
  <2>1. /\ RecordPegin(amount).totalPegins = stats.totalPegins + 1
        /\ RecordPegin(amount).totalPegouts = stats.totalPegouts
        /\ RecordPegin(amount).locked = Add64(stats.locked, amount)
        /\ RecordPegin(amount).minted = Add64(stats.minted, amount - BRIDGE_FEE)
        /\ RecordPegin(amount).fees = Add64(stats.fees, BRIDGE_FEE)
    BY DEF RecordPegin, Stats
  <2>2. Congruent(Add64(stats.locked, amount),
                  Add64(stats.minted, amount - BRIDGE_FEE) + (p + BRIDGE_FEE))
    BY <1>1, <1>6, <1>8, CongruentBooks
  <2> QED BY <1>5, <1>7, <2>1, <2>2 DEF Balanced
<1>9. Balanced(RecordPegout(amount))
  <2>1. /\ RecordPegout(amount).totalPegins = stats.totalPegins
        /\ RecordPegout(amount).totalPegouts = stats.totalPegouts + 1
        /\ RecordPegout(amount).locked = Sub64(stats.locked, amount)
        /\ RecordPegout(amount).minted = Sub64(stats.minted, amount)
        /\ RecordPegout(amount).fees = Add64(stats.fees, BRIDGE_FEE)
    BY DEF RecordPegout, Stats
  <2>2. Congruent(Sub64(stats.locked, amount), Sub64(stats.minted, amount) + p)
    BY <1>1, <1>6, CongruentBooks
  <2> QED BY <1>3, <1>5, <1>7, <2>1, <2>2 DEF Balanced
<1> QED BY <1>8, <1>9

LEMMA ZeroBalanced == Balanced(ZeroStats)
<1>1. /\ ZeroStats.locked = 0 /\ ZeroStats.minted = 0 /\ ZeroStats.fees = 0
      /\ ZeroStats.totalPegins = 0 /\ ZeroStats.totalPegouts = 0
  BY DEF ZeroStats
<1>2. BRIDGE_FEE \in Int /\ 0 + BRIDGE_FEE * 0 = 0 /\ BRIDGE_FEE * (0 + 0) = 0
  BY AmountAssumption
<1> QED BY <1>1, <1>2, CongruentSame DEF Balanced

LEMMA BooksNext == TypeInv /\ Balanced(stats) /\ [Next]_vars => Balanced(stats)'
<1> SUFFICES ASSUME TypeInv, Balanced(stats), [Next]_vars PROVE Balanced(stats)'
  OBVIOUS
<1>1. ASSUME NEW o \in Outpoints, CompletePegInMint(o) PROVE Balanced(stats')
  <2>1. pegins[o].amount \in UInt64 /\ pegins[o].amount >= BRIDGE_FEE
    BY <1>1 DEF CompletePegInMint, TypeInv, TypeOK, PegInsPayFee, IsMap, PegInData
  <2>2. stats' = RecordPegin(pegins[o].amount) /\ stats \in Stats
    BY <1>1 DEF CompletePegInMint, TypeInv, TypeOK
  <2> QED BY <2>1, <2>2, RecordsBalanced
<1>2. ASSUME NEW id \in DOMAIN pegouts, CompletePegOut(id) PROVE Balanced(stats')
  <2>1. pegouts[id].burn \in UInt64
    BY <1>2 DEF CompletePegOut, TypeInv, TypeOK, IsMap, PegOutData
  <2>2. stats' = RecordPegout(pegouts[id].burn) /\ stats \in Stats
    BY <1>2 DEF CompletePegOut, TypeInv, TypeOK
  <2> QED BY <2>1, <2>2, RecordsBalanced
<1>3. CASE Restart
  BY <1>3, ZeroBalanced DEF Restart
<1>4. CASE UNCHANGED stats
  BY <1>4
<1>5. FederationNext => UNCHANGED stats
  BY DEF FederationNext, AddFederationSigner, RemoveSigner, MissSignature
<1>6. PegInNext => UNCHANGED stats \/ \E o \in Outpoints : CompletePegInMint(o)
  BY DEF PegInNext, InitiatePegIn, SubmitSPVProof, UpdatePegInConfirmations
<1>7. PegOutNext => UNCHANGED stats \/ \E id \in DOMAIN pegouts : CompletePegOut(id)
  BY ZenonT(30), SMTT(30) DEF PegOutNext, RegisterAnchorCommitment, InitiatePegOut, UpdatePegOutConfirmations,
         SignPegOut
<1>8. ActivateEmergencyMode \/ DeactivateEmergencyMode \/ Tick => UNCHANGED stats
  BY DEF ActivateEmergencyMode, DeactivateEmergencyMode, Tick
<1> QED BY <1>1, <1>2, <1>3, <1>4, <1>5, <1>6, <1>7, <1>8 DEF Next, vars

\* The statistics of the bridge agree with each other, modulo 2^64: what is locked is
\* what is minted and the fees of the peg-ins, and the fees are those of the transfers.
THEOREM BooksAreBalanced == Spec => []BooksBalance
<1>1. Init => Balanced(stats)
  BY ZeroBalanced DEF Init
<1>2. TypeInv /\ Balanced(stats) => BooksBalance
  BY BalancedBooks DEF TypeInv, TypeOK
<1> QED BY <1>1, <1>2, TypeInit, TypeNext, BooksNext, PTL DEF Spec
=============================================================================
