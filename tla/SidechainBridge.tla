-------------------------- MODULE SidechainBridge --------------------------
(***************************************************************************)
(* The two-way peg of src/l2/ailee_sidechain_bridge.h: the peg-in and      *)
(* peg-out records, the federation that signs peg-outs, the statistics,    *)
(* what is written to PersistentStorage and what a restarted node reads    *)
(* back.                                                                   *)
(*                                                                         *)
(* A peg-out is identified by a hash of its source, its amount and the     *)
(* second it was initiated in; here by the record of the three.  A         *)
(* signature is the key that made it and the payload it was made over.     *)
(* Amounts are uint64_t: arithmetic is modulo W.                           *)
(***************************************************************************)
EXTENDS Integers, FiniteSets, Maps

CONSTANTS
  Signers,               \* federation signer ids
  Sources, Dests,        \* L2 source and Bitcoin destination addresses
  NoSignature,           \* the absence of a signature
  Anchors,               \* hashes of anchor commitments
  Outpoints,             \* Bitcoin outputs (txid, vout) paying the bridge
  OutpointAmount,        \* what each of them pays, in satoshis
  Amounts,               \* amounts peg-outs ask for, in satoshis
  MIN_PEGIN_AMOUNT, MAX_PEGIN_AMOUNT, BRIDGE_FEE,
  MIN_CONFIRMATIONS_PEGIN, MIN_CONFIRMATIONS_PEGOUT,
  FEDERATION_SIZE, FEDERATION_THRESHOLD,
  RepMax, RepPenalty, MissedLimit,      \* 100, 5 and 10 in the code
  W,                     \* 2^64 in the code
  JsonNum(_),            \* an integer after a JSON round trip (JsonNumber)
  BatchOutcomes,         \* the results executeBatch may have: TRUE, FALSE
  MaxClock, MaxMissed, MaxMinted, MaxBtcHeight   \* bounds for model checking

ASSUME AmountAssumption ==
  /\ Amounts \subseteq 0 .. W - 1
  /\ OutpointAmount \in [Outpoints -> 0 .. W - 1]
  /\ W \in Nat \ {0}
  /\ BRIDGE_FEE \in 0 .. W - 1
  /\ MIN_PEGIN_AMOUNT \in Nat /\ MAX_PEGIN_AMOUNT \in Nat
  /\ BRIDGE_FEE <= MIN_PEGIN_AMOUNT

ASSUME ConfirmationAssumption ==
  /\ MIN_CONFIRMATIONS_PEGIN \in Nat
  /\ MIN_CONFIRMATIONS_PEGOUT \in Nat \ {0}

ASSUME FederationAssumption ==
  /\ IsFiniteSet(Signers)
  /\ FEDERATION_SIZE \in Nat /\ FEDERATION_THRESHOLD \in Nat
  /\ RepMax \in Nat /\ RepPenalty \in Nat /\ MissedLimit \in Nat \ {0}
  /\ RepPenalty * MissedLimit <= RepMax
  /\ RepMax < W /\ MissedLimit < W

ASSUME SignatureAssumption ==
  NoSignature \notin [key : Signers,
                      payload : [id : [source : Sources, amount : Amounts, time : Nat],
                                 dest : Dests, anchor : Anchors]]

ASSUME JsonAssumption ==
  /\ \A n \in 0 .. W - 1 : JsonNum(n) \in 0 .. W - 1
  /\ \A n \in 0 .. RepMax + MissedLimit : JsonNum(n) = n

ASSUME BoundAssumption ==
  /\ BatchOutcomes \subseteq BOOLEAN
  /\ MaxClock \in 0 .. W - 1 /\ MaxMissed \in Nat
  /\ MaxMinted \in Nat /\ MaxBtcHeight \in Nat

VARIABLES
  federation,    \* FederationManager::signers_
  pegins,        \* SidechainBridge::pegins_
  pegouts,       \* SidechainBridge::pegouts_
  anchors,       \* keys of SidechainBridge::anchorCommitments_
  emergencyMode, \* SidechainBridge::emergencyMode_
  stats,         \* BridgeStatistics::stats_
  disk,          \* the bridge/ keys of PersistentStorage
  clock,         \* system_clock, in seconds
  l2Height,      \* height of the L2 chain the burns are confirmed on
  minted,        \* history: what has been minted for each outpoint
  released       \* history: the peg-outs whose release was completed

vars == <<federation, pegins, pegouts, anchors, emergencyMode, stats, disk,
          clock, l2Height, minted, released>>

-----------------------------------------------------------------------------
(* Types.                                                                  *)

UInt64 == 0 .. W - 1

\* Fault: a difference that is not reduced modulo W.
SubSigned(a, b) == a - b

Add64(a, b) == IF a + b < W THEN a + b ELSE a + b - W
Sub64(a, b) == IF a >= b THEN a - b ELSE a - b + W

SignerData == [reputation : UInt64, missed : UInt64, active : BOOLEAN]

PegInData == [amount : UInt64, confirmations : Nat,
              status : {"INITIATED", "PENDING_BTC_CONF", "BTC_CONFIRMED", "MINTED"}]

PegOutIds == [source : Sources, amount : Amounts, time : Nat]

Payloads == [id : PegOutIds, dest : Dests, anchor : Anchors]
Signatures == [key : Signers, payload : Payloads]

\* openedAt is the L2 height when the peg-out was initiated; the code leaves it
\* to the caller to report the height of the burn.
PegOutData == [dest : Dests, anchor : Anchors, burn : UInt64,
               confirmations : UInt64, openedAt : Nat,
               status : {"BURN_INITIATED", "PENDING_PEGOUT", "COMPLETED"},
               signatures : [Signers -> Signatures \cup {NoSignature}]]

Stats == [totalPegins : Nat, totalPegouts : Nat,
          locked : UInt64, minted : UInt64, fees : UInt64]

ZeroStats == [totalPegins |-> 0, totalPegouts |-> 0,
              locked |-> 0, minted |-> 0, fees |-> 0]

-----------------------------------------------------------------------------
(* FederationSigner and FederationManager.                                 *)

NewSigner == [reputation |-> RepMax, missed |-> 0, active |-> TRUE]

RecordSignature(signer) ==
  [signer EXCEPT !.reputation = IF @ < RepMax THEN @ + 1 ELSE @]

\* Fault: the limit is compared with the count before it is incremented.
MissedOneTooMany(signer) ==
  [reputation |-> Sub64(signer.reputation, RepPenalty),
   missed     |-> Add64(signer.missed, 1),
   active     |-> signer.active /\ signer.missed < MissedLimit]

\* reputationScore - 5 is computed in uint64_t before std::max sees it.
RecordMissedSignature(signer) ==
  [reputation |-> Sub64(signer.reputation, RepPenalty),
   missed     |-> Add64(signer.missed, 1),
   active     |-> signer.active /\ Add64(signer.missed, 1) < MissedLimit]

ActiveSigners(signers) == {s \in DOMAIN signers : signers[s].active}

HasQuorum == Cardinality(ActiveSigners(federation)) >= FEDERATION_THRESHOLD

-----------------------------------------------------------------------------
(* The conversions to_json/from_json and the batches written to storage.   *)

StoredSigner(signer) ==
  [signer EXCEPT !.reputation = JsonNum(@), !.missed = JsonNum(@)]

StoredPegOut(pegout) ==
  [pegout EXCEPT !.burn = JsonNum(@), !.confirmations = JsonNum(@)]

\* executeBatch is atomic; its result is ignored by every caller.
ExecuteBatch(newDisk) ==
  \E ok \in BatchOutcomes : disk' = IF ok THEN newDisk ELSE disk

\* The records of the signers with the given ids, as a batch writes them.
SignerBatch(signers, ids) ==
  [s \in ids \cap DOMAIN signers |-> StoredSigner(signers[s])]

-----------------------------------------------------------------------------
(* Federation management.                                                  *)

\* A signer that is already on disk comes back as it was last stored, whatever
\* it is in memory.  Only the active signers are listed in the index.
AddFederationSigner(s) ==
  LET signer  == IF s \in DOMAIN disk.signer THEN disk.signer[s] ELSE NewSigner
      signers == Put(federation, s, signer)
  IN /\ Cardinality(DOMAIN federation) < FEDERATION_SIZE
     /\ federation' = signers
     /\ ExecuteBatch([disk EXCEPT
                        !.signer = PutAll(@, SignerBatch(signers, {s})),
                        !.signerIndex = ActiveSigners(signers)])
     /\ UNCHANGED <<pegins, pegouts, anchors, emergencyMode, stats, clock,
                    l2Height, minted, released>>

\* getFederation()->removeSigner(id): nothing is persisted.
RemoveSigner(s) ==
  /\ s \in DOMAIN federation
  /\ federation' = Erase(federation, s)
  /\ UNCHANGED <<pegins, pegouts, anchors, emergencyMode, stats, disk, clock,
                 l2Height, minted, released>>

\* getSigner(id)->recordMissedSignature(): nothing is persisted.
MissSignature(s) ==
  /\ s \in DOMAIN federation
  /\ federation[s].missed < MaxMissed
  /\ federation' = [federation EXCEPT ![s] = RecordMissedSignature(@)]
  /\ UNCHANGED <<pegins, pegouts, anchors, emergencyMode, stats, disk, clock,
                 l2Height, minted, released>>

-----------------------------------------------------------------------------
(* Peg-in.                                                                 *)

\* Called for every rawtx notification that pays the bridge; Bitcoin Core sends
\* one when the transaction enters its mempool and one when it is mined.  The
\* peg id depends on the outpoint alone, so a second call overwrites the record.
InitiatePegIn(o) ==
  /\ OutpointAmount[o] \in MIN_PEGIN_AMOUNT .. MAX_PEGIN_AMOUNT
  /\ pegins' = Put(pegins, o, [amount |-> OutpointAmount[o], confirmations |-> 0,
                               status |-> "INITIATED"])
  /\ UNCHANGED <<federation, pegouts, anchors, emergencyMode, stats, disk,
                 clock, l2Height, minted, released>>

\* A proof that verifies is attached whatever the status is.
SubmitSPVProof(o) ==
  /\ o \in DOMAIN pegins
  /\ pegins' = [pegins EXCEPT ![o].status = "PENDING_BTC_CONF"]
  /\ UNCHANGED <<federation, pegouts, anchors, emergencyMode, stats, disk,
                 clock, l2Height, minted, released>>

Confirmations(height, current) ==
  IF current > height THEN current - height ELSE 0

UpdatePegInConfirmations(o, height, current) ==
  LET n == Confirmations(height, current)
  IN /\ o \in DOMAIN pegins
     /\ pegins' = [pegins EXCEPT
                     ![o].confirmations = n,
                     ![o].status = IF /\ n >= MIN_CONFIRMATIONS_PEGIN
                                      /\ @ = "PENDING_BTC_CONF"
                                   THEN "BTC_CONFIRMED" ELSE @]
     /\ UNCHANGED <<federation, pegouts, anchors, emergencyMode, stats, disk,
                    clock, l2Height, minted, released>>

RecordPegin(amount) ==
  [stats EXCEPT !.totalPegins = @ + 1,
                !.locked = Add64(@, amount),
                !.minted = Add64(@, amount - BRIDGE_FEE),
                !.fees   = Add64(@, BRIDGE_FEE)]

CompletePegInMint(o) ==
  /\ o \in DOMAIN pegins
  /\ pegins[o].status = "BTC_CONFIRMED"
  /\ minted[o] < MaxMinted
  /\ pegins' = [pegins EXCEPT ![o].status = "MINTED"]
  /\ stats' = RecordPegin(pegins[o].amount)
  /\ minted' = [minted EXCEPT ![o] = @ + (pegins[o].amount - BRIDGE_FEE)]
  /\ UNCHANGED <<federation, pegouts, anchors, emergencyMode, disk, clock,
                 l2Height, released>>

-----------------------------------------------------------------------------
(* Peg-out.                                                                *)

RegisterAnchorCommitment(h) ==
  /\ anchors' = anchors \cup {h}
  /\ UNCHANGED <<federation, pegins, pegouts, emergencyMode, stats, disk,
                 clock, l2Height, minted, released>>

\* Two calls with the same source and amount within one second get the same
\* peg id: the second record replaces the first.
InitiatePegOut(source, dest, amount, h) ==
  LET id == [source |-> source, amount |-> amount, time |-> clock]
  IN /\ h \in anchors
     /\ pegouts' = Put(pegouts, id,
                       [dest |-> dest, anchor |-> h, burn |-> amount,
                        confirmations |-> 0, openedAt |-> l2Height,
                        status |-> "BURN_INITIATED",
                        signatures |-> [s \in Signers |-> NoSignature]])
     /\ UNCHANGED <<federation, pegins, anchors, emergencyMode, stats, disk,
                    clock, l2Height, minted, released>>

\* Fault: the block of the burn counts as its own confirmation.
ConfirmedByOwnBlock(id, burnHeight) ==
  LET n == Confirmations(burnHeight, l2Height) + 1
  IN /\ id \in DOMAIN pegouts
     /\ burnHeight >= pegouts[id].openedAt
     /\ pegouts' = [pegouts EXCEPT
                      ![id].confirmations = n,
                      ![id].status = IF /\ n >= MIN_CONFIRMATIONS_PEGOUT
                                        /\ @ = "BURN_INITIATED"
                                     THEN "PENDING_PEGOUT" ELSE @]
     /\ UNCHANGED <<federation, pegins, anchors, emergencyMode, stats, disk,
                    clock, l2Height, minted, released>>

UpdatePegOutConfirmations(id, burnHeight) ==
  LET n == Confirmations(burnHeight, l2Height)
  IN /\ id \in DOMAIN pegouts
     /\ burnHeight >= pegouts[id].openedAt
     /\ pegouts' = [pegouts EXCEPT
                      ![id].confirmations = n,
                      ![id].status = IF /\ n >= MIN_CONFIRMATIONS_PEGOUT
                                        /\ @ = "BURN_INITIATED"
                                     THEN "PENDING_PEGOUT" ELSE @]
     /\ UNCHANGED <<federation, pegins, anchors, emergencyMode, stats, disk,
                    clock, l2Height, minted, released>>

\* What a signer of the peg-out must have signed: the record as it stands.
PayloadOf(id) ==
  [id |-> id, dest |-> pegouts[id].dest, anchor |-> pegouts[id].anchor]

\* Fault: the destination is not part of the signed payload.
VerifyWithoutDest(id, s, signature) ==
  /\ signature.key = s
  /\ signature.payload.id = id
  /\ signature.payload.anchor = pegouts[id].anchor

VerifyPegOutSignature(id, s, signature) ==
  /\ signature.key = s
  /\ signature.payload = PayloadOf(id)

\* The keys of data_.signatures.
SignedBy(pegout) == {s \in Signers : pegout.signatures[s] # NoSignature}

\* The signature may have been made over an earlier record with the same id.
SignPegOut(id, s, signature) ==
  /\ id \in DOMAIN pegouts
  /\ pegouts[id].anchor \in anchors
  /\ s \in ActiveSigners(federation)
  /\ VerifyPegOutSignature(id, s, signature)
  /\ pegouts[id].status = "PENDING_PEGOUT"
  /\ pegouts' = [pegouts EXCEPT ![id].signatures[s] = signature]
  /\ federation' = [federation EXCEPT ![s] = RecordSignature(@)]
  /\ UNCHANGED <<pegins, anchors, emergencyMode, stats, disk, clock, l2Height,
                 minted, released>>

\* Fault: the release amount, not the burnt amount, leaves the minted total.
RecordReleased(amount) ==
  [stats EXCEPT !.totalPegouts = @ + 1,
                !.locked = Sub64(@, amount),
                !.minted = Sub64(@, amount - BRIDGE_FEE),
                !.fees   = Add64(@, BRIDGE_FEE)]

RecordPegout(amount) ==
  [stats EXCEPT !.totalPegouts = @ + 1,
                !.locked = Sub64(@, amount),
                !.minted = Sub64(@, amount),
                !.fees   = Add64(@, BRIDGE_FEE)]

\* Fault: asks whether the federation has a quorum, not who signed.
CompleteOnFederationQuorum(id) ==
  /\ id \in DOMAIN pegouts
  /\ pegouts[id].anchor \in anchors
  /\ HasQuorum
  /\ pegouts[id].status = "PENDING_PEGOUT"
  /\ LET done == [pegouts[id] EXCEPT !.status = "COMPLETED"]
     IN /\ pegouts' = [pegouts EXCEPT ![id] = done]
        /\ ExecuteBatch(
             [disk EXCEPT
                !.pegout = Put(@, id, StoredPegOut(done)),
                !.pegoutIndex = DOMAIN pegouts,
                !.signer = PutAll(@, SignerBatch(federation, SignedBy(done)))])
  /\ stats' = RecordPegout(pegouts[id].burn)
  /\ released' = released \cup {id}
  /\ UNCHANGED <<federation, pegins, anchors, emergencyMode, clock, l2Height,
                 minted>>

\* Fault: the index is rewritten with this peg-out alone.
CompleteIndexingOnlyItself(id) ==
  /\ id \in DOMAIN pegouts
  /\ pegouts[id].anchor \in anchors
  /\ Cardinality(SignedBy(pegouts[id])) >= FEDERATION_THRESHOLD
  /\ pegouts[id].status = "PENDING_PEGOUT"
  /\ LET done == [pegouts[id] EXCEPT !.status = "COMPLETED"]
     IN /\ pegouts' = [pegouts EXCEPT ![id] = done]
        /\ ExecuteBatch(
             [disk EXCEPT
                !.pegout = Put(@, id, StoredPegOut(done)),
                !.pegoutIndex = {id},
                !.signer = PutAll(@, SignerBatch(federation, SignedBy(done)))])
  /\ stats' = RecordPegout(pegouts[id].burn)
  /\ released' = released \cup {id}
  /\ UNCHANGED <<federation, pegins, anchors, emergencyMode, clock, l2Height,
                 minted>>

\* One batch: the peg-out, the index of all peg-outs in memory, and the signers
\* that signed it and are still known.
CompletePegOut(id) ==
  /\ id \in DOMAIN pegouts
  /\ pegouts[id].anchor \in anchors
  /\ Cardinality(SignedBy(pegouts[id])) >= FEDERATION_THRESHOLD
  /\ pegouts[id].status = "PENDING_PEGOUT"
  /\ LET done == [pegouts[id] EXCEPT !.status = "COMPLETED"]
     IN /\ pegouts' = [pegouts EXCEPT ![id] = done]
        /\ ExecuteBatch(
             [disk EXCEPT
                !.pegout = Put(@, id, StoredPegOut(done)),
                !.pegoutIndex = DOMAIN pegouts,
                !.signer = PutAll(@, SignerBatch(federation, SignedBy(done)))])
  /\ stats' = RecordPegout(pegouts[id].burn)
  /\ released' = released \cup {id}
  /\ UNCHANGED <<federation, pegins, anchors, emergencyMode, clock, l2Height,
                 minted>>

-----------------------------------------------------------------------------
(* Emergency mode, time and restarts.                                      *)

ActivateEmergencyMode ==
  /\ emergencyMode' = TRUE
  /\ UNCHANGED <<federation, pegins, pegouts, anchors, stats, disk, clock,
                 l2Height, minted, released>>

DeactivateEmergencyMode ==
  /\ HasQuorum
  /\ emergencyMode' = FALSE
  /\ UNCHANGED <<federation, pegins, pegouts, anchors, stats, disk, clock,
                 l2Height, minted, released>>

\* A second passes; the block producer makes at most one block in it
\* (BlockProducer::Config::blockIntervalMs = 1000).
Tick ==
  /\ clock < MaxClock
  /\ clock' = clock + 1
  /\ l2Height' \in {l2Height, l2Height + 1}
  /\ UNCHANGED <<federation, pegins, pegouts, anchors, emergencyMode, stats,
                 disk, minted, released>>

\* The process ends and a new SidechainBridge runs recoverState: an index entry
\* without a record is skipped, everything that is not stored is gone.
Restart ==
  /\ federation' = [s \in disk.signerIndex \cap DOMAIN disk.signer |-> disk.signer[s]]
  /\ pegouts' = [id \in disk.pegoutIndex \cap DOMAIN disk.pegout |-> disk.pegout[id]]
  /\ pegins' = EmptyMap
  /\ anchors' = {}
  /\ emergencyMode' = FALSE
  /\ stats' = ZeroStats
  /\ UNCHANGED <<disk, clock, l2Height, minted, released>>

-----------------------------------------------------------------------------
Init ==
  /\ federation = EmptyMap
  /\ pegins = EmptyMap
  /\ pegouts = EmptyMap
  /\ anchors = {}
  /\ emergencyMode = FALSE
  /\ stats = ZeroStats
  /\ disk = [signer |-> EmptyMap, signerIndex |-> {},
             pegout |-> EmptyMap, pegoutIndex |-> {}]
  /\ clock = 0
  /\ l2Height = 0
  /\ minted = [o \in Outpoints |-> 0]
  /\ released = {}

\* The calls that reach the federation of signers.
FederationNext ==
  \E s \in Signers :
    AddFederationSigner(s) \/ RemoveSigner(s) \/ MissSignature(s)

PegInNext ==
  \E o \in Outpoints :
    \/ InitiatePegIn(o)
    \/ SubmitSPVProof(o)
    \/ \E height, current \in 0 .. MaxBtcHeight :
         UpdatePegInConfirmations(o, height, current)
    \/ CompletePegInMint(o)

PegOutNext ==
  \/ \E h \in Anchors : RegisterAnchorCommitment(h)
  \/ \E source \in Sources, dest \in Dests, amount \in Amounts, h \in Anchors :
       InitiatePegOut(source, dest, amount, h)
  \/ \E id \in DOMAIN pegouts :
       \/ \E burnHeight \in 0 .. l2Height : UpdatePegOutConfirmations(id, burnHeight)
       \/ \E s \in Signers, key \in Signers, dest \in Dests, h \in Anchors :
            SignPegOut(id, s, [key |-> key,
                               payload |-> [id |-> id, dest |-> dest, anchor |-> h]])
       \/ CompletePegOut(id)

Next ==
  \/ FederationNext
  \/ PegInNext
  \/ PegOutNext
  \/ ActivateEmergencyMode
  \/ DeactivateEmergencyMode
  \/ Tick
  \/ Restart

Spec == Init /\ [][Next]_vars

-----------------------------------------------------------------------------
(* Properties.                                                             *)

\* Every variable of the bridge, in memory and on disk, has its type.
TypeOK ==
  /\ IsMap(federation, Signers, SignerData)
  /\ IsMap(pegins, Outpoints, PegInData)
  /\ IsMap(pegouts, PegOutIds, PegOutData)
  /\ anchors \subseteq Anchors
  /\ emergencyMode \in BOOLEAN
  /\ stats \in Stats
  /\ DOMAIN disk = {"signer", "signerIndex", "pegout", "pegoutIndex"}
  /\ IsMap(disk.signer, Signers, SignerData)
  /\ disk.signerIndex \subseteq Signers
  /\ IsMap(disk.pegout, PegOutIds, PegOutData)
  /\ disk.pegoutIndex \subseteq PegOutIds
  /\ clock \in 0 .. MaxClock
  /\ l2Height \in 0 .. clock
  /\ minted \in [Outpoints -> Nat]
  /\ released \subseteq PegOutIds

\* Every signature signPegOut has collected is by the signer it is filed under
\* and over the destination and the anchor the peg-out has now, even when a
\* second request in the same second replaced the record or the node restarted.
SignaturesOverRecord ==
  \A id \in DOMAIN pegouts :
    \A s \in SignedBy(pegouts[id]) :
      pegouts[id].signatures[s] =
        [key |-> s, payload |-> [id |-> id, dest |-> pegouts[id].dest,
                                 anchor |-> pegouts[id].anchor]]

\* completePegOut releases a peg-out at most once: after its release it is never
\* open again under its id, through colliding ids, restarts and lost batches.
ReleasedStaysClosed ==
  \A id \in DOMAIN pegouts :
    id \in released => pegouts[id].status = "COMPLETED"

\* Whatever is marked COMPLETED was released with a federation quorum behind it.
CompletedHasQuorum ==
  \A id \in DOMAIN pegouts :
    pegouts[id].status = "COMPLETED" =>
      /\ id \in released
      /\ Cardinality(SignedBy(pegouts[id])) >= FEDERATION_THRESHOLD

\* As long as executeBatch succeeds, no step, recoverState included, loses a
\* completed peg-out or changes where it was paid and who signed it.
CompletedIsFinal ==
  [][\A id \in DOMAIN pegouts :
       pegouts[id].status = "COMPLETED" =>
         /\ id \in DOMAIN pegouts'
         /\ pegouts'[id].status = "COMPLETED"
         /\ pegouts'[id].dest = pegouts[id].dest
         /\ pegouts'[id].signatures = pegouts[id].signatures]_vars

\* The uint64_t subtraction of recordMissedSignature never wraps for a signer
\* that still counts towards the quorum, in memory or on disk.
SoundReputation(signer) ==
  signer.active =>
    /\ signer.missed < MissedLimit
    /\ signer.reputation \in (RepMax - RepPenalty * signer.missed) .. RepMax

ActiveReputationSound ==
  /\ \A s \in DOMAIN federation : SoundReputation(federation[s])
  /\ \A s \in DOMAIN disk.signer : SoundReputation(disk.signer[s])

\* recordPegin and recordPegout keep the books together: what is locked is what
\* is minted plus one fee per peg-in, and every completed operation paid a fee,
\* modulo 2^64.
BooksBalance ==
  /\ stats.locked = (stats.minted + BRIDGE_FEE * stats.totalPegins) % W
  /\ stats.fees = (BRIDGE_FEE * (stats.totalPegins + stats.totalPegouts)) % W

-----------------------------------------------------------------------------
(* What the documentation says and the code does not keep.                 *)

\* "Lock BTC on mainnet, mint equivalent on AILEE": no outpoint mints more than
\* it pays in.
MintBacked == \A o \in Outpoints : minted[o] <= OutpointAmount[o]

\* "values > 2^53 lose precision": a smaller amount is read back as written.
BurnAmountKept == \A id \in DOMAIN pegouts : pegouts[id].burn = id.amount

=============================================================================
