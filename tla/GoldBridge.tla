----------------------------- MODULE GoldBridge -----------------------------
(***************************************************************************)
(* Conversions of BTC into tokens for gold coins on a shelf                *)
(* (src/l2/ailee_gold_bridge.h).                                           *)
(*                                                                         *)
(* Shelves, tokens and the tokens of each owner are in PersistentStorage;  *)
(* the conversions are in memory.  Nothing here locks, so the calls come   *)
(* from one thread and each is one action.  A write may fail.  A call that *)
(* changes nothing is left out: a burn with too few confirmations, an      *)
(* oracle without fresh prices (which throws before anything is changed),  *)
(* an unknown id.  The clock counts seconds.                               *)
(***************************************************************************)
EXTENDS Integers, Sequences, SequencesExt, FiniteSets, Maps

CONSTANTS
  Users, Locations, Coins,
  WeightOf,           \* the weight of each coin: its denomination
  Amounts,            \* btcAmountSatoshis
  BurnOptions,        \* burnOption: a subset of BOOLEAN
  BtcTxs,             \* transaction outputs that pay for conversions
  BtcPrice, GoldPrice,
  MaxGoldTime,        \* bound on the clock
  MaxOwned,           \* bound on the tokens of an owner
  GoldWrites          \* the results of a write: a subset of BOOLEAN

ASSUME GoldAssumption ==
  /\ WeightOf \in [Coins -> Nat]
  /\ Amounts \subseteq Nat
  /\ BtcPrice \in Nat /\ GoldPrice \in Nat \ {0}
  /\ MaxGoldTime \in Nat /\ MaxOwned \in Nat
  /\ BurnOptions \subseteq BOOLEAN /\ GoldWrites \subseteq BOOLEAN

VARIABLES
  locsIndex,       \* "gold_inv_locs_index"
  shelves,         \* "gold_inv_loc_": the coins of a location
  tokens,          \* "gold_token_"
  ownerTokens,     \* "gold_owner_"
  conversions,     \* conversions_
  goldTime,
  relisted         \* history: coins on a shelf that a token was issued for before

goldVars == <<locsIndex, shelves, tokens, ownerTokens, conversions, goldTime, relisted>>
stockVars == <<locsIndex, shelves, relisted>>

\* generateTokenId and generateConversionId hash these.
TokenIds == Users \X Coins \X (0 .. MaxGoldTime)
ConversionIds == Users \X Amounts \X (0 .. MaxGoldTime)

Token == [owner : Users, serial : Coins, redeemed : BOOLEAN]

ConversionData ==
  [burn : BOOLEAN, paidBy : BtcTxs \cup {"none"}, weight : Nat,
   token : TokenIds \cup {<<>>}, coin : Coins \cup {"none"},
   status : {"PENDING_PAYMENT", "PAYMENT_CONFIRMED", "GOLD_RESERVED", "COMPLETED", "FAILED"}]

GoldInit ==
  /\ locsIndex = <<>> /\ shelves = EmptyMap
  /\ tokens = EmptyMap /\ ownerTokens = EmptyMap
  /\ conversions = EmptyMap
  /\ goldTime = 0
  /\ relisted = {}

-----------------------------------------------------------------------------
(* The inventory.                                                          *)

Shelved(l) == ToSet(shelves[l])
OnAShelf(c) == \E l \in DOMAIN shelves : \E item \in Shelved(l) : item.serial = c

\* Fault: the index is not searched for the location.
AddLocationAgain(l) ==
  /\ \E stored \in GoldWrites :
       shelves' = IF stored THEN Put(shelves, l, <<>>) ELSE shelves
  /\ \E indexed \in GoldWrites :
       locsIndex' = IF indexed THEN Append(locsIndex, l) ELSE locsIndex
  /\ UNCHANGED <<tokens, ownerTokens, conversions, goldTime, relisted>>

\* A location that is known already starts empty again.
AddLocation(l) ==
  /\ \E stored \in GoldWrites :
       shelves' = IF stored THEN Put(shelves, l, <<>>) ELSE shelves
  /\ \E indexed \in GoldWrites :
       locsIndex' = IF indexed /\ ~Contains(locsIndex, l)
                      THEN Append(locsIndex, l) ELSE locsIndex
  /\ UNCHANGED <<tokens, ownerTokens, conversions, goldTime, relisted>>

\* A coin is put on one shelf.
AddGoldCoin(l, c) ==
  /\ l \in DOMAIN shelves /\ ~OnAShelf(c)
  /\ \E stored \in GoldWrites :
       /\ shelves' = IF stored
                       THEN [shelves EXCEPT ![l] = Append(@, [serial |-> c, available |-> TRUE])]
                       ELSE shelves
       /\ relisted' = IF stored /\ \E id \in DOMAIN tokens : tokens[id].serial = c
                        THEN relisted \cup {c} ELSE relisted
  /\ UNCHANGED <<locsIndex, tokens, ownerTokens, conversions, goldTime>>

\* Where findAndReserve would find a coin of a denomination.
Stock(weight) ==
  {at \in (DOMAIN locsIndex) \X (1 .. Cardinality(Coins)) :
     LET l == locsIndex[at[1]]
     IN  /\ l \in DOMAIN shelves /\ at[2] \in DOMAIN shelves[l]
         /\ shelves[l][at[2]].available
         /\ WeightOf[shelves[l][at[2]].serial] = weight}

\* reserveGold returns the first and marks nothing.
ReserveGold(weight) ==
  CHOOSE at \in Stock(weight) :
    \A other \in Stock(weight) :
      at[1] < other[1] \/ (at[1] = other[1] /\ at[2] <= other[2])

\* Fault: the coin stays available.
NotDispensed(l, c) == shelves

\* markAsDispensed, also as a call of its own.
Dispensed(l, c) ==
  [shelves EXCEPT ![l] =
     [i \in DOMAIN @ |-> IF @[i].serial = c THEN [@[i] EXCEPT !.available = FALSE] ELSE @[i]]]

MarkAsDispensed(l, c) ==
  /\ Contains(locsIndex, l) /\ l \in DOMAIN shelves
  /\ \E item \in Shelved(l) : item.serial = c
  /\ TRUE \in GoldWrites
  /\ shelves' = Dispensed(l, c)
  /\ UNCHANGED <<locsIndex, tokens, ownerTokens, conversions, goldTime, relisted>>

-----------------------------------------------------------------------------
(* The tokens.                                                             *)

OwnedBy(u) == IF u \in DOMAIN ownerTokens THEN ownerTokens[u] ELSE <<>>

\* getIssueTokenOps
IssueToken(u, c) ==
  LET id == <<u, c, goldTime>>
  IN  /\ Len(OwnedBy(u)) < MaxOwned
      /\ tokens' = Put(tokens, id, [owner |-> u, serial |-> c, redeemed |-> FALSE])
      /\ ownerTokens' = Put(ownerTokens, u, Append(OwnedBy(u), id))

\* Fault: the list of the owner keeps the token.
RedeemKeepingListed(id) ==
  /\ id \in DOMAIN tokens /\ ~tokens[id].redeemed
  /\ TRUE \in GoldWrites
  /\ tokens' = [tokens EXCEPT ![id].redeemed = TRUE]
  /\ UNCHANGED <<stockVars, ownerTokens, conversions, goldTime>>

\* By its owner.  The code renames the owner to "REDEEMED"; the record keeps the
\* first owner here.  The first entry of the token leaves the owner's list.
RedeemToken(id) ==
  /\ id \in DOMAIN tokens /\ ~tokens[id].redeemed
  /\ TRUE \in GoldWrites
  /\ tokens' = [tokens EXCEPT ![id].redeemed = TRUE]
  /\ LET u == tokens[id].owner
     IN  ownerTokens' = IF Contains(OwnedBy(u), id)
                          THEN [ownerTokens EXCEPT ![u] = RemoveFirst(@, id)]
                          ELSE ownerTokens
  /\ UNCHANGED <<stockVars, conversions, goldTime>>

-----------------------------------------------------------------------------
(* The conversions.                                                        *)

Reached(conversion, status, weight, coin, token) ==
  [burn |-> conversion.burn, paidBy |-> conversion.paidBy, weight |-> weight,
   token |-> token, coin |-> coin, status |-> status]

Paid(conversion, tx) ==
  [burn |-> conversion.burn, paidBy |-> tx, weight |-> conversion.weight,
   token |-> conversion.token, coin |-> conversion.coin, status |-> "PAYMENT_CONFIRMED"]

\* The same user and amount within a second replace the earlier conversion.
InitiateConversion(u, amount, burn) ==
  /\ conversions' = Put(conversions, <<u, amount, goldTime>>,
       [burn |-> burn, paidBy |-> "none", weight |-> 0, token |-> <<>>, coin |-> "none",
        status |-> "PENDING_PAYMENT"])
  /\ UNCHANGED <<stockVars, tokens, ownerTokens, goldTime>>

\* The transaction is taken at the caller's word.
ConfirmPayment(id, tx) ==
  /\ conversions[id].status = "PENDING_PAYMENT"
  /\ conversions' = [conversions EXCEPT ![id] = Paid(@, tx)]
  /\ UNCHANGED <<stockVars, tokens, ownerTokens, goldTime>>

\* lockPrice: what the amount buys after a fee of 0.5%.
GoldWeight(amount) == (amount * BtcPrice * 995) \div (1000 * GoldPrice)

\* No coin of the denomination the caller asks for.
ConversionFails(id, weight) ==
  /\ conversions[id].status = "PAYMENT_CONFIRMED"
  /\ Stock(weight) = {}
  /\ conversions' = [conversions EXCEPT ![id] =
       Reached(@, "FAILED", GoldWeight(id[2]), @.coin, @.token)]
  /\ UNCHANGED <<stockVars, tokens, ownerTokens, goldTime>>

\* Fault: the result of executeBatch is ignored.
ExecuteUnchecked(id, weight) ==
  /\ conversions[id].status = "PAYMENT_CONFIRMED"
  /\ Stock(weight) # {}
  /\ LET at == ReserveGold(weight)
         l == locsIndex[at[1]]
         c == shelves[l][at[2]].serial
     IN  /\ conversions' = [conversions EXCEPT ![id] =
              Reached(@, "COMPLETED", GoldWeight(id[2]), c, <<id[1], c, goldTime>>)]
         /\ \/ shelves' = Dispensed(l, c) /\ IssueToken(id[1], c)
            \/ FALSE \in GoldWrites /\ UNCHANGED <<shelves, tokens, ownerTokens>>
  /\ UNCHANGED <<locsIndex, goldTime, relisted>>

\* The coin is marked and the token issued in one batch.  A batch that fails
\* leaves the conversion in GOLD_RESERVED, from which no call takes it on.
ExecuteConversion(id, weight) ==
  /\ conversions[id].status = "PAYMENT_CONFIRMED"
  /\ Stock(weight) # {}
  /\ LET at == ReserveGold(weight)
         l == locsIndex[at[1]]
         c == shelves[l][at[2]].serial
         weighed == GoldWeight(id[2])
     IN  \/ /\ TRUE \in GoldWrites
            /\ shelves' = Dispensed(l, c)
            /\ IssueToken(id[1], c)
            /\ conversions' = [conversions EXCEPT ![id] =
                 Reached(@, "COMPLETED", weighed, c, <<id[1], c, goldTime>>)]
         \/ /\ FALSE \in GoldWrites
            /\ conversions' = [conversions EXCEPT ![id] = Reached(@, "GOLD_RESERVED", weighed, c, <<>>)]
            /\ UNCHANGED <<shelves, tokens, ownerTokens>>
  /\ UNCHANGED <<locsIndex, goldTime, relisted>>

GoldTick ==
  /\ goldTime < MaxGoldTime
  /\ goldTime' = goldTime + 1
  /\ UNCHANGED <<stockVars, tokens, ownerTokens, conversions>>

\* A new process on the same storage.
GoldRestart ==
  /\ conversions' = EmptyMap
  /\ UNCHANGED <<stockVars, tokens, ownerTokens, goldTime>>

GoldNext ==
  \/ \E l \in Locations : AddLocation(l)
  \/ \E l \in Locations, c \in Coins : AddGoldCoin(l, c) \/ MarkAsDispensed(l, c)
  \/ \E id \in DOMAIN tokens : RedeemToken(id)
  \/ \E u \in Users, amount \in Amounts, burn \in BurnOptions : InitiateConversion(u, amount, burn)
  \/ \E id \in DOMAIN conversions : \E tx \in BtcTxs : ConfirmPayment(id, tx)
  \/ \E id \in DOMAIN conversions, c \in Coins :
       ConversionFails(id, WeightOf[c]) \/ ExecuteConversion(id, WeightOf[c])
  \/ GoldTick
  \/ GoldRestart

GoldSpec == GoldInit /\ [][GoldNext]_goldVars

-----------------------------------------------------------------------------
(* Properties.                                                             *)

\* Every variable has its type, and the index names a location once (addLocation).
GoldTypeOK ==
  /\ locsIndex \in Seq(Locations) /\ IsInjective(locsIndex)
  /\ IsMap(shelves, Locations, Seq([serial : Coins, available : BOOLEAN]))
  /\ IsMap(tokens, TokenIds, Token)
  /\ IsMap(ownerTokens, Users, Seq(TokenIds))
  /\ IsMap(conversions, ConversionIds, ConversionData)
  /\ goldTime \in 0 .. MaxGoldTime
  /\ relisted \subseteq Coins

\* A coin backs one token, whatever writes fail and whatever was forgotten by a
\* restart: executeConversion never sells a coin twice.  The exception is a coin
\* that was put back on a shelf by hand after addLocation had emptied it.
CoinBacksOneToken ==
  \A id \in DOMAIN tokens :
    tokens[id].serial \in relisted \/
      /\ \A other \in DOMAIN tokens \ {id} : tokens[other].serial # tokens[id].serial
      /\ \A l \in DOMAIN shelves : \A item \in Shelved(l) :
           item.serial = tokens[id].serial => ~item.available

\* getTokensByOwner: the list of an owner names the tokens that are not redeemed
\* yet, each once, although token and list are different keys of the storage.
OwnersListed ==
  \A id \in DOMAIN tokens :
    tokens[id].serial \in relisted \/
      \A u \in Users :
        Cardinality({i \in DOMAIN OwnedBy(u) : OwnedBy(u)[i] = id})
          = IF tokens[id].owner = u /\ ~tokens[id].redeemed THEN 1 ELSE 0

\* A conversion that is COMPLETED has its token, for its user and for the coin it
\* had reserved; one that is not has none (executeConversion, markTokenIssued).
CompletedHasToken ==
  \A id \in DOMAIN conversions :
    LET conversion == conversions[id]
    IN  IF conversion.status = "COMPLETED"
          THEN /\ conversion.token \in DOMAIN tokens
               /\ tokens[conversion.token].owner = id[1]
               /\ tokens[conversion.token].serial = conversion.coin
          ELSE conversion.token = <<>>

\* Coins, tokens, owners' lists and conversions agree, although each is kept apart
\* and a batch may fail or a restart come anywhere.
GoldSound == CoinBacksOneToken /\ OwnersListed /\ CompletedHasToken

\* docs/SECURITY_AND_POWER.md of the proof of burn: "This ensures that the Gold
\* issued is strictly backed by the deflation of Bitcoin."  No burned output pays
\* for two conversions, and a coin weighs no more than what was burned for it.
GoldStrictlyBacked ==
  LET Issued == {id \in DOMAIN conversions :
                   conversions[id].burn /\ conversions[id].status = "COMPLETED"}
  IN  /\ \A id \in Issued : WeightOf[conversions[id].coin] <= conversions[id].weight
      /\ \A id, other \in Issued :
           id # other => conversions[id].paidBy # conversions[other].paidBy

=============================================================================
