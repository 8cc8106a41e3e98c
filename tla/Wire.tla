-------------------------------- MODULE Wire --------------------------------
(***************************************************************************)
(* The conversions between the three forms of a channel: go-perun's        *)
(* channel.State and channel.Params, the structs of package wire, and the  *)
(* Soroban values that the contract reads and returns; and the encoding    *)
(* that is signed (channel/backend.go, channel/ethbackend.go).             *)
(*                                                                         *)
(* Abstractions.  A Soroban map whose keys are symbols is a record: it is  *)
(* sorted and has no duplicate keys.  The tags of Soroban values, XDR and  *)
(* the ABI layout are left out.  Addresses, hashes and IDs are atoms; the  *)
(* halves of an i128 have Half values, and a coordinate of a public key    *)
(* has two digits to base Base, where the code has 2^64 and 32 bytes.      *)
(* A conversion that can fail comes with a predicate CanX; X is its result *)
(* when CanX holds.  States have no app, and channels two participants.    *)
(***************************************************************************)
EXTENDS Integers, Sequences

CONSTANTS
    Half,            \* values of each half of an i128
    Base,            \* values of one byte
    Curve,           \* the points of the curve secp256k1
    NoContract,      \* 32 zero bytes where a Stellar contract ID is expected
    NoHolder,        \* 20 zero bytes where an Ethereum address is expected
    NoAccount,       \* a keypair.FromAddress that holds no address
    RandomAddresses  \* what randomScAddress can return

ASSUME HalfAssumption == Half \in Nat /\ Half > 0 /\ Half % 2 = 0
ASSUME BaseAssumption == Base \in Nat /\ Base > 1

EthBackendID == 1
StellarBackendID == 2

StellarAsset(contractID) == [kind |-> "stellar", ledger |-> 2, address |-> contractID]
EthAsset(chainID, holder) == [kind |-> "eth", ledger |-> chainID, address |-> holder]

\* StellarAsset.Equal and EthAsset.Equal
AssetEqual(a, b) ==
    /\ a.kind = b.kind
    /\ a.kind = "eth" => a.ledger = b.ledger /\ a.address = b.address

-----------------------------------------------------------------------------
(* Balances: big.Int and i128 *)

\* Half of the values of an i128 are not negative: 2^127 in the code.
MaxBalance == (Half \div 2) * Half - 1

\* The conversion of an unsigned half to a signed one.
AsSigned(u) == IF 2 * u < Half THEN u ELSE u - Half

\* The i128 that the contract sees in two halves.
Int128(parts) == parts.Hi * Half + parts.Lo
IsInt128Parts(parts) ==
    /\ parts.Lo \in 0..(Half - 1)
    /\ 2 * parts.Hi \in (-Half)..(Half - 1)

\* Mutant of CanMakeInt128Parts: the bound of an unsigned value.
CanMakeInt128PartsUnsigned(i) == i \in 0..(Half * Half - 1)
CanMakeInt128Parts(i) == i \in 0..MaxBalance

\* Mutant of MakeInt128Parts: the lower half is not cut off.
MakeInt128PartsUncut(i) == [Hi |-> AsSigned(i \div Half), Lo |-> i]
MakeInt128Parts(i) == [Hi |-> AsSigned(i \div Half), Lo |-> i % Half]

ToBigInt(parts) == (parts.Hi % Half) * Half + parts.Lo

\* How a balance is read off the result of a simulation: both halves are taken
\* as signed, and combined by a bitwise or.
CombineHalves(parts) ==
    LET lo == AsSigned(parts.Lo)
    IN IF lo < 0 THEN lo ELSE parts.Hi * Half + lo

-----------------------------------------------------------------------------
(* Participants *)

CoordinateLength == 2

\* A public point: two coordinates of two digits.
Coordinate == 0..(Base * Base - 1)
IsKey(key) ==
    key = [X |-> key.X, Y |-> key.Y] /\ key.X \in Coordinate /\ key.Y \in Coordinate

\* types.Participant, the address of a party on this backend.
IsAddress(addr) ==
    /\ addr = [StellarAddress |-> addr.StellarAddress,
               StellarPubKey |-> addr.StellarPubKey, CCAddr |-> addr.CCAddr]
    /\ IsKey(addr.StellarPubKey)

\* big.Int.Bytes has no leading zeros; SetBytes is given both bytes of a coordinate.
BigEndian(n) ==
    IF n = 0 THEN <<>> ELSE IF n < Base THEN <<n>> ELSE <<n \div Base, n % Base>>
SetBytes(bytes) == bytes[1] * Base + bytes[2]

Padded(bytes) ==
    [i \in 1..(CoordinateLength - Len(bytes)) |-> 0] \o bytes

\* Mutant of PublicKeyToBytes: filled up at the end.
PublicKeyToBytesUnaligned(key) ==
    <<4>> \o BigEndian(key.X) \o BigEndian(key.Y)
          \o [i \in 1..(2 * CoordinateLength - Len(BigEndian(key.X) \o BigEndian(key.Y)))
                 |-> 0]
PublicKeyToBytes(key) == <<4>> \o Padded(BigEndian(key.X)) \o Padded(BigEndian(key.Y))

CanBytesToPublicKey(data) == Len(data) = 1 + 2 * CoordinateLength /\ data[1] = 4
BytesToPublicKey(data) ==
    [X |-> SetBytes(SubSeq(data, 2, 1 + CoordinateLength)),
     Y |-> SetBytes(SubSeq(data, 2 + CoordinateLength, Len(data)))]

\* The Stellar address is parsed, and the key may be nil or be off the curve.
CanMakeParticipant(p) == p.StellarAddress # NoAccount /\ p.StellarPubKey \in Curve

\* Mutant of MakeParticipant: the cross-chain address is not taken over.
MakeParticipantWithoutCC(p) ==
    [StellarAddr |-> p.StellarAddress,
     StellarPubKey |-> PublicKeyToBytes(p.StellarPubKey),
     CCAddr |-> NoHolder]
MakeParticipant(p) ==
    [StellarAddr |-> p.StellarAddress,
     StellarPubKey |-> PublicKeyToBytes(p.StellarPubKey),
     CCAddr |-> p.CCAddr]

\* It is also given a point off the curve; elliptic.Unmarshal is not, see Identity.
CanToParticipant(p) == CanBytesToPublicKey(p.StellarPubKey)
ToParticipant(p) ==
    [StellarAddress |-> p.StellarAddr,
     StellarPubKey |-> BytesToPublicKey(p.StellarPubKey),
     CCAddr |-> p.CCAddr]

CanParticipantToScVal(p) == Len(p.StellarPubKey) = 1 + 2 * CoordinateLength
ParticipantToScVal(p) ==
    [stellar_addr |-> p.StellarAddr, stellar_pubkey |-> p.StellarPubKey,
     cc_addr |-> p.CCAddr]

CanParticipantFromScVal(v) ==
    /\ DOMAIN v = {"stellar_addr", "stellar_pubkey", "cc_addr"}
    /\ Len(v.stellar_pubkey) = 1 + 2 * CoordinateLength
ParticipantFromScVal(v) ==
    [StellarAddr |-> v.stellar_addr, StellarPubKey |-> v.stellar_pubkey,
     CCAddr |-> v.cc_addr]

-----------------------------------------------------------------------------
(* Params.  A part is a function from backends to addresses: it may have an Ethereum
   address beside the Stellar participant. *)

CanMakeParams(params) ==
    /\ params.LedgerChannel
    /\ ~params.VirtualChannel
    /\ Len(params.Parts) = 2
    /\ \A i \in DOMAIN params.Parts :
          /\ StellarBackendID \in DOMAIN params.Parts[i]
          /\ CanMakeParticipant(params.Parts[i][StellarBackendID])
MakeParams(params) ==
    [A |-> MakeParticipant(params.Parts[1][StellarBackendID]),
     B |-> MakeParticipant(params.Parts[2][StellarBackendID]),
     Nonce |-> params.Nonce, ChallengeDuration |-> params.ChallengeDuration]

\* channel.NewParams, of go-perun, for two participants and no app.
CanNewParams(challengeDuration) == challengeDuration # 0

CanToParams(params) ==
    /\ CanToParticipant(params.A)
    /\ CanToParticipant(params.B)
    /\ CanNewParams(params.ChallengeDuration)
ToParams(params) ==
    [Parts |-> <<[b \in {StellarBackendID} |-> ToParticipant(params.A)],
                 [b \in {StellarBackendID} |-> ToParticipant(params.B)]>>,
     Nonce |-> params.Nonce, ChallengeDuration |-> params.ChallengeDuration,
     LedgerChannel |-> TRUE, VirtualChannel |-> FALSE]

CanParamsToScVal(p) == CanParticipantToScVal(p.A) /\ CanParticipantToScVal(p.B)
ParamsToScVal(p) ==
    [a |-> ParticipantToScVal(p.A), b |-> ParticipantToScVal(p.B),
     nonce |-> p.Nonce, challenge_duration |-> p.ChallengeDuration]

CanParamsFromScVal(v) ==
    /\ DOMAIN v = {"a", "b", "nonce", "challenge_duration"}
    /\ CanParticipantFromScVal(v.a)
    /\ CanParticipantFromScVal(v.b)
ParamsFromScVal(v) ==
    [A |-> ParticipantFromScVal(v.a), B |-> ParticipantFromScVal(v.b),
     Nonce |-> v.nonce, ChallengeDuration |-> v.challenge_duration]

-----------------------------------------------------------------------------
(* States *)

\* Allocation.Valid, of go-perun.
ValidAllocation(s) ==
    /\ s.Assets # <<>>
    /\ Len(s.Balances) = Len(s.Assets)
    /\ \A i \in DOMAIN s.Balances :
          /\ Len(s.Balances[i]) = 2
          /\ \A j \in 1..2 : s.Balances[i][j] >= 0

\* MakeTokens: an asset of another ledger gets a random Stellar address.
MakeTokens(assets, random) ==
    [i \in DOMAIN assets |->
        IF assets[i].kind = "stellar"
        THEN [Chain |-> <<assets[i].ledger>>, StellarAddress |-> assets[i].address,
              EthAddress |-> NoHolder]
        ELSE [Chain |-> <<assets[i].ledger>>, StellarAddress |-> random[i],
              EthAddress |-> assets[i].address]]

CanMakeBalances(s) ==
    /\ ValidAllocation(s)
    /\ s.Locked = <<>>
    /\ \A i \in DOMAIN s.Balances, j \in 1..2 : CanMakeInt128Parts(s.Balances[i][j])
\* The rows of Balances are assets; those of the result are parties.
MakeBalances(s, random) ==
    [BalA |-> [i \in DOMAIN s.Balances |-> MakeInt128Parts(s.Balances[i][1])],
     BalB |-> [i \in DOMAIN s.Balances |-> MakeInt128Parts(s.Balances[i][2])],
     Tokens |-> MakeTokens(s.Assets, random)]

CanMakeState(s) == CanMakeBalances(s)
MakeState(s, random) ==
    [ChannelID |-> s.ID, Balances |-> MakeBalances(s, random),
     Version |-> s.Version, Finalized |-> s.IsFinal]

\* convertAssets: its other case is an address that is no contract's and no account's,
\* which the contract cannot return; so every asset is read as a Stellar one.
ConvertAssets(tokens) ==
    [i \in DOMAIN tokens |-> StellarAsset(tokens[i].StellarAddress)]

\* makeAllocationMulti makes a slice of StellarBackendID zeros for the backends.
MakeAllocationMulti(assets, balsA, balsB) ==
    [Assets |-> assets,
     Backends |-> [i \in 1..StellarBackendID |-> 0],
     Balances |-> [i \in DOMAIN assets |-> <<balsA[i], balsB[i]>>],
     Locked |-> <<>>]

BigInts(vec) == [i \in DOMAIN vec |-> ToBigInt(vec[i])]

CanToState(w) ==
    /\ Len(w.Balances.BalA) = Len(w.Balances.BalB)
    /\ Len(w.Balances.BalA) = Len(w.Balances.Tokens)
    /\ w.Balances.Tokens # <<>>
ToState(w) ==
    LET alloc == MakeAllocationMulti(ConvertAssets(w.Balances.Tokens),
                                     BigInts(w.Balances.BalA), BigInts(w.Balances.BalB))
    IN [ID |-> w.ChannelID, Version |-> w.Version, IsFinal |-> w.Finalized,
        Assets |-> alloc.Assets, Backends |-> alloc.Backends,
        Balances |-> alloc.Balances, Locked |-> alloc.Locked]

AssetToScVal(t) ==
    [chain |-> t.Chain, stellar_address |-> t.StellarAddress, eth_address |-> t.EthAddress]
CanAssetFromScVal(v) == DOMAIN v = {"chain", "stellar_address", "eth_address"}
AssetFromScVal(v) ==
    [Chain |-> v.chain, StellarAddress |-> v.stellar_address, EthAddress |-> v.eth_address]

BalancesToScVal(b) ==
    [bal_a |-> b.BalA, bal_b |-> b.BalB,
     tokens |-> [i \in DOMAIN b.Tokens |-> AssetToScVal(b.Tokens[i])]]
CanBalancesFromScVal(v) ==
    /\ DOMAIN v = {"bal_a", "bal_b", "tokens"}
    /\ \A i \in DOMAIN v.tokens : CanAssetFromScVal(v.tokens[i])
BalancesFromScVal(v) ==
    [BalA |-> v.bal_a, BalB |-> v.bal_b,
     Tokens |-> [i \in DOMAIN v.tokens |-> AssetFromScVal(v.tokens[i])]]

StateToScVal(s) ==
    [channel_id |-> s.ChannelID, balances |-> BalancesToScVal(s.Balances),
     version |-> s.Version, finalized |-> s.Finalized]
CanStateFromScVal(v) ==
    /\ DOMAIN v = {"channel_id", "balances", "version", "finalized"}
    /\ CanBalancesFromScVal(v.balances)
StateFromScVal(v) ==
    [ChannelID |-> v.channel_id, Balances |-> BalancesFromScVal(v.balances),
     Version |-> v.version, Finalized |-> v.finalized]

-----------------------------------------------------------------------------
(* Control, and the channel as a whole *)

ControlToScVal(c) ==
    [funded_a |-> c.FundedA, funded_b |-> c.FundedB, closed |-> c.Closed,
     withdrawn_a |-> c.WithdrawnA, withdrawn_b |-> c.WithdrawnB,
     disputed |-> c.Disputed, timestamp |-> c.Timestamp]
CanControlFromScVal(v) ==
    DOMAIN v = {"funded_a", "funded_b", "closed", "withdrawn_a", "withdrawn_b",
                "disputed", "timestamp"}
ControlFromScVal(v) ==
    [FundedA |-> v.funded_a, FundedB |-> v.funded_b, Closed |-> v.closed,
     WithdrawnA |-> v.withdrawn_a, WithdrawnB |-> v.withdrawn_b,
     Disputed |-> v.disputed, Timestamp |-> v.timestamp]

CanChannelFromScVal(v) ==
    /\ DOMAIN v = {"params", "state", "control"}
    /\ CanParamsFromScVal(v.params)
    /\ CanStateFromScVal(v.state)
    /\ CanControlFromScVal(v.control)
ChannelFromScVal(v) ==
    [Params |-> ParamsFromScVal(v.params), State |-> StateFromScVal(v.state),
     Control |-> ControlFromScVal(v.control)]

-----------------------------------------------------------------------------
(* What is signed *)

CheckBackends(backends) == \E i \in DOMAIN backends : backends[i] = StellarBackendID

\* The backend of asset i decides how it is encoded.
EthChannelAsset(s, i) ==
    IF s.Backends[i] = EthBackendID
    THEN [ChainID |-> s.Assets[i].ledger, EthAsset |-> s.Assets[i].address,
          CCAsset |-> NoContract]
    ELSE [ChainID |-> StellarBackendID, EthAsset |-> NoHolder,
          CCAsset |-> s.Assets[i].address]

\* Mutant of EthSubAlloc: the index map is never taken over.
EthSubAllocDefault(sub) == [sub EXCEPT !.IndexMap = <<0, 1>>]
\* The allocation of a sub-channel: without an index map, its parties are those of the
\* channel in their order.
EthSubAlloc(sub) == [sub EXCEPT !.IndexMap = IF @ = <<>> THEN <<0, 1>> ELSE @]

EthSubAllocs(s) == [k \in DOMAIN s.Locked |-> EthSubAlloc(s.Locked[k])]

\* Mutant of ToEthState: the final flag is left out.
ToEthStateNotFinal(s) ==
    [ChannelID |-> s.ID, Version |-> s.Version,
     Outcome |-> [Assets |-> [i \in DOMAIN s.Assets |-> EthChannelAsset(s, i)],
                  Backends |-> s.Backends, Balances |-> s.Balances,
                  Locked |-> EthSubAllocs(s)],
     IsFinal |-> FALSE]
\* Only for states whose backends are those of their assets; it panics otherwise.
ToEthState(s) ==
    [ChannelID |-> s.ID, Version |-> s.Version,
     Outcome |-> [Assets |-> [i \in DOMAIN s.Assets |-> EthChannelAsset(s, i)],
                  Backends |-> s.Backends, Balances |-> s.Balances,
                  Locked |-> EthSubAllocs(s)],
     IsFinal |-> s.IsFinal]

\* The tuple that is packed, in its order.
EncodeEthState(e) ==
    <<e.ChannelID, e.Version,
      <<[i \in DOMAIN e.Outcome.Assets |->
            <<e.Outcome.Assets[i].ChainID, e.Outcome.Assets[i].EthAsset,
              e.Outcome.Assets[i].CCAsset>>],
        e.Outcome.Backends, e.Outcome.Balances,
        [k \in DOMAIN e.Outcome.Locked |->
            <<e.Outcome.Locked[k].ID, e.Outcome.Locked[k].Bals,
              e.Outcome.Locked[k].IndexMap>>]>>,
      e.IsFinal>>

\* The encoding of a state that the contract recomputes from its Soroban form, in
\* order to check the signatures that come with it.
ContractEncoding(v) ==
    LET stellar(t) == t.chain[1] = StellarBackendID
        tokens == v.balances.tokens
    IN <<v.channel_id, v.version,
         <<[i \in DOMAIN tokens |->
               IF stellar(tokens[i])
               THEN <<StellarBackendID, NoHolder, tokens[i].stellar_address>>
               ELSE <<tokens[i].chain[1], tokens[i].eth_address, NoContract>>],
           [i \in DOMAIN tokens |->
               IF stellar(tokens[i]) THEN StellarBackendID ELSE EthBackendID],
           [i \in DOMAIN tokens |->
               <<Int128(v.balances.bal_a[i]), Int128(v.balances.bal_b[i])>>],
           <<>>>>,
         v.finalized>>
=============================================================================
