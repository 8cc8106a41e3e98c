------------------------------ MODULE Identity ------------------------------
(***************************************************************************)
(* Who the parties of a channel are, and which channel it is: accounts in  *)
(* an EphemeralWallet, their addresses as they travel to the peer in       *)
(* binary form and to the contract as Soroban values, the signatures made  *)
(* for them, and the channel ID that is computed from the params.          *)
(*                                                                         *)
(* Abstractions.  A private key is its public point, a signature the key   *)
(* and the data; the hash of the ID is injective.  Stellar, Ethereum and   *)
(* cross-chain addresses are one byte each, beside keys in full.  That     *)
(* params travel from the proposer to its peer, in the binary form of      *)
(* their addresses, is go-perun's work.                                    *)
(***************************************************************************)
EXTENDS Wire, FiniteSets

CONSTANTS
    Accounts,       \* Accounts[p]: the accounts that party p may have
    EthAddresses,   \* Ethereum addresses that a party may have as well
    Nonces,         \* nonces of proposals
    MaxProposals,   \* bound: the proposals
    MaxRestarts     \* bound: the restarts of each party

Party == 1..2

IsAccount(acc) ==
    /\ acc = [privateKey |-> acc.privateKey, ParticipantAddress |-> acc.ParticipantAddress,
              CCAddr |-> acc.CCAddr]
    /\ IsKey(acc.privateKey) /\ acc.privateKey \in Curve
    /\ acc.ParticipantAddress # NoAccount

ASSUME AccountsAssumption == \A p \in Party : \A acc \in Accounts[p] : IsAccount(acc)
ASSUME EthAddressesAssumption == NoHolder \notin EthAddresses

VARIABLES
    accounts,   \* accounts[p]: EphemeralWallet.accounts of p, by String()
    given,      \* given[p]: the addresses that p has given out since it started
    held,       \* held[p]: the addresses of its peer that p has received
    restarts,   \* restarts[p]: how often p has lost its wallet
    proposals,  \* the params of each proposal, as sent by party 1 and as its peer got them
    opened,     \* the Params that the contract stores; or Unopened
    source      \* the channel.Params from which opened was made

vars == <<accounts, given, held, restarts, proposals, opened, source>>

Peer(p) == 3 - p
Unopened == <<>>

-----------------------------------------------------------------------------
(* Addresses *)

Address(acc) ==
    [StellarAddress |-> acc.ParticipantAddress, StellarPubKey |-> acc.privateKey,
     CCAddr |-> acc.CCAddr]

\* Participant.String: the Stellar address alone.
String(addr) == addr.StellarAddress

\* elliptic.Marshal, the Stellar address, the cross-chain address.
MarshalBinary(addr) ==
    PublicKeyToBytes(addr.StellarPubKey) \o <<addr.StellarAddress, addr.CCAddr>>

\* elliptic.Unmarshal refuses a point off the curve.
CanUnmarshalBinary(data) ==
    LET key == SubSeq(data, 1, 1 + 2 * CoordinateLength)
    IN /\ Len(data) > 2 + 2 * CoordinateLength
       /\ CanBytesToPublicKey(key) /\ BytesToPublicKey(key) \in Curve
\* The Stellar address is what the key and the cross-chain address leave.
UnmarshalBinary(data) ==
    [StellarAddress |-> data[Len(data) - 1],
     StellarPubKey |-> BytesToPublicKey(SubSeq(data, 1, 1 + 2 * CoordinateLength)),
     CCAddr |-> data[Len(data)]]

Travelled(addr) == UnmarshalBinary(MarshalBinary(addr))

\* An Ethereum address has its own binary form, which loses nothing.
TravelledParams(params) ==
    [params EXCEPT !.Parts =
        [i \in DOMAIN @ |->
            [b \in DOMAIN @[i] |->
                IF b = StellarBackendID THEN Travelled(@[i][b]) ELSE @[i][b]]]]

-----------------------------------------------------------------------------
(* Signatures *)

CanUnlock(p, addr) == String(addr) \in DOMAIN accounts[p]
Unlock(p, addr) == accounts[p][String(addr)]

SignData(acc, data) == [key |-> acc.privateKey, data |-> data]

\* The key recovered from the signature is compared; the Stellar address is not.
VerifySignature(data, sig, addr) ==
    sig.data = data /\ sig.key = addr.StellarPubKey

-----------------------------------------------------------------------------
(* Channel IDs *)

\* Mutant of ToEthParams: only the backend's own addresses.
ToEthParamsStellar(params) ==
    [ChallengeDuration |-> params.ChallengeDuration, Nonce |-> params.Nonce,
     Participants |->
        [i \in DOMAIN params.Parts |->
            [EthAddress |-> NoHolder,
             CcAddress |-> MarshalBinary(params.Parts[i][StellarBackendID])]],
     LedgerChannel |-> params.LedgerChannel, VirtualChannel |-> params.VirtualChannel]
\* A part without an address of one of the backends has zero bytes there.
ToEthParams(params) ==
    LET part(i) == params.Parts[i]
    IN [ChallengeDuration |-> params.ChallengeDuration, Nonce |-> params.Nonce,
        Participants |->
            [i \in DOMAIN params.Parts |->
                [EthAddress |-> IF EthBackendID \in DOMAIN part(i)
                                THEN part(i)[EthBackendID] ELSE NoHolder,
                 CcAddress |-> IF StellarBackendID \in DOMAIN part(i)
                               THEN MarshalBinary(part(i)[StellarBackendID])
                               ELSE NoContract]],
        LedgerChannel |-> params.LedgerChannel, VirtualChannel |-> params.VirtualChannel]

\* The tuple that is packed, in its order.
EncodeChannelParams(p) ==
    <<p.ChallengeDuration, p.Nonce,
      [i \in DOMAIN p.Participants |->
          <<p.Participants[i].EthAddress, p.Participants[i].CcAddress>>],
      p.LedgerChannel, p.VirtualChannel>>

\* The hash of the encoded params, taken as the encoding itself.
CalcID(params) == EncodeChannelParams(ToEthParams(params))

-----------------------------------------------------------------------------
(* Actions *)

\* Mutant of AddAccount: the new account takes the place of the old one.
AddAccountAnew(p) ==
    /\ \E acc \in Accounts[p] :
          LET k == String(Address(acc))
          IN accounts' = [accounts EXCEPT ![p] =
                             [j \in DOMAIN @ \cup {k} |-> IF j = k THEN acc ELSE @[j]]]
    /\ UNCHANGED <<given, held, restarts, proposals, opened, source>>
AddAccount(p) ==
    /\ \E acc \in Accounts[p] :
          LET k == String(Address(acc))
          IN /\ k \notin DOMAIN accounts[p]
             /\ accounts' = [accounts EXCEPT ![p] =
                                [j \in DOMAIN @ \cup {k} |-> IF j = k THEN acc ELSE @[j]]]
    /\ UNCHANGED <<given, held, restarts, proposals, opened, source>>

\* p tells its peer the address of one of its accounts.
GiveAddress(p) ==
    /\ \E k \in DOMAIN accounts[p] :
          LET addr == Address(accounts[p][k])
          IN /\ given' = [given EXCEPT ![p] = @ \cup {addr}]
             /\ CanUnmarshalBinary(MarshalBinary(addr))
             /\ held' = [held EXCEPT ![Peer(p)] = @ \cup {Travelled(addr)}]
    /\ UNCHANGED <<accounts, restarts, proposals, opened, source>>

\* A part with a Stellar address, and with an Ethereum one if eth is a set of one.
Part(addr, eth) ==
    [b \in {StellarBackendID} \cup {EthBackendID : e \in eth} |->
        IF b = StellarBackendID THEN addr ELSE CHOOSE e \in eth : TRUE]
MaybeEth == {{}} \cup {{e} : e \in EthAddresses}

\* Party 1 proposes a channel between one of its accounts and an address that it has
\* received, be it up to date or not.
Propose ==
    /\ Cardinality(proposals) < MaxProposals
    /\ \E a \in given[1], b \in held[1], eth1, eth2 \in MaybeEth, nonce \in Nonces :
          LET params == [Parts |-> <<Part(a, eth1), Part(b, eth2)>>,
                         Nonce |-> nonce, ChallengeDuration |-> 1,
                         LedgerChannel |-> TRUE, VirtualChannel |-> FALSE]
          IN proposals' = proposals \cup {[sent |-> params, got |-> TravelledParams(params)]}
    /\ UNCHANGED <<accounts, given, held, restarts, opened, source>>

\* buildOpenTxArgs: the params of a proposal go to the contract.
Open ==
    /\ opened = Unopened
    /\ \E proposal \in proposals :
          LET params == proposal.sent
          IN /\ CanMakeParams(params)
             /\ CanParamsToScVal(MakeParams(params))
             /\ opened' = ParamsToScVal(MakeParams(params))
             /\ source' = params
    /\ UNCHANGED <<accounts, given, held, restarts, proposals>>

\* NewEphemeralWallet: the accounts live in memory.
Restart(p) ==
    /\ restarts[p] < MaxRestarts
    /\ restarts' = [restarts EXCEPT ![p] = @ + 1]
    /\ accounts' = [accounts EXCEPT ![p] = <<>>]
    /\ given' = [given EXCEPT ![p] = {}]
    /\ UNCHANGED <<held, proposals, opened, source>>

Init ==
    /\ accounts = [p \in Party |-> <<>>]
    /\ given = [p \in Party |-> {}]
    /\ held = [p \in Party |-> {}]
    /\ restarts = [p \in Party |-> 0]
    /\ proposals = {}
    /\ opened = Unopened
    /\ source = Unopened

Next ==
    \/ \E p \in Party : AddAccount(p) \/ GiveAddress(p) \/ Restart(p)
    \/ Propose
    \/ Open

Spec == Init /\ [][Next]_vars

-----------------------------------------------------------------------------
(* Properties *)

\* The params of a proposal that party p has.
ParamsOf(p, proposal) == IF p = 1 THEN proposal.sent ELSE proposal.got

\* A party that takes its own address out of a proposal, in which it has come back
\* from the peer, unlocks an account whose signature the peer accepts as that of
\* the participant it knows.  It holds for the addresses that the party has given
\* out since it started: an address of an earlier wallet can unlock an account
\* with another key, as a wallet is searched by Stellar address only.
SignaturesVerify ==
    \A p \in Party, proposal \in proposals :
        LET own == ParamsOf(p, proposal)
            others == ParamsOf(Peer(p), proposal)
            addr == own.Parts[p][StellarBackendID]
        IN addr \in given[p] =>
              /\ CanUnlock(p, addr)
              /\ VerifySignature(CalcID(others), SignData(Unlock(p, addr), CalcID(own)),
                                 others.Parts[p][StellarBackendID])

\* A channel ID stands for one channel: params with the same ID agree on everything,
\* whichever of the parties has computed it, the Ethereum addresses included.
IdBinds ==
    \A p, q \in Party, x, y \in proposals :
        CalcID(ParamsOf(p, x)) = CalcID(ParamsOf(q, y)) => ParamsOf(p, x) = ParamsOf(q, y)

\* The params that the backend reads off the contract have the ID of the channel, if
\* no party has an Ethereum address; if one has, the ID is that of another channel.
IdSurvives ==
    opened # Unopened =>
        LET read == ToParams(ParamsFromScVal(opened))
        IN /\ CanParamsFromScVal(opened) /\ CanToParams(ParamsFromScVal(opened))
           /\ CalcID(read) = CalcID(source)
                <=> \A i \in DOMAIN source.Parts :
                       DOMAIN source.Parts[i] = {StellarBackendID}
=============================================================================
