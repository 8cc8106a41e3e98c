------------------------------ MODULE Encoding ------------------------------
(***************************************************************************)
(* One channel in all its forms: the state that the parties update and     *)
(* sign off-chain, the channel that the contract stores when that state is *)
(* opened or registered, and what the backend reads back.                  *)
(*                                                                         *)
(* The off-chain protocol (go-perun) and the contract are the environment: *)
(* a new state is proposed when both parties have signed the current one,  *)
(* and the contract accepts a state whose encoding both have signed.       *)
(***************************************************************************)
EXTENDS Wire, FiniteSets

CONSTANTS
    InitialParams,   \* the params a channel may have
    InitialStates,   \* the first states it may have
    Amounts,         \* bound: the balances that updates choose from
    Lockings,        \* bound: the sub-allocations that updates choose from
    MaxVersion,      \* bound: the last version
    MaxRejected,     \* bound: the proposals that are signed and then replaced
    Controls         \* bound: the control structs that the contract may hold

\* Params of go-perun, whose addresses of this backend are participants.
IsParams(ps) ==
    /\ ps = [Parts |-> ps.Parts, Nonce |-> ps.Nonce,
             ChallengeDuration |-> ps.ChallengeDuration,
             LedgerChannel |-> ps.LedgerChannel, VirtualChannel |-> ps.VirtualChannel]
    /\ CanNewParams(ps.ChallengeDuration)
    /\ ps.LedgerChannel \in BOOLEAN /\ ps.VirtualChannel \in BOOLEAN
    /\ ps.Parts = [i \in 1..Len(ps.Parts) |-> ps.Parts[i]]
    /\ \A i \in DOMAIN ps.Parts :
          StellarBackendID \in DOMAIN ps.Parts[i] =>
              IsAddress(ps.Parts[i][StellarBackendID])

\* A state of a channel: as many balances and backends as assets, every asset of
\* this ledger (number 2) or of another one, with its backend; and the allocations of
\* the sub-channels in which funds are locked.
IsAsset(a) ==
    /\ a = [kind |-> a.kind, ledger |-> a.ledger, address |-> a.address]
    /\ \/ a.kind = "stellar" /\ a.ledger = StellarBackendID
       \/ a.kind = "eth" /\ a.ledger # StellarBackendID
BackendOf(a) == IF a.kind = "eth" THEN EthBackendID ELSE StellarBackendID
IsLocking(locked) ==
    /\ locked = [k \in 1..Len(locked) |-> locked[k]]
    /\ \A k \in DOMAIN locked :
          locked[k] = [ID |-> locked[k].ID, Bals |-> locked[k].Bals,
                       IndexMap |-> locked[k].IndexMap]
IsState(s) ==
    /\ s = [ID |-> s.ID, Version |-> s.Version, IsFinal |-> s.IsFinal,
            Assets |-> s.Assets, Backends |-> s.Backends,
            Balances |-> s.Balances, Locked |-> s.Locked]
    /\ s.IsFinal \in BOOLEAN /\ IsLocking(s.Locked)
    /\ s.Balances \in Seq(Nat \X Nat) /\ s.Balances # <<>>
    /\ s.Assets # <<>> /\ Len(s.Assets) = Len(s.Balances)
    /\ DOMAIN s.Assets = DOMAIN s.Balances
    /\ \A i \in DOMAIN s.Assets : IsAsset(s.Assets[i])
    /\ s.Backends = [i \in DOMAIN s.Assets |-> BackendOf(s.Assets[i])]

ASSUME InitialParamsAssumption == \A ps \in InitialParams : IsParams(ps)
ASSUME InitialStatesAssumption == \A s \in InitialStates : IsState(s) /\ s.Version = 0
ASSUME MaxVersionAssumption == MaxVersion \in Nat
ASSUME AmountsAssumption == Amounts \subseteq Nat
ASSUME LockingsAssumption == \A locked \in Lockings : IsLocking(locked)

VARIABLES
    params,  \* channel.Params of the channel
    state,   \* channel.State that the parties hold
    signed,  \* signed[p]: the states that party p has signed
    stored,  \* what the contract stores, as a Soroban value; or NoChannel
    source   \* the channel.State from which stored.state was encoded

vars == <<params, state, signed, stored, source>>

Parties == 1..2
NoChannel == <<>>

-----------------------------------------------------------------------------
(* Signatures *)

Encode(s) == EncodeEthState(ToEthState(s))

\* Verify: the signature of some state that p has signed is one of data.
Verify(p, data) == \E s \in signed[p] : Encode(s) = data

SignedByBoth(s) == \A p \in Parties : s \in signed[p]
Agreed == {s \in signed[1] \cup signed[2] : SignedByBoth(s)}

-----------------------------------------------------------------------------
(* What the backend reads *)

\* GetChannelInfo, and the channel of an event: ChannelFromScVal, then ToState and
\* ToParams.
CanReadChannel ==
    /\ CanChannelFromScVal(stored)
    /\ LET ch == ChannelFromScVal(stored) IN CanToState(ch.State) /\ CanToParams(ch.Params)
ReadChannel ==
    LET ch == ChannelFromScVal(stored)
    IN [Params |-> ToParams(ch.Params), State |-> ToState(ch.State), Control |-> ch.Control]

\* GetBalance, for an account that holds so many tokens.
GetBalance(tokens) == CombineHalves(MakeInt128Parts(tokens))

-----------------------------------------------------------------------------
(* Actions *)

Sign(p) ==
    /\ CheckBackends(state.Backends)
    /\ state \notin signed[p]
    /\ signed' = [signed EXCEPT ![p] = @ \cup {state}]
    /\ UNCHANGED <<params, state, stored, source>>

\* A row of balances with the same sum.
Moves(row) == {new \in Amounts \X Amounts : new[1] + new[2] = row[1] + row[2]}

NextVersions ==
    IF SignedByBoth(state)
    THEN {v \in {state.Version + 1} : ~state.IsFinal /\ v <= MaxVersion}
    ELSE {v \in {state.Version} :
             v > 0 /\ Cardinality(signed[1] \cup signed[2]) <= MaxRejected + v}

\* A party proposes a next state once both have signed the current one; it may be
\* final or lock funds.  A proposal that the peer rejects is replaced by another one
\* with the same version, although its proposer may have signed it.
Propose ==
    /\ stored # NoChannel
    /\ \E version \in NextVersions,
          rows \in [DOMAIN state.Balances -> Amounts \X Amounts],
          final \in BOOLEAN, locked \in Lockings :
          /\ \A i \in DOMAIN rows : rows[i] \in Moves(state.Balances[i])
          /\ final => locked = <<>>
          /\ state' = [state EXCEPT !.Version = version, !.Balances = rows,
                                    !.IsFinal = final, !.Locked = locked]
    /\ UNCHANGED <<params, signed, stored, source>>

Random == [DOMAIN state.Assets -> RandomAddresses]

\* The control of a channel that has just been opened.
OpenControl ==
    [FundedA |-> FALSE, FundedB |-> FALSE, Closed |-> FALSE, WithdrawnA |-> FALSE,
     WithdrawnB |-> FALSE, Disputed |-> FALSE, Timestamp |-> 0]

\* buildOpenTxArgs
Open ==
    /\ stored = NoChannel
    /\ state.Version = 0
    /\ CanMakeParams(params) /\ CanParamsToScVal(MakeParams(params))
    /\ CanMakeState(state)
    /\ \E random \in Random :
          stored' = [params |-> ParamsToScVal(MakeParams(params)),
                     state |-> StateToScVal(MakeState(state, random)),
                     control |-> ControlToScVal(OpenControl)]
    /\ source' = state
    /\ UNCHANGED <<params, state, signed>>

\* buildSignedStateTxArgs, for dispute and close; the contract verifies.
Register ==
    /\ stored # NoChannel
    /\ state.Version > stored.state.version
    /\ CanMakeState(state)
    /\ \E random \in Random :
          LET arg == StateToScVal(MakeState(state, random))
          IN /\ \A p \in Parties : Verify(p, ContractEncoding(arg))
             /\ stored' = [stored EXCEPT !.state = arg]
    /\ source' = state
    /\ UNCHANGED <<params, state, signed>>

\* Whatever else happens to the channel in the contract.
ControlChanges ==
    /\ stored # NoChannel
    /\ \E control \in Controls :
          stored' = [stored EXCEPT !.control = ControlToScVal(control)]
    /\ UNCHANGED <<params, state, signed, source>>

Init ==
    /\ params \in InitialParams
    /\ state \in InitialStates
    /\ signed = [p \in Parties |-> {}]
    /\ stored = NoChannel
    /\ source = state

Next ==
    \/ \E p \in Parties : Sign(p)
    \/ Propose
    \/ Open
    \/ Register
    \/ ControlChanges

Spec == Init /\ [][Next]_vars

-----------------------------------------------------------------------------
(* Properties *)

\* The contract only holds i128 balances whose halves are in range.
TypeOK ==
    /\ params \in InitialParams
    /\ state.Version \in 0..MaxVersion
    /\ stored # NoChannel =>
          \A i \in DOMAIN stored.state.balances.tokens :
              /\ IsInt128Parts(stored.state.balances.bal_a[i])
              /\ IsInt128Parts(stored.state.balances.bal_b[i])

\* The contract accepts the signatures of every state that can be encoded: the two
\* ways from a state to the signed bytes, by ToEthState and by MakeState and the
\* contract, agree, whichever random addresses stand for foreign assets.
SignaturesAreAccepted ==
    CanMakeState(state) =>
        \A random \in Random :
            ContractEncoding(StateToScVal(MakeState(state, random))) = Encode(state)

\* A state with the index maps of its sub-channels written out: none stands for the
\* order of the channel.
WithIndexMap(sub) ==
    IF sub.IndexMap = <<>> THEN [sub EXCEPT !.IndexMap = <<0, 1>>] ELSE sub
Explicit(s) == [s EXCEPT !.Locked = [k \in DOMAIN @ |-> WithIndexMap(@[k])]]

\* A signature is good for one state only, with its sub-channels: a party's signatures
\* verify for the current state only if the party has signed that very state, or one
\* that says the same with or without a sub-channel's index map.
SignatureBinds ==
    \A p \in Parties :
        Verify(p, Encode(state)) => \E s \in signed[p] : Explicit(s) = Explicit(state)

\* The params without what the contract does not keep, the Ethereum addresses.
StellarPart(part) == [b \in {StellarBackendID} |-> part[b]]
OnStellar(ps) == [ps EXCEPT !.Parts = [i \in DOMAIN @ |-> StellarPart(@[i])]]

\* What the backend can read off the contract is the state that was registered,
\* with its ID, version, final flag and balances, and its Stellar assets in place;
\* and the params, down to the coordinates of the public keys.
ReadIsRegistered ==
    stored # NoChannel =>
        /\ CanReadChannel
        /\ ReadChannel.Params = OnStellar(params)
        /\ ControlToScVal(ReadChannel.Control) = stored.control
        /\ LET s == ReadChannel.State
           IN /\ <<s.ID, s.Version, s.IsFinal, s.Balances>>
                   = <<source.ID, source.Version, source.IsFinal, source.Balances>>
              /\ \A i \in DOMAIN source.Assets :
                    source.Assets[i].kind = "stellar" => s.Assets[i] = source.Assets[i]

\* From signing over encoding, verification, storage and decoding: what the backend
\* reads off the ledger, after the opening, has the version, the balances and the flag
\* of a state that both parties have signed, and there is no other such state with that
\* version; the signature of a proposal that the peer has rejected is good for nothing.
ReadIsAgreed ==
    stored # NoChannel /\ ReadChannel.State.Version > 0 =>
        \E s \in Agreed :
            /\ \A t \in Agreed : t.Version = ReadChannel.State.Version => t = s
            /\ ReadChannel.State.ID = s.ID
            /\ ReadChannel.State.Version = s.Version
            /\ ReadChannel.State.IsFinal = s.IsFinal
            /\ ReadChannel.State.Balances = s.Balances

(* What the repository says and the code does not do; see the README. *)

\* "we assume that for each asset there is an element in backends corresponding to
\* the backendID the asset belongs to": of every state the backend hands out.
BackendsFit ==
    stored # NoChannel =>
        LET s == ReadChannel.State
        IN /\ Len(s.Backends) = Len(s.Assets)
           /\ \A i \in DOMAIN s.Assets :
                 s.Backends[i] = BackendOf(s.Assets[i])

\* "Combine hi and lo into a single big.Int": the balance of an account to which the
\* contract has paid its share of the stored state.
BalanceIsCombined ==
    stored # NoChannel =>
        \A i \in DOMAIN source.Balances, j \in 1..2 :
            GetBalance(source.Balances[i][j]) = source.Balances[i][j]
=============================================================================
