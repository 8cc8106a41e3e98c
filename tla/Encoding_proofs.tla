-------------------------- MODULE Encoding_proofs --------------------------
(***************************************************************************)
(* What is signed and what the contract is given, for every state a channel*)
(* can reach, all amounts and halves of every width.                       *)
(***************************************************************************)
EXTENDS Encoding, Wire_proofs

\* A function on an initial segment is a sequence, of that length.
LEMMA FunctionIsSeq ==
    ASSUME NEW S, NEW n \in Nat, NEW f \in [1..n -> S]
    PROVE  f \in Seq(S) /\ Len(f) = n
<1>1. f \in Seq(S)
  BY SeqDef
<1>2. Len(f) \in Nat /\ DOMAIN f = 1..Len(f) /\ DOMAIN f = 1..n
  BY <1>1
<1> QED
  BY <1>1, <1>2

\* The states of a channel keep the form of the first one.
StateInv == IsState(state)

LEMMA InitState == Init => StateInv
  BY InitialStatesAssumption DEF Init, StateInv

\* An update replaces version, balances and flags only.
LEMMA ProposeState == StateInv /\ Propose => StateInv'
<1> SUFFICES ASSUME StateInv, Propose PROVE StateInv'
  OBVIOUS
<1>1. PICK version \in NextVersions,
           rows \in [DOMAIN state.Balances -> Amounts \X Amounts],
           final \in BOOLEAN, locked \in Lockings :
               /\ \A i \in DOMAIN rows : rows[i] \in Moves(state.Balances[i])
               /\ final => locked = <<>>
               /\ state' = [state EXCEPT !.Version = version, !.Balances = rows,
                                         !.IsFinal = final, !.Locked = locked]
  BY Zenon DEF Propose
<1>2. state' = [ID |-> state.ID, Version |-> version, IsFinal |-> final,
                Assets |-> state.Assets, Backends |-> state.Backends,
                Balances |-> rows, Locked |-> locked]
  BY <1>1 DEF StateInv, IsState
<1>3. /\ rows \in Seq(Nat \X Nat)
      /\ Len(rows) = Len(state.Balances)
      /\ DOMAIN rows = DOMAIN state.Balances
  <2>1. /\ state.Balances \in Seq(Nat \X Nat)
        /\ Len(state.Balances) \in Nat
        /\ DOMAIN state.Balances = 1..Len(state.Balances)
    BY DEF StateInv, IsState
  <2>2. rows \in [1..Len(state.Balances) -> Nat \X Nat]
    BY <2>1, AmountsAssumption
  <2>3. rows \in Seq(Nat \X Nat) /\ Len(rows) = Len(state.Balances)
    BY <2>1, <2>2, FunctionIsSeq
  <2> QED
    BY <2>1, <2>2, <2>3
<1>4. IsLocking(locked)
  BY <1>1, LockingsAssumption
<1> QED
  BY <1>2, <1>3, <1>4 DEF StateInv, IsState

LEMMA NextState == StateInv /\ [Next]_vars => StateInv'
<1> SUFFICES ASSUME StateInv, [Next]_vars PROVE StateInv'
  OBVIOUS
<1>1. CASE Propose
  BY <1>1, ProposeState
<1>2. CASE UNCHANGED state
  BY <1>2 DEF StateInv, IsState
<1> QED
  BY <1>1, <1>2 DEF Next, vars, Sign, Open, Register, ControlChanges

LEMMA StateInvariant == Spec => []StateInv
  BY InitState, NextState, PTL DEF Spec

-----------------------------------------------------------------------------
(* The two ways to the signed bytes *)

\* What the contract is given for asset i of a state.
LEMMA TokenOfAsset ==
    ASSUME IsState(state), NEW random, NEW i \in DOMAIN state.Assets
    PROVE  LET t == AssetToScVal(MakeTokens(state.Assets, random)[i])
               a == state.Assets[i]
           IN /\ t.chain[1] = a.ledger
              /\ a.kind = "stellar" =>
                    /\ a.ledger = StellarBackendID
                    /\ t.stellar_address = a.address
              /\ a.kind = "eth" =>
                    /\ a.ledger # StellarBackendID
                    /\ t.eth_address = a.address
              /\ a.kind \in {"stellar", "eth"}
<1>1. IsAsset(state.Assets[i])
  BY DEF IsState
<1> QED
  BY <1>1 DEF IsAsset, AssetToScVal, MakeTokens

\* The balances that the contract reads are the balances of the state.
LEMMA BalancesOfState ==
    ASSUME IsState(state), CanMakeState(state), NEW random
    PROVE  LET b == MakeBalances(state, random)
           IN [i \in DOMAIN state.Assets |-> <<Int128(b.BalA[i]), Int128(b.BalB[i])>>]
                = state.Balances
<1> DEFINE b == MakeBalances(state, random)
<1>1. DOMAIN state.Assets = DOMAIN state.Balances
  BY DEF IsState
<1>2. ASSUME NEW i \in DOMAIN state.Balances
      PROVE  <<Int128(b.BalA[i]), Int128(b.BalB[i])>> = state.Balances[i]
  <2>1. state.Balances[i] \in Nat \X Nat
    BY DEF IsState
  <2>2. \A j \in 1..2 : CanMakeInt128Parts(state.Balances[i][j])
    BY DEF CanMakeState, CanMakeBalances
  <2>3. /\ b.BalA[i] = MakeInt128Parts(state.Balances[i][1])
        /\ b.BalB[i] = MakeInt128Parts(state.Balances[i][2])
    BY DEF MakeBalances
  <2>4. /\ Int128(b.BalA[i]) = state.Balances[i][1]
        /\ Int128(b.BalB[i]) = state.Balances[i][2]
    BY <2>2, <2>3, BalanceRoundTrip
  <2> QED
    BY <2>1, <2>4
<1>3. state.Balances = [i \in DOMAIN state.Balances |-> state.Balances[i]]
  BY DEF IsState
<1> HIDE DEF b
<1> QED
  BY <1>1, <1>2, <1>3 DEF b

\* The contract recomputes from its argument the very encoding of the state, whatever
\* the random addresses of foreign assets.
LEMMA EncodingsAgree == StateInv => SignaturesAreAccepted
<1> SUFFICES ASSUME IsState(state), CanMakeState(state), NEW random \in Random
             PROVE  ContractEncoding(StateToScVal(MakeState(state, random)))
                      = Encode(state)
  BY DEF StateInv, SignaturesAreAccepted
<1> DEFINE D == DOMAIN state.Assets
           b == MakeBalances(state, random)
           v == StateToScVal(MakeState(state, random))
           t(i) == AssetToScVal(MakeTokens(state.Assets, random)[i])
           stellar(i) == t(i).chain[1] = StellarBackendID
<1>1. /\ v.channel_id = state.ID
      /\ v.version = state.Version
      /\ v.finalized = state.IsFinal
      /\ v.balances.bal_a = b.BalA
      /\ v.balances.bal_b = b.BalB
      /\ v.balances.tokens = [i \in D |-> t(i)]
  BY DEF StateToScVal, MakeState, BalancesToScVal, MakeBalances, MakeTokens
<1>2. [i \in D |-> IF stellar(i)
                   THEN <<StellarBackendID, NoHolder, t(i).stellar_address>>
                   ELSE <<t(i).chain[1], t(i).eth_address, NoContract>>]
        = [i \in D |-> <<EthChannelAsset(state, i).ChainID,
                         EthChannelAsset(state, i).EthAsset,
                         EthChannelAsset(state, i).CCAsset>>]
  <2>1. \A i \in D : state.Backends[i] = BackendOf(state.Assets[i])
    BY DEF IsState
  <2> QED
    BY <2>1, TokenOfAsset DEF EthChannelAsset, BackendOf, EthBackendID, StellarBackendID
<1>3. [i \in D |-> IF stellar(i) THEN StellarBackendID ELSE EthBackendID]
        = state.Backends
  <2>1. state.Backends = [i \in D |-> BackendOf(state.Assets[i])]
    BY DEF IsState
  <2>2. \A i \in D : (IF stellar(i) THEN StellarBackendID ELSE EthBackendID)
                        = BackendOf(state.Assets[i])
    BY TokenOfAsset DEF BackendOf
  <2> QED
    BY <2>1, <2>2
<1>4. [i \in D |-> <<Int128(b.BalA[i]), Int128(b.BalB[i])>>] = state.Balances
  BY BalancesOfState
<1>5. state.Locked = <<>>
  BY DEF CanMakeState, CanMakeBalances
<1>6. ContractEncoding(v)
        = <<state.ID, state.Version,
            <<[i \in D |-> IF stellar(i)
                           THEN <<StellarBackendID, NoHolder, t(i).stellar_address>>
                           ELSE <<t(i).chain[1], t(i).eth_address, NoContract>>],
              [i \in D |-> IF stellar(i) THEN StellarBackendID ELSE EthBackendID],
              [i \in D |-> <<Int128(b.BalA[i]), Int128(b.BalB[i])>>], <<>>>>,
            state.IsFinal>>
  <2> HIDE DEF b, v, t, D
  <2>1. DOMAIN v.balances.tokens = D
    BY <1>1
  <2>2. \A i \in D : v.balances.tokens[i] = t(i)
    BY <1>1
  <2> QED
    BY <1>1, <2>1, <2>2 DEF ContractEncoding
<1>7. Encode(state)
        = <<state.ID, state.Version,
            <<[i \in D |-> <<EthChannelAsset(state, i).ChainID,
                             EthChannelAsset(state, i).EthAsset,
                             EthChannelAsset(state, i).CCAsset>>],
              state.Backends, state.Balances, <<>>>>,
            state.IsFinal>>
  <2> DEFINE subs == EthSubAllocs(state)
             locked == [k \in DOMAIN subs |->
                           <<subs[k].ID, subs[k].Bals, subs[k].IndexMap>>]
  <2>1. DOMAIN subs = {}
    BY <1>5 DEF EthSubAllocs
  <2>2. locked = <<>>
    <3> HIDE DEF subs
    <3> QED BY <2>1
  <2> HIDE DEF subs, locked
  <2> QED
    BY <2>2 DEF Encode, EncodeEthState, ToEthState, subs, locked
<1> HIDE DEF b, v, t, D, stellar
<1> QED
  BY <1>2, <1>3, <1>4, <1>5, <1>6, <1>7 DEF v

\* The contract accepts the signatures of every state that can be encoded for it.
THEOREM SignaturesAccepted == Spec => []SignaturesAreAccepted
<1> QED
  BY EncodingsAgree, StateInvariant, PTL

-----------------------------------------------------------------------------
(* What a signature is good for *)

\* Whatever has been signed is a state of this channel, with its assets.
SignedInv ==
    /\ StateInv
    /\ signed = [p \in Parties |-> signed[p]]
    /\ \A p \in Parties : \A s \in signed[p] : IsState(s) /\ s.Assets = state.Assets

LEMMA SignedInvariant == Spec => []SignedInv
<1>1. Init => SignedInv
  BY InitState DEF Init, SignedInv
<1>2. SignedInv /\ [Next]_vars => SignedInv'
  <2> SUFFICES ASSUME SignedInv, [Next]_vars PROVE SignedInv'
    OBVIOUS
  <2>1. StateInv'
    BY NextState DEF SignedInv
  <2>2. CASE \E p \in Parties : Sign(p)
    <3>1. PICK p \in Parties : Sign(p)
      BY <2>2
    <3>2. state' = state /\ signed' = [signed EXCEPT ![p] = @ \cup {state}]
      BY <3>1 DEF Sign
    <3>3. signed' = [q \in Parties |-> IF q = p THEN signed[q] \cup {state} ELSE signed[q]]
      BY <3>2 DEF SignedInv
    <3> QED
      BY <2>1, <3>2, <3>3 DEF SignedInv, StateInv
  <2>3. CASE Propose
    <3>1. state'.Assets = state.Assets /\ signed' = signed
      <4>1. IsState(state)
        BY DEF SignedInv, StateInv
      <4> QED
        BY <2>3, <4>1 DEF Propose, IsState
    <3> QED
      BY <2>1, <3>1 DEF SignedInv
  <2>4. CASE UNCHANGED <<state, signed>>
    BY <2>1, <2>4 DEF SignedInv
  <2> QED
    BY <2>2, <2>3, <2>4 DEF Next, vars, Open, Register, ControlChanges
<1> QED
  BY <1>1, <1>2, PTL DEF Spec

\* The allocations of sub-channels are encoded with their index maps.
LEMMA EncodedLocking ==
    ASSUME NEW s, IsState(s)
    PROVE  LET e == ToEthState(s).Outcome.Locked
               x == Explicit(s).Locked
           IN /\ e = x
              /\ \A k \in DOMAIN x :
                    x[k] = [ID |-> x[k].ID, Bals |-> x[k].Bals, IndexMap |-> x[k].IndexMap]
<1> DEFINE x == [k \in DOMAIN s.Locked |-> WithIndexMap(s.Locked[k])]
<1>1. \A k \in DOMAIN s.Locked :
         /\ s.Locked[k] = [ID |-> s.Locked[k].ID, Bals |-> s.Locked[k].Bals,
                           IndexMap |-> s.Locked[k].IndexMap]
         /\ EthSubAlloc(s.Locked[k]) = WithIndexMap(s.Locked[k])
         /\ x[k] = [ID |-> x[k].ID, Bals |-> x[k].Bals, IndexMap |-> x[k].IndexMap]
  BY DEF IsState, IsLocking, EthSubAlloc, WithIndexMap
<1>2. ToEthState(s).Outcome.Locked = x
  <2> DEFINE e == EthSubAllocs(s)
  <2>1. e = x
    BY <1>1 DEF EthSubAllocs
  <2> HIDE DEF e, x
  <2> QED
    BY <2>1 DEF ToEthState, e
<1>3. Explicit(s).Locked = x
  <2> HIDE DEF x
  <2>1. Explicit(s) = [s EXCEPT !.Locked = x]
    BY DEF Explicit, x
  <2>2. s = [ID |-> s.ID, Version |-> s.Version, IsFinal |-> s.IsFinal,
             Assets |-> s.Assets, Backends |-> s.Backends,
             Balances |-> s.Balances, Locked |-> s.Locked]
    BY DEF IsState
  <2> QED
    BY <2>1, <2>2
<1> HIDE DEF x
<1> QED
  BY <1>1, <1>2, <1>3 DEF x

\* States of a channel with equal encodings are equal, but for an index map that one of
\* them does not give: everything but the assets is part of the encoding.
LEMMA EncodingIsInjective ==
    ASSUME NEW s, NEW t, IsState(s), IsState(t), s.Assets = t.Assets,
           Encode(s) = Encode(t)
    PROVE  Explicit(s) = Explicit(t)
<1> DEFINE es == ToEthState(s).Outcome.Locked
           et == ToEthState(t).Outcome.Locked
           tuples(e) == [k \in DOMAIN e |-> <<e[k].ID, e[k].Bals, e[k].IndexMap>>]
<1>1. /\ s.ID = t.ID /\ s.Version = t.Version /\ s.IsFinal = t.IsFinal
      /\ s.Backends = t.Backends /\ s.Balances = t.Balances
      /\ tuples(es) = tuples(et)
  <2>1. /\ ToEthState(s).ChannelID = s.ID /\ ToEthState(t).ChannelID = t.ID
        /\ ToEthState(s).Version = s.Version /\ ToEthState(t).Version = t.Version
        /\ ToEthState(s).IsFinal = s.IsFinal /\ ToEthState(t).IsFinal = t.IsFinal
        /\ ToEthState(s).Outcome.Backends = s.Backends
        /\ ToEthState(t).Outcome.Backends = t.Backends
        /\ ToEthState(s).Outcome.Balances = s.Balances
        /\ ToEthState(t).Outcome.Balances = t.Balances
    BY DEF ToEthState
  <2> QED
    BY <2>1 DEF Encode, EncodeEthState
<1>2. /\ es = Explicit(s).Locked /\ et = Explicit(t).Locked
      /\ \A k \in DOMAIN es :
            es[k] = [ID |-> es[k].ID, Bals |-> es[k].Bals, IndexMap |-> es[k].IndexMap]
      /\ \A k \in DOMAIN et :
            et[k] = [ID |-> et[k].ID, Bals |-> et[k].Bals, IndexMap |-> et[k].IndexMap]
      /\ es = [k \in DOMAIN es |-> es[k]] /\ et = [k \in DOMAIN et |-> et[k]]
  <2>1. es = EthSubAllocs(s) /\ et = EthSubAllocs(t)
    BY DEF ToEthState
  <2> QED
    BY <2>1, EncodedLocking DEF EthSubAllocs
<1> HIDE DEF es, et
<1>3. es = et
  <2>1. DOMAIN tuples(es) = DOMAIN es /\ DOMAIN tuples(et) = DOMAIN et
    OBVIOUS
  <2>2. DOMAIN es = DOMAIN et
    BY <1>1, <2>1
  <2>3. ASSUME NEW k \in DOMAIN es PROVE es[k] = et[k]
    <3>1. tuples(es)[k] = tuples(et)[k]
      BY <1>1
    <3>2. <<es[k].ID, es[k].Bals, es[k].IndexMap>> = <<et[k].ID, et[k].Bals, et[k].IndexMap>>
      BY <2>2, <2>3, <3>1
    <3> QED
      BY <1>2, <2>2, <3>2
  <2> QED
    BY <1>2, <2>2, <2>3
<1>4. Explicit(s).Locked = Explicit(t).Locked
  BY <1>2, <1>3
<1> QED
  <2> DEFINE xs == [k \in DOMAIN s.Locked |-> WithIndexMap(s.Locked[k])]
             xt == [k \in DOMAIN t.Locked |-> WithIndexMap(t.Locked[k])]
  <2>1. Explicit(s) = [s EXCEPT !.Locked = xs] /\ Explicit(t) = [t EXCEPT !.Locked = xt]
    BY DEF Explicit
  <2> HIDE DEF xs, xt
  <2>2. /\ s = [ID |-> s.ID, Version |-> s.Version, IsFinal |-> s.IsFinal,
                Assets |-> s.Assets, Backends |-> s.Backends,
                Balances |-> s.Balances, Locked |-> s.Locked]
        /\ t = [ID |-> t.ID, Version |-> t.Version, IsFinal |-> t.IsFinal,
                Assets |-> t.Assets, Backends |-> t.Backends,
                Balances |-> t.Balances, Locked |-> t.Locked]
    BY DEF IsState
  <2>3. xs = xt
    BY <1>4, <2>1, <2>2
  <2> QED
    BY <1>1, <2>1, <2>2, <2>3

\* Without sub-channels there is no difference.
LEMMA WithoutSubChannels ==
    ASSUME NEW s, NEW t, IsState(s), IsState(t), Explicit(s) = Explicit(t), t.Locked = <<>>
    PROVE  s = t
<1> DEFINE xs == [k \in DOMAIN s.Locked |-> WithIndexMap(s.Locked[k])]
           xt == [k \in DOMAIN t.Locked |-> WithIndexMap(t.Locked[k])]
<1>1. Explicit(s) = [s EXCEPT !.Locked = xs] /\ Explicit(t) = [t EXCEPT !.Locked = xt]
  BY DEF Explicit
<1>2. DOMAIN xs = DOMAIN s.Locked /\ DOMAIN xt = DOMAIN t.Locked
  OBVIOUS
<1> HIDE DEF xs, xt
<1>3. /\ s = [ID |-> s.ID, Version |-> s.Version, IsFinal |-> s.IsFinal,
              Assets |-> s.Assets, Backends |-> s.Backends,
              Balances |-> s.Balances, Locked |-> s.Locked]
      /\ t = [ID |-> t.ID, Version |-> t.Version, IsFinal |-> t.IsFinal,
              Assets |-> t.Assets, Backends |-> t.Backends,
              Balances |-> t.Balances, Locked |-> t.Locked]
  BY DEF IsState
<1>4. /\ s.ID = t.ID /\ s.Version = t.Version /\ s.IsFinal = t.IsFinal
      /\ s.Assets = t.Assets /\ s.Backends = t.Backends /\ s.Balances = t.Balances
      /\ xs = xt
  BY <1>1, <1>3
<1>5. DOMAIN s.Locked = {}
  BY <1>2, <1>4
<1>6. s.Locked = <<>>
  <2> DEFINE locked == s.Locked
  <2>1. locked = [k \in 1..Len(locked) |-> locked[k]]
    BY DEF IsState, IsLocking
  <2> HIDE DEF locked
  <2>2. DOMAIN locked = 1..Len(locked)
    BY <2>1
  <2>3. locked = [k \in {} |-> locked[k]]
    BY <1>5, <2>1, <2>2 DEF locked
  <2> QED
    BY <2>3 DEF locked
<1> QED
  BY <1>3, <1>4, <1>6

\* A signature verifies for a state that says what its party has signed, and for no other.
LEMMA SignedIsBound == SignedInv => SignatureBinds
<1> SUFFICES ASSUME SignedInv, NEW p \in Parties, Verify(p, Encode(state))
             PROVE  \E s \in signed[p] : Explicit(s) = Explicit(state)
  BY DEF SignatureBinds
<1>1. PICK s \in signed[p] : Encode(s) = Encode(state)
  BY DEF Verify
<1>2. Explicit(s) = Explicit(state)
  BY <1>1, EncodingIsInjective DEF SignedInv, StateInv
<1> QED
  BY <1>2

\* A party's signatures verify for the current state only if it has signed that state,
\* or one that differs only in whether it gives the index map of a sub-channel.
THEOREM SignaturesBind == Spec => []SignatureBinds
<1> QED
  BY SignedIsBound, SignedInvariant, PTL

-----------------------------------------------------------------------------
(* What is stored, and what is read back *)

\* A state that could be encoded is decoded to the same ID, version, flag, balances
\* and Stellar assets.
LEMMA StateRoundTrip ==
    ASSUME NEW s, IsState(s), CanMakeState(s), NEW random
    PROVE  LET v == StateToScVal(MakeState(s, random))
               w == StateFromScVal(v)
               r == ToState(w)
           IN /\ CanStateFromScVal(v)
              /\ CanToState(w)
              /\ r.ID = s.ID /\ r.Version = s.Version /\ r.IsFinal = s.IsFinal
              /\ r.Balances = s.Balances
              /\ \A i \in DOMAIN s.Assets :
                    s.Assets[i].kind = "stellar" => r.Assets[i] = s.Assets[i]
<1> DEFINE D == DOMAIN s.Balances
           b == MakeBalances(s, random)
           v == StateToScVal(MakeState(s, random))
           w == StateFromScVal(v)
           r == ToState(w)
<1>1. /\ Len(s.Balances) \in Nat /\ Len(s.Balances) > 0
      /\ D = 1..Len(s.Balances) /\ DOMAIN s.Assets = D
  BY EmptySeq DEF IsState
<1>2. ASSUME NEW i \in D, NEW j \in 1..2
      PROVE  LET parts == MakeInt128Parts(s.Balances[i][j])
             IN IsInt128Parts(parts) /\ ToBigInt(parts) = s.Balances[i][j]
  <2>1. CanMakeInt128Parts(s.Balances[i][j])
    BY DEF CanMakeState, CanMakeBalances
  <2> QED
    BY <2>1, BalanceRoundTrip
<1>3. /\ b.BalA = [i \in D |-> MakeInt128Parts(s.Balances[i][1])]
      /\ b.BalB = [i \in D |-> MakeInt128Parts(s.Balances[i][2])]
      /\ b.Tokens = MakeTokens(s.Assets, random)
      /\ b = [BalA |-> b.BalA, BalB |-> b.BalB, Tokens |-> b.Tokens]
  BY DEF MakeBalances
<1>4. /\ DOMAIN b.Tokens = D
      /\ \A i \in D : /\ b.Tokens[i] = [Chain |-> b.Tokens[i].Chain,
                                        StellarAddress |-> b.Tokens[i].StellarAddress,
                                        EthAddress |-> b.Tokens[i].EthAddress]
                      /\ s.Assets[i].kind = "stellar" =>
                            b.Tokens[i].StellarAddress = s.Assets[i].address
  BY <1>1, <1>3 DEF MakeTokens
<1>5. v = [channel_id |-> s.ID, balances |-> BalancesToScVal(b),
           version |-> s.Version, finalized |-> s.IsFinal]
  BY DEF StateToScVal, MakeState
<1> HIDE DEF b, v
<1>6. CanBalancesFromScVal(BalancesToScVal(b))
  BY DEF CanBalancesFromScVal, CanAssetFromScVal, BalancesToScVal, AssetToScVal
<1>7. BalancesFromScVal(BalancesToScVal(b)) = b
  <2> DEFINE tokens == [i \in D |-> AssetFromScVal(AssetToScVal(b.Tokens[i]))]
  <2>1. BalancesFromScVal(BalancesToScVal(b))
          = [BalA |-> b.BalA, BalB |-> b.BalB, Tokens |-> tokens]
    BY <1>4 DEF BalancesFromScVal, BalancesToScVal
  <2>2. \A i \in D : AssetFromScVal(AssetToScVal(b.Tokens[i])) = b.Tokens[i]
    BY <1>4 DEF AssetFromScVal, AssetToScVal
  <2>3. tokens = b.Tokens
    BY <1>3, <1>4, <2>2 DEF MakeTokens
  <2> HIDE DEF tokens
  <2> QED
    BY <1>3, <2>1, <2>3
<1>8. w = [ChannelID |-> s.ID, Balances |-> b, Version |-> s.Version,
           Finalized |-> s.IsFinal]
  BY <1>5, <1>7 DEF StateFromScVal
<1>9. CanStateFromScVal(v)
  BY <1>5, <1>6 DEF CanStateFromScVal
<1> HIDE DEF w
<1>10. CanToState(w)
  <2>1. Len(b.BalA) = Len(s.Balances) /\ Len(b.BalB) = Len(s.Balances)
    BY <1>1, <1>3, FunctionIsSeq
  <2>2. Len(b.Tokens) = Len(s.Balances)
    BY <1>1, <1>3, FunctionIsSeq DEF MakeTokens
  <2>3. b.Tokens # <<>>
    BY <1>1, <2>2
  <2> QED
    BY <1>8, <2>1, <2>2, <2>3 DEF CanToState
<1> DEFINE assets == ConvertAssets(b.Tokens)
           balances == [i \in D |-> <<ToBigInt(b.BalA[i]), ToBigInt(b.BalB[i])>>]
<1>11. DOMAIN assets = D
  BY <1>4 DEF ConvertAssets
<1>12. /\ r.ID = s.ID /\ r.Version = s.Version /\ r.IsFinal = s.IsFinal
       /\ r.Assets = assets /\ r.Balances = balances
  <2> HIDE DEF assets
  <2>1. \A i \in D : /\ BigInts(b.BalA)[i] = ToBigInt(b.BalA[i])
                     /\ BigInts(b.BalB)[i] = ToBigInt(b.BalB[i])
    BY <1>3 DEF BigInts
  <2>2. [i \in D |-> <<BigInts(b.BalA)[i], BigInts(b.BalB)[i]>>] = balances
    BY <2>1
  <2> QED
    BY <1>8, <1>11, <2>2 DEF ToState, MakeAllocationMulti, assets
<1>13. balances = s.Balances
  <2>1. ASSUME NEW i \in D
        PROVE  <<ToBigInt(b.BalA[i]), ToBigInt(b.BalB[i])>> = s.Balances[i]
    <3>1. s.Balances[i] \in Nat \X Nat
      BY DEF IsState
    <3>2. ToBigInt(b.BalA[i]) = s.Balances[i][1] /\ ToBigInt(b.BalB[i]) = s.Balances[i][2]
      BY <1>2, <1>3
    <3> QED
      BY <3>1, <3>2
  <2>2. s.Balances = [i \in D |-> s.Balances[i]]
    BY DEF IsState
  <2> QED
    BY <2>1, <2>2
<1>14. ASSUME NEW i \in D, s.Assets[i].kind = "stellar"
       PROVE  assets[i] = s.Assets[i]
  <2>1. IsAsset(s.Assets[i])
    BY <1>1 DEF IsState
  <2>2. assets[i] = StellarAsset(s.Assets[i].address)
    BY <1>4, <1>14 DEF ConvertAssets
  <2> QED
    BY <1>14, <2>1, <2>2 DEF IsAsset, StellarAsset, StellarBackendID
<1> HIDE DEF r, assets, balances
<1> QED
  BY <1>1, <1>9, <1>10, <1>12, <1>13, <1>14 DEF r, w, v

\* What the contract stores was made from the params and from the source.
StoredInv ==
    stored # NoChannel =>
        /\ stored = [params |-> ParamsToScVal(MakeParams(params)),
                     state |-> stored.state, control |-> stored.control]
        /\ CanMakeParams(params)
        /\ IsState(source) /\ CanMakeState(source)
        /\ \E random \in [DOMAIN source.Assets -> RandomAddresses] :
              stored.state = StateToScVal(MakeState(source, random))
        /\ \E control \in Controls \cup {OpenControl} :
              stored.control = ControlToScVal(control)

IInv ==
    /\ StateInv
    /\ state.Version \in 0..MaxVersion
    /\ params \in InitialParams
    /\ StoredInv

LEMMA InitInv == Init => IInv
  BY InitState, InitialStatesAssumption, MaxVersionAssumption
     DEF Init, IInv, StoredInv

LEMMA ProposedVersion ==
    ASSUME IInv, Propose
    PROVE  state'.Version \in 0..MaxVersion
<1>1. PICK version \in NextVersions,
           rows \in [DOMAIN state.Balances -> Amounts \X Amounts],
           final \in BOOLEAN, locked \in Lockings :
               /\ \A i \in DOMAIN rows : rows[i] \in Moves(state.Balances[i])
               /\ final => locked = <<>>
               /\ state' = [state EXCEPT !.Version = version, !.Balances = rows,
                                         !.IsFinal = final, !.Locked = locked]
  BY Zenon DEF Propose
<1>2. state'.Version = version
  BY <1>1 DEF IInv, StateInv, IsState
<1> QED
  BY <1>1, <1>2, MaxVersionAssumption DEF NextVersions, IInv

LEMMA NextInv == IInv /\ [Next]_vars => IInv'
<1> SUFFICES ASSUME IInv, [Next]_vars PROVE IInv'
  OBVIOUS
<1>1. StateInv'
  BY NextState DEF IInv
<1>2. CASE UNCHANGED vars \/ \E p \in Parties : Sign(p)
  BY <1>1, <1>2 DEF IInv, StoredInv, Sign, vars
<1>3. CASE Propose
  BY <1>1, <1>3, ProposedVersion DEF IInv, StoredInv, Propose
<1>4. CASE Open
  <2>1. PICK random \in Random :
          stored' = [params |-> ParamsToScVal(MakeParams(params)),
                     state |-> StateToScVal(MakeState(state, random)),
                     control |-> ControlToScVal(OpenControl)]
    BY <1>4 DEF Open
  <2>2. /\ CanMakeParams(params) /\ CanMakeState(state)
        /\ source' = state /\ UNCHANGED <<params, state>>
    BY <1>4 DEF Open
  <2>3. StoredInv'
    <3>1. \E r \in [DOMAIN source'.Assets -> RandomAddresses] :
            stored'.state = StateToScVal(MakeState(source', r))
      BY <2>1, <2>2 DEF Random
    <3>2. stored'.control = ControlToScVal(OpenControl)
      BY <2>1
    <3>3. stored' = [params |-> ParamsToScVal(MakeParams(params')),
                     state |-> stored'.state, control |-> stored'.control]
      BY <2>1, <2>2
    <3> QED
      BY <2>2, <3>1, <3>2, <3>3 DEF StoredInv, IInv, StateInv
  <2> QED
    BY <1>1, <2>2, <2>3 DEF IInv
<1>5. CASE Register
  <2>1. PICK random \in Random :
          stored' = [stored EXCEPT !.state = StateToScVal(MakeState(state, random))]
    BY <1>5 DEF Register
  <2>2. /\ stored # NoChannel /\ CanMakeState(state)
        /\ source' = state /\ UNCHANGED <<params, state>>
    BY <1>5 DEF Register
  <2>3. stored' = [params |-> ParamsToScVal(MakeParams(params)),
                   state |-> StateToScVal(MakeState(state, random)),
                   control |-> stored.control]
    BY <2>1, <2>2 DEF IInv, StoredInv
  <2>4. StoredInv'
    <3>1. \E r \in [DOMAIN source'.Assets -> RandomAddresses] :
            stored'.state = StateToScVal(MakeState(source', r))
      BY <2>2, <2>3 DEF Random
    <3>2. stored' = [params |-> ParamsToScVal(MakeParams(params')),
                     state |-> stored'.state, control |-> stored'.control]
      BY <2>2, <2>3
    <3>3. stored'.control = stored.control
      BY <2>3
    <3> QED
      BY <2>2, <3>1, <3>2, <3>3 DEF StoredInv, IInv, StateInv
  <2> QED
    BY <1>1, <2>2, <2>4 DEF IInv
<1>6. CASE ControlChanges
  <2>1. PICK control \in Controls :
          stored' = [stored EXCEPT !.control = ControlToScVal(control)]
    BY <1>6 DEF ControlChanges
  <2>2. stored # NoChannel /\ UNCHANGED <<params, state, source>>
    BY <1>6 DEF ControlChanges
  <2>3. stored' = [params |-> ParamsToScVal(MakeParams(params)),
                   state |-> stored.state, control |-> ControlToScVal(control)]
    BY <2>1, <2>2 DEF IInv, StoredInv
  <2>4. StoredInv'
    <3>1. /\ stored'.state = stored.state
          /\ stored'.control = ControlToScVal(control)
          /\ stored' = [params |-> ParamsToScVal(MakeParams(params')),
                        state |-> stored'.state, control |-> stored'.control]
      BY <2>2, <2>3
    <3> QED
      BY <2>2, <3>1 DEF StoredInv, IInv
  <2> QED
    BY <1>1, <2>2, <2>4 DEF IInv
<1> QED
  BY <1>2, <1>3, <1>4, <1>5, <1>6 DEF Next

LEMMA Invariant == Spec => []IInv
  BY InitInv, NextInv, PTL DEF Spec

\* The contract only holds i128 balances whose halves are in range.
THEOREM TypeCorrect == Spec => []TypeOK
<1>1. IInv => TypeOK
  <2> SUFFICES ASSUME IInv, stored # NoChannel,
                      NEW i \in DOMAIN stored.state.balances.tokens
               PROVE  /\ IsInt128Parts(stored.state.balances.bal_a[i])
                      /\ IsInt128Parts(stored.state.balances.bal_b[i])
    BY DEF TypeOK, IInv
  <2>1. /\ IsState(source) /\ CanMakeState(source)
        /\ \E random \in [DOMAIN source.Assets -> RandomAddresses] :
              stored.state = StateToScVal(MakeState(source, random))
    BY DEF IInv, StoredInv
  <2>2. PICK random \in [DOMAIN source.Assets -> RandomAddresses] :
          stored.state = StateToScVal(MakeState(source, random))
    BY <2>1
  <2>3. i \in DOMAIN source.Balances
    <3> DEFINE v == StateToScVal(MakeState(source, random))
               tokens == MakeTokens(source.Assets, random)
    <3>1. v.balances.tokens = [k \in DOMAIN tokens |-> AssetToScVal(tokens[k])]
      <4> HIDE DEF tokens
      <4> QED
        BY DEF StateToScVal, MakeState, BalancesToScVal, MakeBalances, tokens
    <3>2. DOMAIN tokens = DOMAIN source.Balances
      BY <2>1 DEF MakeTokens, IsState
    <3> HIDE DEF tokens
    <3> QED
      BY <2>2, <3>1, <3>2
  <2>4. /\ stored.state.balances.bal_a[i] = MakeInt128Parts(source.Balances[i][1])
        /\ stored.state.balances.bal_b[i] = MakeInt128Parts(source.Balances[i][2])
    BY <2>2, <2>3 DEF StateToScVal, MakeState, BalancesToScVal, MakeBalances
  <2>5. \A j \in 1..2 : CanMakeInt128Parts(source.Balances[i][j])
    BY <2>1, <2>3 DEF CanMakeState, CanMakeBalances
  <2> QED
    BY <2>4, <2>5, BalanceRoundTrip
<1> QED
  BY <1>1, Invariant, PTL

\* What the backend reads is what was registered, and the params but for their
\* Ethereum addresses.
THEOREM ReadRegistered == Spec => []ReadIsRegistered
<1>1. IInv => ReadIsRegistered
  <2> SUFFICES ASSUME IInv, stored # NoChannel PROVE ReadIsRegistered
    BY DEF ReadIsRegistered
  <2>1. PICK random \in [DOMAIN source.Assets -> RandomAddresses] :
          stored.state = StateToScVal(MakeState(source, random))
    BY DEF IInv, StoredInv
  <2>2. PICK control \in Controls \cup {OpenControl} :
          stored.control = ControlToScVal(control)
    BY DEF IInv, StoredInv
  <2> DEFINE vp == ParamsToScVal(MakeParams(params))
             vs == stored.state
             vc == stored.control
  <2>3. stored = [params |-> vp, state |-> vs, control |-> vc]
    BY DEF IInv, StoredInv
  <2>4. /\ CanControlFromScVal(vc)
        /\ ControlToScVal(ControlFromScVal(vc)) = vc
    BY <2>2 DEF CanControlFromScVal, ControlToScVal, ControlFromScVal
  <2>5. LET r == ToState(StateFromScVal(vs))
        IN /\ CanStateFromScVal(vs)
           /\ CanToState(StateFromScVal(vs))
           /\ r.ID = source.ID /\ r.Version = source.Version
           /\ r.IsFinal = source.IsFinal /\ r.Balances = source.Balances
           /\ \A i \in DOMAIN source.Assets :
                 source.Assets[i].kind = "stellar" => r.Assets[i] = source.Assets[i]
    BY <2>1, StateRoundTrip DEF IInv, StoredInv
  <2>6. /\ CanParamsFromScVal(vp)
        /\ CanToParams(ParamsFromScVal(vp))
        /\ ToParams(ParamsFromScVal(vp)) = OnStellar(params)
    <3>1. IsParams(params) /\ CanMakeParams(params)
      BY InitialParamsAssumption DEF IInv, StoredInv
    <3>2. DOMAIN params.Parts = 1..2
      BY <3>1 DEF IsParams, CanMakeParams
    <3>3. /\ IsAddress(params.Parts[1][StellarBackendID])
          /\ IsAddress(params.Parts[2][StellarBackendID])
      BY <3>1, <3>2 DEF IsParams, CanMakeParams
    <3>4. params = [Parts |-> params.Parts, Nonce |-> params.Nonce,
                    ChallengeDuration |-> params.ChallengeDuration,
                    LedgerChannel |-> TRUE, VirtualChannel |-> FALSE]
      BY <3>1 DEF IsParams, CanMakeParams
    <3> DEFINE stellar(part) == [b \in {StellarBackendID} |-> part[b]]
               parts == <<stellar(params.Parts[1]), stellar(params.Parts[2])>>
    <3>5. /\ CanParamsFromScVal(vp)
          /\ CanToParams(ParamsFromScVal(vp))
          /\ ToParams(ParamsFromScVal(vp)) = [params EXCEPT !.Parts = parts]
      BY <3>1, <3>3, <3>4, ParamsRoundTrip DEF IsParams
    <3>6. [i \in DOMAIN params.Parts |-> StellarPart(params.Parts[i])] = parts
      <4>1. [i \in 1..2 |-> StellarPart(params.Parts[i])]
              = <<StellarPart(params.Parts[1]), StellarPart(params.Parts[2])>>
        OBVIOUS
      <4> QED
        BY <3>2, <4>1 DEF StellarPart
    <3>7. OnStellar(params) = [params EXCEPT !.Parts = parts]
      <4> HIDE DEF parts
      <4> QED BY <3>6 DEF OnStellar
    <3> QED
      BY <3>5, <3>7
  <2> HIDE DEF vp, vs, vc
  <2>7. /\ ChannelFromScVal(stored).Params = ParamsFromScVal(vp)
        /\ ChannelFromScVal(stored).State = StateFromScVal(vs)
        /\ ChannelFromScVal(stored).Control = ControlFromScVal(vc)
        /\ CanChannelFromScVal(stored)
    BY <2>3, <2>4, <2>5, <2>6 DEF ChannelFromScVal, CanChannelFromScVal
  <2>8. CanReadChannel
    BY <2>5, <2>6, <2>7 DEF CanReadChannel
  <2>9. /\ ReadChannel.Params = OnStellar(params)
        /\ ReadChannel.State = ToState(StateFromScVal(vs))
        /\ ReadChannel.Control = ControlFromScVal(vc)
    BY <2>6, <2>7 DEF ReadChannel
  <2>10. stored.control = vc
    BY <2>3
  <2> QED
    BY <2>4, <2>5, <2>8, <2>9, <2>10 DEF ReadIsRegistered
<1> QED
  BY <1>1, Invariant, PTL

-----------------------------------------------------------------------------
(* What is stored was agreed *)

\* Signatures are never ahead of the current state; both parties have signed it or
\* only older ones; and there is one agreed state for each version.
AgreedInv ==
    /\ \A p \in Parties : \A s \in signed[p] : s.Version \in 0..state.Version
    /\ \A s \in Agreed : s # state => s.Version < state.Version
    /\ \A s \in Agreed, t \in Agreed : s.Version = t.Version => s = t

\* What the contract has registered was agreed.
RegisteredIsAgreed == stored # NoChannel /\ source.Version > 0 => SignedByBoth(source)

\* The contract only verifies the two signatures of the current state's encoding.
LEMMA RegisterAgreed ==
    ASSUME SignedInv, Register
    PROVE  SignedByBoth(state) /\ source' = state /\ signed' = signed
<1>1. /\ CanMakeState(state)
      /\ source' = state /\ signed' = signed
      /\ \E random \in Random :
            \A p \in Parties :
               Verify(p, ContractEncoding(StateToScVal(MakeState(state, random))))
  BY DEF Register
<1>2. PICK random \in Random :
        \A p \in Parties : Verify(p, ContractEncoding(StateToScVal(MakeState(state, random))))
  BY <1>1
<1>3. ContractEncoding(StateToScVal(MakeState(state, random))) = Encode(state)
  BY <1>1, EncodingsAgree DEF SignedInv, SignaturesAreAccepted
<1>4. ASSUME NEW p \in Parties PROVE state \in signed[p]
  <2>1. PICK s \in signed[p] : Explicit(s) = Explicit(state)
    BY <1>2, <1>3, SignedIsBound DEF SignatureBinds
  <2>2. IsState(s) /\ IsState(state) /\ state.Locked = <<>>
    BY <1>1 DEF SignedInv, StateInv, CanMakeState, CanMakeBalances
  <2> QED
    BY <2>1, <2>2, WithoutSubChannels
<1> QED
  BY <1>1, <1>4 DEF SignedByBoth

\* What an action does to the current state and the signatures.
LEMMA SignaturesStep ==
    ASSUME SignedInv, IInv, [Next]_vars
    PROVE  \/ /\ state' = state
              /\ \A p \in Parties : /\ signed[p] \subseteq signed'[p]
                                    /\ signed'[p] \subseteq signed[p] \cup {state}
           \/ /\ signed' = signed
              /\ state'.Version = IF SignedByBoth(state) THEN state.Version + 1
                                                         ELSE state.Version
<1>1. ASSUME NEW p \in Parties, Sign(p)
      PROVE  /\ state' = state
             /\ \A q \in Parties : /\ signed[q] \subseteq signed'[q]
                                   /\ signed'[q] \subseteq signed[q] \cup {state}
  <2>1. state' = state /\ signed' = [signed EXCEPT ![p] = @ \cup {state}]
    BY <1>1 DEF Sign
  <2>2. signed' = [q \in Parties |-> IF q = p THEN signed[q] \cup {state} ELSE signed[q]]
    BY <2>1 DEF SignedInv
  <2> QED
    BY <2>1, <2>2
<1>2. ASSUME Propose
      PROVE  /\ signed' = signed
             /\ state'.Version = IF SignedByBoth(state) THEN state.Version + 1
                                                        ELSE state.Version
  <2>1. PICK version \in NextVersions,
             rows \in [DOMAIN state.Balances -> Amounts \X Amounts],
             final \in BOOLEAN, locked \in Lockings :
                 /\ \A i \in DOMAIN rows : rows[i] \in Moves(state.Balances[i])
                 /\ final => locked = <<>>
                 /\ state' = [state EXCEPT !.Version = version, !.Balances = rows,
                                           !.IsFinal = final, !.Locked = locked]
    BY <1>2, Zenon DEF Propose
  <2>2. state'.Version = version
    BY <2>1 DEF IInv, StateInv, IsState
  <2>3. version = IF SignedByBoth(state) THEN state.Version + 1 ELSE state.Version
    BY <2>1 DEF NextVersions
  <2> QED
    BY <1>2, <2>2, <2>3 DEF Propose
<1>3. CASE UNCHANGED <<state, signed>>
  BY <1>3
<1> QED
  BY <1>1, <1>2, <1>3 DEF Next, vars, Open, Register, ControlChanges

LEMMA AgreedStep ==
    ASSUME SignedInv, IInv, AgreedInv, [Next]_vars
    PROVE  AgreedInv' /\ \A s : SignedByBoth(s) => SignedByBoth(s)'
<1>1. state.Version \in Nat
  BY MaxVersionAssumption DEF IInv
<1>2. \A s : s \in Agreed <=> SignedByBoth(s)
  BY DEF Agreed, SignedByBoth, Parties
<1>3. \A s : s \in Agreed' <=> \A p \in Parties : s \in signed'[p]
  BY DEF Agreed, SignedByBoth, Parties
<1>4. CASE /\ state' = state
           /\ \A p \in Parties : /\ signed[p] \subseteq signed'[p]
                                 /\ signed'[p] \subseteq signed[p] \cup {state}
  <2>1. Agreed' \subseteq Agreed \cup {state}
    BY <1>2, <1>3, <1>4 DEF SignedByBoth
  <2>2. \A s : SignedByBoth(s) => SignedByBoth(s)'
    BY <1>4 DEF SignedByBoth
  <2> QED
    BY <1>1, <1>4, <2>1, <2>2 DEF AgreedInv
<1>5. CASE /\ signed' = signed
           /\ state'.Version = IF SignedByBoth(state) THEN state.Version + 1
                                                      ELSE state.Version
  <2>1. Agreed' = Agreed /\ \A s : SignedByBoth(s) => SignedByBoth(s)'
    BY <1>5 DEF Agreed, SignedByBoth
  <2>2. /\ state'.Version \in Nat /\ state.Version <= state'.Version
        /\ \A p \in Parties : \A s \in signed'[p] : s.Version \in 0..state'.Version
    BY <1>1, <1>5 DEF AgreedInv
  <2>3. \A s \in Agreed : s.Version \in 0..state.Version
    BY DEF Agreed, AgreedInv, Parties
  <2>4. \A s \in Agreed : s.Version < state'.Version
    <3>1. CASE SignedByBoth(state)
      BY <1>1, <1>5, <2>3, <3>1
    <3>2. CASE ~SignedByBoth(state)
      BY <1>1, <1>2, <1>5, <2>3, <3>2 DEF AgreedInv
    <3> QED
      BY <3>1, <3>2
  <2> QED
    BY <2>1, <2>2, <2>4 DEF AgreedInv
<1> QED
  BY <1>4, <1>5, SignaturesStep

LEMMA AgreedAlways == Spec => [](AgreedInv /\ RegisteredIsAgreed)
<1>1. Init => AgreedInv /\ RegisteredIsAgreed
  <2> SUFFICES ASSUME Init PROVE AgreedInv /\ RegisteredIsAgreed
    OBVIOUS
  <2>1. \A p \in Parties : signed[p] = {}
    BY DEF Init
  <2> QED
    BY <2>1 DEF Init, AgreedInv, RegisteredIsAgreed, Agreed, Parties
<1>2. ASSUME SignedInv, IInv, AgreedInv, RegisteredIsAgreed, [Next]_vars
      PROVE  RegisteredIsAgreed'
  <2> USE DEF RegisteredIsAgreed
  <2>1. \A s : SignedByBoth(s) => SignedByBoth(s)'
    BY <1>2, AgreedStep
  <2>2. CASE Register
    <3>1. SignedByBoth(state) /\ source' = state /\ signed' = signed
      BY <1>2, <2>2, RegisterAgreed
    <3> QED
      BY <3>1 DEF SignedByBoth
  <2>3. CASE Open
    BY <1>2, <2>3 DEF Open
  <2>4. CASE source' = source /\ (stored' # NoChannel => stored # NoChannel)
    BY <1>2, <2>1, <2>4 DEF SignedByBoth
  <2> QED
    BY <1>2, <2>2, <2>3, <2>4 DEF Next, vars, Sign, Propose, ControlChanges
<1> QED
  BY <1>1, <1>2, AgreedStep, SignedInvariant, Invariant, PTL DEF Spec

\* A state comes onto the ledger, after the opening, only if both parties have signed that
\* very state: the signature of a proposal that the peer has rejected is good for nothing.
THEOREM RegisteredWasSigned == Spec => []RegisteredIsAgreed
<1> QED
  BY AgreedAlways, PTL

\* From signing over encoding, verification and storage to decoding, the backend never
\* shows anything that is not the agreement of the two parties.
THEOREM ReadWasAgreed == Spec => []ReadIsAgreed
<1>1. ASSUME ReadIsRegistered, AgreedInv, RegisteredIsAgreed
      PROVE  ReadIsAgreed
  <2> SUFFICES ASSUME stored # NoChannel, ReadChannel.State.Version > 0
               PROVE  \E s \in Agreed :
                        /\ \A t \in Agreed : t.Version = ReadChannel.State.Version => t = s
                        /\ ReadChannel.State.ID = s.ID
                        /\ ReadChannel.State.Version = s.Version
                        /\ ReadChannel.State.IsFinal = s.IsFinal
                        /\ ReadChannel.State.Balances = s.Balances
    BY DEF ReadIsAgreed
  <2>1. /\ ReadChannel.State.ID = source.ID
        /\ ReadChannel.State.Version = source.Version
        /\ ReadChannel.State.IsFinal = source.IsFinal
        /\ ReadChannel.State.Balances = source.Balances
    BY <1>1 DEF ReadIsRegistered
  <2>2. SignedByBoth(source)
    BY <1>1, <2>1 DEF RegisteredIsAgreed
  <2>3. source \in Agreed
    BY <2>2 DEF Agreed, SignedByBoth, Parties
  <2>4. \A t \in Agreed : t.Version = source.Version => t = source
    BY <1>1, <2>3 DEF AgreedInv
  <2> WITNESS source \in Agreed
  <2> QED
    BY <2>1, <2>4
<1> QED
  BY <1>1, AgreedAlways, ReadRegistered, PTL
=============================================================================
