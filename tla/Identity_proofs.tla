-------------------------- MODULE Identity_proofs --------------------------
(***************************************************************************)
(* Addresses survive their binary form and the contract, the channel ID    *)
(* determines the params, and signatures verify: for bytes of every width, *)
(* all accounts and any number of proposals and restarts.                  *)
(***************************************************************************)
EXTENDS Identity, Wire_proofs

\* A part as a party may have it: an address of this backend, and perhaps an
\* Ethereum address that is not zero.
IsPart(part) ==
    /\ part = [b \in DOMAIN part |-> part[b]]
    /\ DOMAIN part \in {{StellarBackendID}, {EthBackendID, StellarBackendID}}
    /\ IsAddress(part[StellarBackendID])
    /\ EthBackendID \in DOMAIN part => part[EthBackendID] # NoHolder
IsParams(ps) ==
    /\ ps = [Parts |-> ps.Parts, Nonce |-> ps.Nonce,
             ChallengeDuration |-> ps.ChallengeDuration,
             LedgerChannel |-> ps.LedgerChannel, VirtualChannel |-> ps.VirtualChannel]
    /\ ps.Parts = [i \in DOMAIN ps.Parts |-> ps.Parts[i]]
    /\ \A i \in DOMAIN ps.Parts : IsPart(ps.Parts[i])

\* The concatenation of a key and the rest of an address.
LEMMA Concat5And2 ==
    ASSUME NEW a, NEW b, NEW c, NEW d, NEW e, NEW f, NEW g
    PROVE  <<a, b, c, d, e>> \o <<f, g>> = <<a, b, c, d, e, f, g>>
<1> DEFINE S == {a, b, c, d, e, f, g}
           s == <<a, b, c, d, e>>  t == <<f, g>>  r == <<a, b, c, d, e, f, g>>
<1>1. s \in Seq(S) /\ t \in Seq(S) /\ r \in Seq(S)
  OBVIOUS
<1>2. /\ Len(s) = 5 /\ Len(t) = 2 /\ Len(r) = 7
      /\ s[1] = r[1] /\ s[2] = r[2] /\ s[3] = r[3] /\ s[4] = r[4] /\ s[5] = r[5]
      /\ t[1] = r[6] /\ t[2] = r[7]
  OBVIOUS
<1> HIDE DEF S, s, t, r
<1>3. /\ s \o t \in Seq(S)
      /\ Len(s \o t) = Len(s) + Len(t)
      /\ \A i \in 1..(Len(s) + Len(t)) :
            (s \o t)[i] = IF i <= Len(s) THEN s[i] ELSE t[i - Len(s)]
  BY <1>1, ConcatProperties
<1>4. \A i \in 1..7 : (s \o t)[i] = r[i]
  <2>1. \A i \in 1..5 : (s \o t)[i] = s[i] /\ s[i] = r[i]
    BY <1>2, <1>3
  <2>2. (s \o t)[6] = t[1] /\ (s \o t)[7] = t[2]
    BY <1>2, <1>3
  <2>3. (s \o t)[6] = r[6] /\ (s \o t)[7] = r[7]
    BY <1>2, <2>2
  <2>4. \A i \in 1..7 : i \in 1..5 \/ i = 6 \/ i = 7
    OBVIOUS
  <2> QED
    BY <2>1, <2>3, <2>4
<1>5. Len(s \o t) = Len(r)
  BY <1>2, <1>3
<1>6. \A i \in 1..Len(s \o t) : (s \o t)[i] = r[i]
  BY <1>2, <1>4, <1>5
<1>7. s \o t = r
  BY <1>1, <1>3, <1>5, <1>6, SeqEqual
<1> QED
  BY <1>7 DEF s, t, r

\* The binary form of an address, element by element.
LEMMA AddressBytes ==
    ASSUME NEW addr, IsAddress(addr)
    PROVE  LET key == addr.StellarPubKey
           IN MarshalBinary(addr) =
                  <<4, key.X \div Base, key.X % Base, key.Y \div Base, key.Y % Base,
                    addr.StellarAddress, addr.CCAddr>>
<1> DEFINE key == addr.StellarPubKey
           a == key.X \div Base  b == key.X % Base
           c == key.Y \div Base  d == key.Y % Base
           e == addr.StellarAddress  f == addr.CCAddr
<1>1. PublicKeyToBytes(key) = <<4, a, b, c, d>>
  BY KeyBytes DEF IsAddress
<1>2. MarshalBinary(addr) = PublicKeyToBytes(key) \o <<e, f>>
  BY DEF MarshalBinary
<1> HIDE DEF key, a, b, c, d, e, f
<1>3. <<4, a, b, c, d>> \o <<e, f>> = <<4, a, b, c, d, e, f>>
  BY Concat5And2
<1> QED
  BY <1>1, <1>2, <1>3 DEF key, a, b, c, d, e, f

\* No two addresses have the same binary form (address.go:58), with whatever zero
\* bytes the coordinates of their keys begin.
THEOREM MarshalBinds ==
    ASSUME NEW x, IsAddress(x), NEW y, IsAddress(y), MarshalBinary(x) = MarshalBinary(y)
    PROVE  x = y
<1> DEFINE kx == x.StellarPubKey  ky == y.StellarPubKey
<1>1. <<4, kx.X \div Base, kx.X % Base, kx.Y \div Base, kx.Y % Base,
        x.StellarAddress, x.CCAddr>>
      = <<4, ky.X \div Base, ky.X % Base, ky.Y \div Base, ky.Y % Base,
          y.StellarAddress, y.CCAddr>>
  BY AddressBytes
<1>2. /\ kx.X \div Base = ky.X \div Base /\ kx.X % Base = ky.X % Base
      /\ kx.Y \div Base = ky.Y \div Base /\ kx.Y % Base = ky.Y % Base
      /\ x.StellarAddress = y.StellarAddress /\ x.CCAddr = y.CCAddr
  <2> DEFINE sx == <<4, kx.X \div Base, kx.X % Base, kx.Y \div Base, kx.Y % Base,
                     x.StellarAddress, x.CCAddr>>
             sy == <<4, ky.X \div Base, ky.X % Base, ky.Y \div Base, ky.Y % Base,
                     y.StellarAddress, y.CCAddr>>
  <2>1. \A i \in 1..7 : sx[i] = sy[i]
    BY <1>1
  <2> QED
    BY <2>1
<1>3. kx.X = ky.X /\ kx.Y = ky.Y
  <2>1. \A n \in Coordinate : n = Base * (n \div Base) + (n % Base)
    BY PaddedBytes
  <2>2. kx.X \in Coordinate /\ ky.X \in Coordinate /\ kx.Y \in Coordinate /\ ky.Y \in Coordinate
    BY DEF IsAddress, IsKey
  <2> QED
    BY <1>2, <2>1, <2>2
<1>4. kx = ky
  BY <1>3 DEF IsAddress, IsKey
<1> QED
  BY <1>2, <1>4 DEF IsAddress

\* Params that one could not tell apart by their IDs are the same (backend.go:39 and
\* ethbackend.go:140): the ID binds the nonce, the duration, the flags and every
\* address of every part.
THEOREM IdIsInjective ==
    ASSUME NEW x, IsParams(x), NEW y, IsParams(y), CalcID(x) = CalcID(y)
    PROVE  x = y
<1> DEFINE ex == ToEthParams(x)  ey == ToEthParams(y)
           tx == [i \in DOMAIN ex.Participants |->
                     <<ex.Participants[i].EthAddress, ex.Participants[i].CcAddress>>]
           ty == [i \in DOMAIN ey.Participants |->
                     <<ey.Participants[i].EthAddress, ey.Participants[i].CcAddress>>]
<1>1. /\ ex.ChallengeDuration = ey.ChallengeDuration
      /\ ex.Nonce = ey.Nonce
      /\ tx = ty
      /\ ex.LedgerChannel = ey.LedgerChannel
      /\ ex.VirtualChannel = ey.VirtualChannel
  <2>1. <<ex.ChallengeDuration, ex.Nonce, tx, ex.LedgerChannel, ex.VirtualChannel>>
        = <<ey.ChallengeDuration, ey.Nonce, ty, ey.LedgerChannel, ey.VirtualChannel>>
    BY DEF CalcID, EncodeChannelParams
  <2> HIDE DEF ex, ey, tx, ty
  <2> QED
    BY <2>1
<1>2. /\ x.ChallengeDuration = y.ChallengeDuration
      /\ x.Nonce = y.Nonce
      /\ x.LedgerChannel = y.LedgerChannel
      /\ x.VirtualChannel = y.VirtualChannel
  BY <1>1 DEF ToEthParams
<1>3. /\ DOMAIN ex.Participants = DOMAIN x.Parts
      /\ DOMAIN ey.Participants = DOMAIN y.Parts
  BY DEF ToEthParams
<1>4. DOMAIN x.Parts = DOMAIN y.Parts
  BY <1>1, <1>3
<1>5. ASSUME NEW i \in DOMAIN x.Parts PROVE x.Parts[i] = y.Parts[i]
  <2> DEFINE px == x.Parts[i]  py == y.Parts[i]
  <2>1. IsPart(px) /\ IsPart(py)
    BY <1>4 DEF IsParams
  <2>2. tx[i] = ty[i] /\ i \in DOMAIN ex.Participants /\ i \in DOMAIN ey.Participants
    BY <1>1, <1>3, <1>4
  <2>3. /\ ex.Participants[i].EthAddress = ey.Participants[i].EthAddress
        /\ ex.Participants[i].CcAddress = ey.Participants[i].CcAddress
    <3> HIDE DEF ex, ey
    <3> QED BY <2>2
  <2>4. /\ ex.Participants[i] =
             [EthAddress |-> IF EthBackendID \in DOMAIN px THEN px[EthBackendID] ELSE NoHolder,
              CcAddress |-> MarshalBinary(px[StellarBackendID])]
        /\ ey.Participants[i] =
             [EthAddress |-> IF EthBackendID \in DOMAIN py THEN py[EthBackendID] ELSE NoHolder,
              CcAddress |-> MarshalBinary(py[StellarBackendID])]
    BY <2>1, <2>2, <1>4 DEF ToEthParams, IsPart
  <2>5. px[StellarBackendID] = py[StellarBackendID]
    BY <2>1, <2>3, <2>4, MarshalBinds DEF IsPart
  <2>6. (IF EthBackendID \in DOMAIN px THEN px[EthBackendID] ELSE NoHolder)
        = (IF EthBackendID \in DOMAIN py THEN py[EthBackendID] ELSE NoHolder)
    BY <2>3, <2>4
  <2>7. /\ (EthBackendID \in DOMAIN px) = (EthBackendID \in DOMAIN py)
        /\ EthBackendID \in DOMAIN px => px[EthBackendID] = py[EthBackendID]
    BY <2>1, <2>6 DEF IsPart
  <2> HIDE DEF px, py
  <2>8. DOMAIN px = DOMAIN py
    BY <2>1, <2>7 DEF IsPart, EthBackendID, StellarBackendID
  <2>9. \A b \in DOMAIN px : px[b] = py[b]
    BY <2>1, <2>5, <2>7 DEF IsPart
  <2> QED
    BY <2>1, <2>8, <2>9 DEF IsPart, px, py
<1>6. x.Parts = y.Parts
  BY <1>4, <1>5 DEF IsParams
<1> QED
  BY <1>2, <1>6 DEF IsParams
-----------------------------------------------------------------------------
(* Round trips *)

\* UnmarshalBinary undoes MarshalBinary, for the keys that are on the curve.
LEMMA BinaryRoundTrip ==
    ASSUME NEW addr, IsAddress(addr)
    PROVE  /\ CanUnmarshalBinary(MarshalBinary(addr)) <=> addr.StellarPubKey \in Curve
           /\ Travelled(addr) = addr
<1> DEFINE key == addr.StellarPubKey
           a == key.X \div Base  b == key.X % Base
           c == key.Y \div Base  d == key.Y % Base
           e == addr.StellarAddress  f == addr.CCAddr
           data == <<4, a, b, c, d, e, f>>
           S == {4, a, b, c, d, e, f}
           front == SubSeq(data, 1, 5)
<1>1. MarshalBinary(addr) = data
  BY AddressBytes
<1>2. /\ Len(data) = 7
      /\ data[1] = 4 /\ data[2] = a /\ data[3] = b /\ data[4] = c /\ data[5] = d
      /\ data[6] = e /\ data[7] = f
  OBVIOUS
<1>3. /\ 4 \in S /\ a \in S /\ b \in S /\ c \in S /\ d \in S
  OBVIOUS
<1>4. IsKey(key)
  BY DEF IsAddress
<1> HIDE DEF data, S, a, b, c, d, e, f, key
<1>5. \A i \in 1..5 : data[i] \in S
  <2>1. \A i \in 1..5 : i = 1 \/ i = 2 \/ i = 3 \/ i = 4 \/ i = 5
    OBVIOUS
  <2> QED
    BY <1>2, <1>3, <2>1
<1>6. /\ front \in Seq(S)
      /\ Len(front) = (IF 1 <= 5 THEN 5 - 1 + 1 ELSE 0)
      /\ \A i \in 1..(5 - 1 + 1) : front[i] = data[1 + i - 1]
  BY <1>5, SubSeqProperties
<1>7. Len(front) = 5 /\ \A i \in 1..5 : front[i] = data[i]
  BY <1>6
<1>8. /\ front[1] = 4 /\ front[2] = a /\ front[3] = b /\ front[4] = c /\ front[5] = d
  BY <1>2, <1>7
<1>9. front \in Seq(S)
  BY <1>6
<1> HIDE DEF front
<1>10. CanBytesToPublicKey(front) /\ BytesToPublicKey(front) = key
  BY <1>4, <1>7, <1>8, <1>9, KeyRoundTrip DEF a, b, c, d
<1>11. CanUnmarshalBinary(data) <=> key \in Curve
  BY <1>2, <1>10 DEF CanUnmarshalBinary, CoordinateLength, front
<1>12. UnmarshalBinary(data) = [StellarAddress |-> e, StellarPubKey |-> key, CCAddr |-> f]
  BY <1>2, <1>10 DEF UnmarshalBinary, CoordinateLength, front
<1>13. addr = [StellarAddress |-> e, StellarPubKey |-> key, CCAddr |-> f]
  BY DEF IsAddress, e, f, key
<1> QED
  BY <1>1, <1>11, <1>12, <1>13 DEF Travelled, key

\* The peer gets the params that were sent.
LEMMA ParamsTravel ==
    ASSUME NEW ps, IsParams(ps)
    PROVE  TravelledParams(ps) = ps
<1> DEFINE travelled(part) ==
             [b \in DOMAIN part |->
                 IF b = StellarBackendID THEN Travelled(part[b]) ELSE part[b]]
<1>1. ASSUME NEW i \in DOMAIN ps.Parts PROVE travelled(ps.Parts[i]) = ps.Parts[i]
  <2> DEFINE part == ps.Parts[i]
  <2>1. IsPart(part)
    BY DEF IsParams
  <2> HIDE DEF part
  <2>2. \A b \in DOMAIN part :
          (IF b = StellarBackendID THEN Travelled(part[b]) ELSE part[b]) = part[b]
    BY <2>1, BinaryRoundTrip DEF IsPart
  <2>3. travelled(part) = [b \in DOMAIN part |-> part[b]]
    BY <2>2
  <2> QED
    BY <2>1, <2>3 DEF IsPart, part
<1>2. [i \in DOMAIN ps.Parts |-> travelled(ps.Parts[i])] = ps.Parts
  <2>1. [i \in DOMAIN ps.Parts |-> travelled(ps.Parts[i])]
          = [i \in DOMAIN ps.Parts |-> ps.Parts[i]]
    <3> HIDE DEF travelled
    <3> QED BY <1>1
  <2> QED
    BY <2>1 DEF IsParams
<1>3. TravelledParams(ps)
        = [ps EXCEPT !.Parts = [i \in DOMAIN ps.Parts |-> travelled(ps.Parts[i])]]
  BY DEF TravelledParams
<1>4. TravelledParams(ps) = [ps EXCEPT !.Parts = ps.Parts]
  BY <1>2, <1>3
<1> QED
  BY <1>4 DEF IsParams
-----------------------------------------------------------------------------
(* The invariant: wallets are keyed by the addresses of their accounts, what has
   been given out is in the wallet, and proposals arrive as they were sent. *)

WalletInv ==
    \A p \in Party : \A k \in DOMAIN accounts[p] :
        IsAccount(accounts[p][k]) /\ String(Address(accounts[p][k])) = k
GivenInv ==
    \A p \in Party : \A addr \in given[p] :
        IsAddress(addr) /\ CanUnlock(p, addr) /\ Address(Unlock(p, addr)) = addr
HeldInv == \A p \in Party : \A addr \in held[p] : IsAddress(addr)
IsProposed(ps) ==
    /\ IsParams(ps)
    /\ ps.Parts = <<ps.Parts[1], ps.Parts[2]>>
    /\ ps.LedgerChannel = TRUE /\ ps.VirtualChannel = FALSE
    /\ CanNewParams(ps.ChallengeDuration)
ProposalInv ==
    \A proposal \in proposals : IsProposed(proposal.sent) /\ proposal.got = proposal.sent
OpenedInv ==
    opened # Unopened =>
        IsProposed(source) /\ opened = ParamsToScVal(MakeParams(source))
Shape == accounts = [p \in Party |-> accounts[p]] /\ given = [p \in Party |-> given[p]]
            /\ held = [p \in Party |-> held[p]]

IInv == Shape /\ WalletInv /\ GivenInv /\ HeldInv /\ ProposalInv /\ OpenedInv

LEMMA AccountAddress ==
    ASSUME NEW acc, IsAccount(acc)
    PROVE  IsAddress(Address(acc))
  BY DEF IsAccount, IsAddress, Address

LEMMA InitInv == Init => IInv
  BY DEF Init, IInv, Shape, WalletInv, GivenInv, HeldInv, ProposalInv, OpenedInv

LEMMA AddAccountInv ==
    ASSUME IInv, NEW p \in Party, AddAccount(p)
    PROVE  IInv'
<1>1. PICK acc \in Accounts[p] :
        /\ String(Address(acc)) \notin DOMAIN accounts[p]
        /\ accounts' = [accounts EXCEPT ![p] =
                [j \in DOMAIN @ \cup {String(Address(acc))} |->
                    IF j = String(Address(acc)) THEN acc ELSE @[j]]]
  BY DEF AddAccount
<1> DEFINE k == String(Address(acc))
<1>2. UNCHANGED <<given, held, restarts, proposals, opened, source>>
  BY DEF AddAccount
<1>3. IsAccount(acc)
  BY AccountsAssumption
<1> HIDE DEF k
<1>4. /\ accounts'[p] = [j \in DOMAIN accounts[p] \cup {k} |->
                            IF j = k THEN acc ELSE accounts[p][j]]
      /\ \A q \in Party : q # p => accounts'[q] = accounts[q]
      /\ accounts' = [q \in Party |-> accounts'[q]]
  BY <1>1 DEF IInv, Shape, k
<1>5. k \notin DOMAIN accounts[p]
  BY <1>1 DEF k
<1>6. WalletInv'
  BY <1>3, <1>4 DEF IInv, WalletInv, k
<1>7. \A q \in Party : \A addr : CanUnlock(q, addr) =>
          CanUnlock(q, addr)' /\ Unlock(q, addr)' = Unlock(q, addr)
  BY <1>4, <1>5 DEF CanUnlock, Unlock
<1>8. GivenInv'
  BY <1>2, <1>7 DEF IInv, GivenInv
<1> QED
  BY <1>2, <1>4, <1>6, <1>8 DEF IInv, Shape, HeldInv, ProposalInv, OpenedInv

LEMMA GiveAddressInv ==
    ASSUME IInv, NEW p \in Party, GiveAddress(p)
    PROVE  IInv'
<1>1. PICK k \in DOMAIN accounts[p] :
        /\ given' = [given EXCEPT ![p] = @ \cup {Address(accounts[p][k])}]
        /\ held' = [held EXCEPT ![Peer(p)] = @ \cup {Travelled(Address(accounts[p][k]))}]
  BY DEF GiveAddress
<1> DEFINE addr == Address(accounts[p][k])
<1>2. UNCHANGED <<accounts, restarts, proposals, opened, source>>
  BY DEF GiveAddress
<1>3. IsAddress(addr) /\ String(addr) = k /\ Travelled(addr) = addr
  BY AccountAddress, BinaryRoundTrip DEF IInv, WalletInv
<1>4. CanUnlock(p, addr) /\ Address(Unlock(p, addr)) = addr
  BY <1>3 DEF CanUnlock, Unlock
<1>5. Peer(p) \in Party
  BY DEF Peer, Party
<1> HIDE DEF addr
<1>6. /\ given' = [q \in Party |-> given'[q]]
      /\ \A q \in Party : given'[q] \subseteq given[q] \cup {addr}
      /\ \A q \in Party : q # p => given'[q] = given[q]
      /\ held' = [q \in Party |-> held'[q]]
      /\ \A q \in Party : held'[q] \subseteq held[q] \cup {addr}
  BY <1>1, <1>3, <1>5 DEF IInv, Shape, addr
<1>7. GivenInv'
  BY <1>2, <1>3, <1>4, <1>6 DEF IInv, GivenInv, CanUnlock, Unlock
<1>8. HeldInv'
  BY <1>3, <1>6 DEF IInv, HeldInv
<1> QED
  BY <1>2, <1>6, <1>7, <1>8 DEF IInv, Shape, WalletInv, ProposalInv, OpenedInv

LEMMA RestartInv ==
    ASSUME IInv, NEW p \in Party, Restart(p)
    PROVE  IInv'
<1>1. /\ accounts' = [q \in Party |-> accounts'[q]]
      /\ accounts'[p] = <<>>
      /\ given' = [q \in Party |-> given'[q]]
      /\ given'[p] = {}
      /\ \A q \in Party : q # p => accounts'[q] = accounts[q] /\ given'[q] = given[q]
      /\ UNCHANGED <<held, proposals, opened, source>>
  BY DEF IInv, Shape, Restart
<1>2. WalletInv'
  BY <1>1 DEF IInv, WalletInv
<1>3. GivenInv'
  BY <1>1 DEF IInv, GivenInv, CanUnlock, Unlock
<1> QED
  BY <1>1, <1>2, <1>3 DEF IInv, Shape, HeldInv, ProposalInv, OpenedInv

\* What is proposed has the shape that IdIsInjective asks for.
LEMMA PartIsPart ==
    ASSUME NEW addr, IsAddress(addr), NEW eth \in MaybeEth
    PROVE  IsPart(Part(addr, eth))
<1> USE DEF EthBackendID, StellarBackendID
<1>1. CASE eth = {}
  BY <1>1 DEF IsPart, Part
<1>2. CASE eth # {}
  <2>1. PICK e \in EthAddresses : eth = {e}
    BY <1>2 DEF MaybeEth
  <2>2. {EthBackendID : x \in eth} = {1} /\ (CHOOSE x \in eth : TRUE) = e
    BY <2>1
  <2>3. Part(addr, eth) = [b \in {1, 2} |-> IF b = 2 THEN addr ELSE e]
    BY <2>2 DEF Part
  <2>4. e # NoHolder
    BY EthAddressesAssumption
  <2> QED
    BY <2>3, <2>4 DEF IsPart
<1> QED
  BY <1>1, <1>2

LEMMA ProposeInv ==
    ASSUME IInv, Propose
    PROVE  IInv'
<1>1. PICK a \in given[1], b \in held[1], eth1 \in MaybeEth, eth2 \in MaybeEth,
           nonce \in Nonces :
        LET params == [Parts |-> <<Part(a, eth1), Part(b, eth2)>>,
                       Nonce |-> nonce, ChallengeDuration |-> 1,
                       LedgerChannel |-> TRUE, VirtualChannel |-> FALSE]
        IN proposals' = proposals \cup {[sent |-> params, got |-> TravelledParams(params)]}
  BY DEF Propose
<1> DEFINE x == Part(a, eth1)  y == Part(b, eth2)
           params == [Parts |-> <<x, y>>, Nonce |-> nonce, ChallengeDuration |-> 1,
                      LedgerChannel |-> TRUE, VirtualChannel |-> FALSE]
<1>2. IsPart(x) /\ IsPart(y)
  BY PartIsPart DEF IInv, GivenInv, HeldInv, Party
<1>3. proposals' = proposals \cup {[sent |-> params, got |-> TravelledParams(params)]}
  BY <1>1
<1> HIDE DEF x, y
<1>4. IsParams(params)
  <2>1. \A i \in DOMAIN <<x, y>> : IsPart(<<x, y>>[i])
    BY <1>2
  <2>2. <<x, y>> = [i \in DOMAIN <<x, y>> |-> <<x, y>>[i]]
    OBVIOUS
  <2> QED
    BY <2>1, <2>2 DEF IsParams
<1>5. IsProposed(params)
  BY <1>4 DEF IsProposed, CanNewParams
<1>6. TravelledParams(params) = params
  BY <1>4, ParamsTravel
<1> HIDE DEF params
<1>7. ProposalInv'
  BY <1>3, <1>5, <1>6 DEF IInv, ProposalInv
<1> QED
  BY <1>7 DEF Propose, IInv, Shape, WalletInv, GivenInv, HeldInv, OpenedInv,
              CanUnlock, Unlock

LEMMA OpenInv ==
    ASSUME IInv, Open
    PROVE  IInv'
<1>1. PICK proposal \in proposals :
        opened' = ParamsToScVal(MakeParams(proposal.sent)) /\ source' = proposal.sent
  BY DEF Open
<1>2. OpenedInv'
  BY <1>1 DEF IInv, ProposalInv, OpenedInv
<1> QED
  BY <1>2 DEF Open, IInv, Shape, WalletInv, GivenInv, HeldInv, ProposalInv,
              CanUnlock, Unlock

LEMMA StepInv == IInv /\ [Next]_vars => IInv'
<1> SUFFICES ASSUME IInv, [Next]_vars PROVE IInv'
  OBVIOUS
<1>1. CASE \E p \in Party : AddAccount(p) \/ GiveAddress(p) \/ Restart(p)
  BY <1>1, AddAccountInv, GiveAddressInv, RestartInv
<1>2. CASE Propose
  BY <1>2, ProposeInv
<1>3. CASE Open
  BY <1>3, OpenInv
<1>4. CASE UNCHANGED vars
  BY <1>4 DEF vars, IInv, Shape, WalletInv, GivenInv, HeldInv, ProposalInv, OpenedInv,
              CanUnlock, Unlock
<1> QED
  BY <1>1, <1>2, <1>3, <1>4 DEF Next

LEMMA Invariant == Spec => []IInv
  BY InitInv, StepInv, PTL DEF Spec

-----------------------------------------------------------------------------
(* The theorems *)

\* The peer accepts what Unlock finds for an address that has been given out
\* (wallet.go:30, backend.go:51): for all accounts, whichever share an address.
THEOREM SignaturesOfUnlocked == Spec => []SignaturesVerify
<1>1. IInv => SignaturesVerify
  <2> SUFFICES ASSUME IInv, NEW p \in Party, NEW x \in proposals,
                      ParamsOf(p, x).Parts[p][StellarBackendID] \in given[p]
               PROVE  LET own == ParamsOf(p, x)
                          others == ParamsOf(Peer(p), x)
                          addr == own.Parts[p][StellarBackendID]
                      IN /\ CanUnlock(p, addr)
                         /\ VerifySignature(CalcID(others),
                                            SignData(Unlock(p, addr), CalcID(own)),
                                            others.Parts[p][StellarBackendID])
    BY DEF SignaturesVerify
  <2>1. ParamsOf(p, x) = x.sent /\ ParamsOf(Peer(p), x) = x.sent
    BY DEF ParamsOf, IInv, ProposalInv
  <2> DEFINE addr == x.sent.Parts[p][StellarBackendID]
  <2>2. CanUnlock(p, addr) /\ Address(Unlock(p, addr)) = addr
    BY <2>1 DEF IInv, GivenInv
  <2> HIDE DEF addr
  <2>3. Unlock(p, addr).privateKey = addr.StellarPubKey
    BY <2>2 DEF Address
  <2>4. VerifySignature(CalcID(x.sent), SignData(Unlock(p, addr), CalcID(x.sent)), addr)
    BY <2>3 DEF VerifySignature, SignData
  <2> QED
    BY <2>1, <2>2, <2>4 DEF addr
<1> QED
  BY <1>1, Invariant, PTL

\* An ID stands for one channel.
THEOREM IdsBind == Spec => []IdBinds
<1>1. IInv => IdBinds
  <2> SUFFICES ASSUME IInv, NEW p \in Party, NEW q \in Party,
                      NEW x \in proposals, NEW y \in proposals,
                      CalcID(ParamsOf(p, x)) = CalcID(ParamsOf(q, y))
               PROVE  ParamsOf(p, x) = ParamsOf(q, y)
    BY DEF IdBinds
  <2>1. IsParams(ParamsOf(p, x)) /\ IsParams(ParamsOf(q, y))
    BY DEF IInv, ProposalInv, IsProposed, ParamsOf
  <2> QED
    BY <2>1, IdIsInjective
<1> QED
  BY <1>1, Invariant, PTL

\* What is read is what was opened, without the Ethereum addresses.
LEMMA OpenedRoundTrip ==
    ASSUME NEW ps, IsProposed(ps)
    PROVE  LET v == ParamsToScVal(MakeParams(ps))
               stellar(part) == [b \in {StellarBackendID} |-> part[b]]
           IN /\ CanParamsFromScVal(v)
              /\ CanToParams(ParamsFromScVal(v))
              /\ ToParams(ParamsFromScVal(v))
                   = [ps EXCEPT !.Parts = <<stellar(ps.Parts[1]), stellar(ps.Parts[2])>>]
<1>1. 1 \in DOMAIN ps.Parts /\ 2 \in DOMAIN ps.Parts
  BY DEF IsProposed
<1>2. IsAddress(ps.Parts[1][StellarBackendID]) /\ IsAddress(ps.Parts[2][StellarBackendID])
  BY <1>1 DEF IsProposed, IsParams, IsPart
<1>3. ps = [Parts |-> ps.Parts, Nonce |-> ps.Nonce,
            ChallengeDuration |-> ps.ChallengeDuration,
            LedgerChannel |-> TRUE, VirtualChannel |-> FALSE]
  BY DEF IsProposed, IsParams
<1>4. CanNewParams(ps.ChallengeDuration)
  BY DEF IsProposed
<1> QED
  BY <1>2, <1>3, <1>4, ParamsRoundTrip

\* The ID survives the contract exactly for channels without Ethereum addresses
\* (params.go:215, params_test.go:78).
THEOREM IdsSurvive == Spec => []IdSurvives
<1>1. IInv => IdSurvives
  <2> SUFFICES ASSUME IInv, opened # Unopened PROVE IdSurvives
    BY DEF IdSurvives
  <2> DEFINE stellar(part) == [b \in {StellarBackendID} |-> part[b]]
             parts == <<stellar(source.Parts[1]), stellar(source.Parts[2])>>
             read == ToParams(ParamsFromScVal(opened))
  <2>1. IsProposed(source) /\ opened = ParamsToScVal(MakeParams(source))
    BY DEF IInv, OpenedInv
  <2>2. /\ CanParamsFromScVal(opened) /\ CanToParams(ParamsFromScVal(opened))
        /\ read = [source EXCEPT !.Parts = parts]
    BY <2>1, OpenedRoundTrip
  <2> HIDE DEF read
  <2>3. DOMAIN source.Parts = 1..2 /\ IsPart(source.Parts[1]) /\ IsPart(source.Parts[2])
    BY <2>1 DEF IsProposed, IsParams
  <2>4. /\ IsPart(stellar(source.Parts[1])) /\ IsPart(stellar(source.Parts[2]))
    BY <2>3 DEF IsPart, EthBackendID, StellarBackendID
  <2> DEFINE sx == stellar(source.Parts[1])  sy == stellar(source.Parts[2])
  <2>5. IsParams(read) /\ read.Parts = parts
    <3> HIDE DEF sx, sy, stellar
    <3>1. \A i \in DOMAIN parts : IsPart(parts[i])
      BY <2>4
    <3>2. parts = [i \in DOMAIN parts |-> parts[i]]
      OBVIOUS
    <3> HIDE DEF parts
    <3> QED
      BY <2>1, <2>2, <3>1, <3>2 DEF IsProposed, IsParams
  <2>6. CalcID(read) = CalcID(source) <=> read = source
    BY <2>1, <2>5, IdIsInjective DEF IsProposed
  <2>7. read = source <=> parts = source.Parts
    <3> HIDE DEF parts
    <3> QED BY <2>1, <2>2, <2>5 DEF IsProposed, IsParams
  <2>8. parts = source.Parts <=> \A i \in DOMAIN source.Parts :
                                   DOMAIN source.Parts[i] = {StellarBackendID}
    <3>1. source.Parts = <<source.Parts[1], source.Parts[2]>>
      BY <2>1 DEF IsProposed
    <3>2. parts = source.Parts <=> /\ stellar(source.Parts[1]) = source.Parts[1]
                                   /\ stellar(source.Parts[2]) = source.Parts[2]
      BY <3>1
    <3>3. \A part : IsPart(part) =>
             (stellar(part) = part <=> DOMAIN part = {StellarBackendID})
      BY DEF IsPart
    <3> QED
      BY <2>3, <3>2, <3>3
  <2> QED
    BY <2>2, <2>6, <2>7, <2>8 DEF IdSurvives, read
<1> QED
  BY <1>1, Invariant, PTL
=============================================================================
