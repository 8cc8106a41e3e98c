---------------------------- MODULE Wire_proofs ----------------------------
(***************************************************************************)
(* Balances, keys and params on the wire, for halves and bytes of every    *)
(* width.                                                                  *)
(***************************************************************************)
EXTENDS Wire, SequenceTheorems, TLAPS

\* Division with remainder by a positive number.
LEMMA Division ==
    ASSUME NEW i \in Nat, NEW h \in Nat, h > 0
    PROVE  /\ i \div h \in Nat
           /\ i % h \in 0..(h - 1)
           /\ i = h * (i \div h) + (i % h)
  BY SMT

\* A quotient is below m if the number is below m * h.
LEMMA QuotientBound ==
    ASSUME NEW h \in Nat, h > 0, NEW m \in Nat, NEW i \in Nat, i < m * h
    PROVE  i \div h < m
<1> DEFINE q == i \div h
<1>1. q \in Nat /\ i % h \in Nat /\ i = h * q + (i % h)
  BY Division
<1>2. h * q <= i
  BY <1>1
<1>3. ASSUME q >= m PROVE FALSE
  <2>1. h * q >= h * m
    BY <1>1, <1>3
  <2> QED
    BY <2>1, <1>2, <1>1
<1> QED
  BY <1>1, <1>3

-----------------------------------------------------------------------------
(* The round trip of a balance *)

\* The halves of a balance that is not rejected: the upper one is small enough to
\* be a signed number as it is.
LEMMA Halves ==
    ASSUME NEW i, CanMakeInt128Parts(i)
    PROVE  /\ i \in Nat
           /\ i \div Half \in 0..((Half \div 2) - 1)
           /\ i % Half \in 0..(Half - 1)
           /\ i = Half * (i \div Half) + (i % Half)
           /\ MakeInt128Parts(i) = [Hi |-> i \div Half, Lo |-> i % Half]
<1> USE HalfAssumption
<1> DEFINE m == Half \div 2
<1>1. m \in Nat /\ m > 0 /\ 2 * m = Half
  OBVIOUS
<1>2. m * Half \in Nat
  BY <1>1
<1>3. i \in Nat /\ i < m * Half
  BY <1>2 DEF CanMakeInt128Parts, MaxBalance
<1>4. i \div Half < m
  <2> HIDE DEF m
  <2> QED BY <1>1, <1>3, QuotientBound
<1>5. /\ i \div Half \in Nat
      /\ i % Half \in 0..(Half - 1)
      /\ i = Half * (i \div Half) + (i % Half)
  BY <1>3, Division
<1>6. 2 * (i \div Half) < Half
  <2> HIDE DEF m
  <2> QED BY <1>1, <1>4, <1>5
<1>7. MakeInt128Parts(i) = [Hi |-> i \div Half, Lo |-> i % Half]
  BY <1>6 DEF MakeInt128Parts, AsSigned
<1> QED
  BY <1>1, <1>3, <1>4, <1>5, <1>7

\* Every balance that MakeInt128Parts does not reject is an i128 whose value, to the
\* contract and to ToBigInt, is that balance: whatever the width, and at its very
\* end as well.
THEOREM BalanceRoundTrip ==
    ASSUME NEW i, CanMakeInt128Parts(i)
    PROVE  /\ IsInt128Parts(MakeInt128Parts(i))
           /\ Int128(MakeInt128Parts(i)) = i
           /\ ToBigInt(MakeInt128Parts(i)) = i
<1> USE HalfAssumption
<1> DEFINE hi == i \div Half  lo == i % Half
<1>1. /\ i \in Nat
      /\ hi \in 0..((Half \div 2) - 1)
      /\ lo \in 0..(Half - 1)
      /\ i = Half * hi + lo
      /\ MakeInt128Parts(i) = [Hi |-> hi, Lo |-> lo]
  BY Halves
<1> HIDE DEF hi, lo
<1>2. hi \in Nat /\ 2 * hi < Half /\ hi < Half
  BY <1>1
<1>3. hi % Half = hi
  BY <1>2
<1>4. hi * Half = Half * hi
  BY <1>2
<1>5. IsInt128Parts([Hi |-> hi, Lo |-> lo])
  BY <1>1, <1>2 DEF IsInt128Parts
<1>6. Int128([Hi |-> hi, Lo |-> lo]) = i
  BY <1>1, <1>4 DEF Int128
<1>7. ToBigInt([Hi |-> hi, Lo |-> lo]) = i
  BY <1>1, <1>3, <1>4 DEF ToBigInt
<1> QED
  BY <1>1, <1>5, <1>6, <1>7

\* GetBalance is right exactly for the balances whose lower half is small enough to
\* be a signed number.
THEOREM CombinedBalance ==
    ASSUME NEW i, CanMakeInt128Parts(i)
    PROVE  CombineHalves(MakeInt128Parts(i)) = i <=> 2 * (i % Half) < Half
<1> USE HalfAssumption
<1> DEFINE hi == i \div Half  lo == i % Half
<1>1. /\ i \in Nat
      /\ hi \in Nat
      /\ lo \in 0..(Half - 1)
      /\ i = Half * hi + lo
      /\ MakeInt128Parts(i) = [Hi |-> hi, Lo |-> lo]
  BY Halves
<1> HIDE DEF hi, lo
<1>2. CASE 2 * lo < Half
  <2>1. CombineHalves([Hi |-> hi, Lo |-> lo]) = hi * Half + lo
    BY <1>1, <1>2 DEF CombineHalves, AsSigned
  <2> QED
    BY <1>1, <1>2, <2>1 DEF lo
<1>3. CASE ~(2 * lo < Half)
  <2>1. CombineHalves([Hi |-> hi, Lo |-> lo]) = lo - Half
    BY <1>1, <1>3 DEF CombineHalves, AsSigned
  <2>2. lo - Half < 0
    BY <1>1
  <2> QED
    BY <1>1, <1>3, <2>1, <2>2 DEF lo
<1> QED
  BY <1>2, <1>3
-----------------------------------------------------------------------------
(* Keys, participants and params *)

\* The concatenations of which keys are made.
LEMMA Concat1And1 ==
    ASSUME NEW a, NEW b
    PROVE  <<a>> \o <<b>> = <<a, b>>
<1> DEFINE S == {a, b}
<1>1. <<a>> \in Seq(S) /\ <<b>> \in Seq(S) /\ <<a, b>> \in Seq(S)
  OBVIOUS
<1>2. /\ <<a>> \o <<b>> \in Seq(S)
      /\ Len(<<a>> \o <<b>>) = 2
      /\ \A i \in 1..2 : (<<a>> \o <<b>>)[i] = IF i <= 1 THEN <<a>>[i] ELSE <<b>>[i - 1]
  BY <1>1, ConcatProperties
<1>3. \A i \in 1..2 : (<<a>> \o <<b>>)[i] = <<a, b>>[i]
  BY <1>2
<1> QED
  BY <1>1, <1>2, <1>3, SeqEqual

LEMMA Concat1And2 ==
    ASSUME NEW a, NEW b, NEW c
    PROVE  <<a>> \o <<b, c>> = <<a, b, c>>
<1> DEFINE S == {a, b, c}  s == <<a>>  t == <<b, c>>  r == <<a, b, c>>
<1>1. s \in Seq(S) /\ t \in Seq(S) /\ r \in Seq(S)
  OBVIOUS
<1>2. Len(s) = 1 /\ Len(t) = 2 /\ Len(r) = 3 /\ s[1] = r[1] /\ t[1] = r[2] /\ t[2] = r[3]
  OBVIOUS
<1> HIDE DEF S, s, t, r
<1>3. /\ s \o t \in Seq(S)
      /\ Len(s \o t) = Len(s) + Len(t)
      /\ \A i \in 1..(Len(s) + Len(t)) :
            (s \o t)[i] = IF i <= Len(s) THEN s[i] ELSE t[i - Len(s)]
  BY <1>1, ConcatProperties
<1>4. \A i \in 1..3 : (s \o t)[i] = r[i]
  BY <1>2, <1>3
<1>5. Len(s \o t) = Len(r)
  BY <1>2, <1>3
<1>6. \A i \in 1..Len(s \o t) : (s \o t)[i] = r[i]
  BY <1>2, <1>4, <1>5
<1>7. s \o t = r
  BY <1>1, <1>3, <1>5, <1>6, SeqEqual
<1> QED
  BY <1>7 DEF s, t, r

LEMMA Concat3And2 ==
    ASSUME NEW a, NEW b, NEW c, NEW d, NEW e
    PROVE  <<a, b, c>> \o <<d, e>> = <<a, b, c, d, e>>
<1> DEFINE S == {a, b, c, d, e}
           s == <<a, b, c>>  t == <<d, e>>  r == <<a, b, c, d, e>>
<1>1. s \in Seq(S) /\ t \in Seq(S) /\ r \in Seq(S)
  OBVIOUS
<1>2. /\ Len(s) = 3 /\ Len(t) = 2 /\ Len(r) = 5
      /\ s[1] = r[1] /\ s[2] = r[2] /\ s[3] = r[3] /\ t[1] = r[4] /\ t[2] = r[5]
  OBVIOUS
<1> HIDE DEF S, s, t, r
<1>3. /\ s \o t \in Seq(S)
      /\ Len(s \o t) = Len(s) + Len(t)
      /\ \A i \in 1..(Len(s) + Len(t)) :
            (s \o t)[i] = IF i <= Len(s) THEN s[i] ELSE t[i - Len(s)]
  BY <1>1, ConcatProperties
<1>4. \A i \in 1..5 : (s \o t)[i] = r[i]
  <2>1. \A i \in 1..3 : (s \o t)[i] = s[i] /\ s[i] = r[i]
    BY <1>2, <1>3
  <2>2. (s \o t)[4] = t[1] /\ (s \o t)[5] = t[2]
    BY <1>2, <1>3
  <2>3. (s \o t)[4] = r[4] /\ (s \o t)[5] = r[5]
    BY <1>2, <2>2
  <2>4. \A i \in 1..5 : i \in 1..3 \/ i = 4 \/ i = 5
    OBVIOUS
  <2> QED
    BY <2>1, <2>3, <2>4
<1>5. Len(s \o t) = Len(r)
  BY <1>2, <1>3
<1>6. \A i \in 1..Len(s \o t) : (s \o t)[i] = r[i]
  BY <1>2, <1>4, <1>5
<1>7. s \o t = r
  BY <1>1, <1>3, <1>5, <1>6, SeqEqual
<1> QED
  BY <1>7 DEF s, t, r

\* A coordinate is padded to two bytes, whatever its own length is.
LEMMA PaddedBytes ==
    ASSUME NEW n \in Coordinate
    PROVE  /\ n \div Base \in Nat
           /\ n % Base \in Nat
           /\ n = Base * (n \div Base) + (n % Base)
           /\ Padded(BigEndian(n)) = <<n \div Base, n % Base>>
<1> USE BaseAssumption
<1>1. /\ n \in Nat
      /\ n \div Base \in Nat
      /\ n % Base \in 0..(Base - 1)
      /\ n = Base * (n \div Base) + (n % Base)
  <2>1. n \in Nat
    BY DEF Coordinate
  <2> QED
    BY <2>1, Division
<1>2. CASE n = 0
  <2>1. n \div Base = 0 /\ n % Base = 0
    BY <1>1, <1>2
  <2>2. BigEndian(n) = <<>>
    BY <1>2 DEF BigEndian
  <2>3. Padded(<<>>) = <<0, 0>>
    BY DEF Padded, CoordinateLength
  <2> QED
    BY <1>1, <2>1, <2>2, <2>3
<1>3. CASE n # 0 /\ n < Base
  <2>1. n \div Base = 0 /\ n % Base = n
    BY <1>1, <1>3
  <2>2. BigEndian(n) = <<n>>
    BY <1>3 DEF BigEndian
  <2>3. Padded(<<n>>) = <<0>> \o <<n>>
    <3>1. 2 - Len(<<n>>) = 1
      OBVIOUS
    <3>2. [i \in 1..1 |-> 0] = <<0>>
      OBVIOUS
    <3> QED
      BY <3>1, <3>2 DEF Padded, CoordinateLength
  <2>4. Padded(<<n>>) = <<0, n>>
    BY <2>3, Concat1And1
  <2> QED
    BY <1>1, <2>1, <2>2, <2>4
<1>4. CASE n # 0 /\ ~(n < Base)
  <2> DEFINE q == n \div Base  r == n % Base
  <2>1. BigEndian(n) = <<q, r>>
    BY <1>4 DEF BigEndian
  <2>2. q \in Nat /\ r \in Nat
    BY <1>1
  <2> HIDE DEF q, r
  <2>3. Padded(<<q, r>>) = <<q, r>>
    BY <2>2 DEF Padded, CoordinateLength
  <2> QED
    BY <1>1, <2>1, <2>3 DEF q, r
<1> QED
  BY <1>2, <1>3, <1>4

\* The bytes of a key, one by one.
LEMMA KeyBytes ==
    ASSUME NEW key, IsKey(key)
    PROVE  PublicKeyToBytes(key) =
               <<4, key.X \div Base, key.X % Base, key.Y \div Base, key.Y % Base>>
<1>1. /\ Padded(BigEndian(key.X)) = <<key.X \div Base, key.X % Base>>
      /\ Padded(BigEndian(key.Y)) = <<key.Y \div Base, key.Y % Base>>
      /\ key.X \div Base \in Nat /\ key.X % Base \in Nat
      /\ key.Y \div Base \in Nat /\ key.Y % Base \in Nat
  BY PaddedBytes DEF IsKey
<1> DEFINE a == key.X \div Base  b == key.X % Base
           c == key.Y \div Base  d == key.Y % Base
<1>2. PublicKeyToBytes(key) = <<4>> \o <<a, b>> \o <<c, d>>
  BY <1>1 DEF PublicKeyToBytes
<1> HIDE DEF a, b, c, d
<1>3. <<4>> \o <<a, b>> \o <<c, d>> = <<4, a, b, c, d>>
  <2>1. <<4>> \o <<a, b>> = <<4, a, b>>
    BY Concat1And2
  <2>2. <<4, a, b>> \o <<c, d>> = <<4, a, b, c, d>>
    BY Concat3And2
  <2> QED
    BY <2>1, <2>2
<1> QED
  BY <1>2, <1>3 DEF a, b, c, d

\* A key is read back from any five bytes that are its own.
LEMMA KeyRoundTrip ==
    ASSUME NEW key, IsKey(key), NEW S, NEW data \in Seq(S), Len(data) = 5,
           data[1] = 4,
           data[2] = key.X \div Base, data[3] = key.X % Base,
           data[4] = key.Y \div Base, data[5] = key.Y % Base
    PROVE  CanBytesToPublicKey(data) /\ BytesToPublicKey(data) = key
<1> DEFINE x == SubSeq(data, 2, 3)  y == SubSeq(data, 4, 5)
<1>1. \A i \in 1..5 : data[i] \in S
  BY ElementOfSeq
<1>2. x[1] = data[2] /\ x[2] = data[3]
  <2>1. \A i \in 1..(3 - 2 + 1) : x[i] = data[2 + i - 1]
    BY <1>1, SubSeqProperties
  <2> QED
    BY <2>1
<1>3. y[1] = data[4] /\ y[2] = data[5]
  <2>1. \A i \in 1..(5 - 4 + 1) : y[i] = data[4 + i - 1]
    BY <1>1, SubSeqProperties
  <2> QED
    BY <2>1
<1>4. SetBytes(x) = key.X /\ SetBytes(y) = key.Y
  <2>1. \A n \in Coordinate : (n \div Base) * Base + (n % Base) = n
    <3>1. ASSUME NEW n \in Coordinate PROVE (n \div Base) * Base + (n % Base) = n
      <4> DEFINE q == n \div Base  r == n % Base
      <4>1. q \in Nat /\ r \in Nat /\ n = Base * q + r
        BY PaddedBytes
      <4> HIDE DEF q, r
      <4>2. Base * q = q * Base
        BY <4>1, BaseAssumption
      <4> QED
        BY <4>1, <4>2 DEF q, r
    <3> QED
      BY <3>1
  <2>2. /\ SetBytes(x) = (key.X \div Base) * Base + (key.X % Base)
        /\ SetBytes(y) = (key.Y \div Base) * Base + (key.Y % Base)
    <3> HIDE DEF x, y
    <3> QED BY <1>2, <1>3 DEF SetBytes
  <2> QED
    BY <2>1, <2>2 DEF IsKey
<1>5. BytesToPublicKey(data) = [X |-> SetBytes(x), Y |-> SetBytes(y)]
  BY DEF BytesToPublicKey, CoordinateLength
<1> QED
  BY <1>4, <1>5 DEF CanBytesToPublicKey, CoordinateLength, IsKey

LEMMA PublicKeyRoundTrip ==
    ASSUME NEW key, IsKey(key)
    PROVE  /\ Len(PublicKeyToBytes(key)) = 5
           /\ CanBytesToPublicKey(PublicKeyToBytes(key))
           /\ BytesToPublicKey(PublicKeyToBytes(key)) = key
<1> DEFINE a == key.X \div Base  b == key.X % Base
           c == key.Y \div Base  d == key.Y % Base
           S == {4, a, b, c, d}  data == <<4, a, b, c, d>>
<1>1. PublicKeyToBytes(key) = data
  BY KeyBytes
<1>2. data \in Seq(S) /\ Len(data) = 5
  OBVIOUS
<1>3. data[1] = 4 /\ data[2] = a /\ data[3] = b /\ data[4] = c /\ data[5] = d
  OBVIOUS
<1> HIDE DEF data, S
<1> QED
  BY <1>1, <1>2, <1>3, KeyRoundTrip

\* A participant survives the contract.
LEMMA ParticipantRoundTrip ==
    ASSUME NEW addr, IsAddress(addr)
    PROVE  LET v == ParticipantToScVal(MakeParticipant(addr))
           IN /\ CanParticipantFromScVal(v)
              /\ CanToParticipant(ParticipantFromScVal(v))
              /\ ToParticipant(ParticipantFromScVal(v)) = addr
<1> DEFINE data == PublicKeyToBytes(addr.StellarPubKey)
           v == ParticipantToScVal(MakeParticipant(addr))
<1>1. Len(data) = 5 /\ CanBytesToPublicKey(data) /\ BytesToPublicKey(data) = addr.StellarPubKey
  BY PublicKeyRoundTrip DEF IsAddress
<1>2. v = [stellar_addr |-> addr.StellarAddress, stellar_pubkey |-> data,
           cc_addr |-> addr.CCAddr]
  BY DEF ParticipantToScVal, MakeParticipant
<1> HIDE DEF data
<1>3. CanParticipantFromScVal(v)
  BY <1>1, <1>2 DEF CanParticipantFromScVal, CoordinateLength
<1>4. ParticipantFromScVal(v) = [StellarAddr |-> addr.StellarAddress,
                                 StellarPubKey |-> data, CCAddr |-> addr.CCAddr]
  BY <1>2 DEF ParticipantFromScVal
<1>5. CanToParticipant(ParticipantFromScVal(v))
  BY <1>1, <1>4 DEF CanToParticipant
<1>6. ToParticipant(ParticipantFromScVal(v))
        = [StellarAddress |-> addr.StellarAddress,
           StellarPubKey |-> addr.StellarPubKey, CCAddr |-> addr.CCAddr]
  BY <1>1, <1>4 DEF ToParticipant
<1> QED
  BY <1>3, <1>5, <1>6 DEF IsAddress

\* What the contract keeps of params: they come back without Ethereum addresses.
LEMMA ParamsRoundTrip ==
    ASSUME NEW ps,
           ps = [Parts |-> ps.Parts, Nonce |-> ps.Nonce,
                 ChallengeDuration |-> ps.ChallengeDuration,
                 LedgerChannel |-> TRUE, VirtualChannel |-> FALSE],
           IsAddress(ps.Parts[1][StellarBackendID]),
           IsAddress(ps.Parts[2][StellarBackendID]),
           CanNewParams(ps.ChallengeDuration)
    PROVE  LET v == ParamsToScVal(MakeParams(ps))
               stellar(part) == [b \in {StellarBackendID} |-> part[b]]
           IN /\ CanParamsFromScVal(v)
              /\ CanToParams(ParamsFromScVal(v))
              /\ ToParams(ParamsFromScVal(v))
                   = [ps EXCEPT !.Parts = <<stellar(ps.Parts[1]), stellar(ps.Parts[2])>>]
<1> DEFINE a == ps.Parts[1][StellarBackendID]
           b == ps.Parts[2][StellarBackendID]
           va == ParticipantToScVal(MakeParticipant(a))
           vb == ParticipantToScVal(MakeParticipant(b))
           v == ParamsToScVal(MakeParams(ps))
           w == ParamsFromScVal(v)
<1>1. IsAddress(a) /\ IsAddress(b)
  OBVIOUS
<1>2. /\ CanParticipantFromScVal(va) /\ CanParticipantFromScVal(vb)
      /\ CanToParticipant(ParticipantFromScVal(va))
      /\ CanToParticipant(ParticipantFromScVal(vb))
      /\ ToParticipant(ParticipantFromScVal(va)) = a
      /\ ToParticipant(ParticipantFromScVal(vb)) = b
  BY <1>1, ParticipantRoundTrip
<1>3. v = [a |-> va, b |-> vb, nonce |-> ps.Nonce,
           challenge_duration |-> ps.ChallengeDuration]
  BY DEF ParamsToScVal, MakeParams
<1> HIDE DEF a, b, va, vb, v
<1>4. CanParamsFromScVal(v)
  BY <1>2, <1>3 DEF CanParamsFromScVal
<1>5. w = [A |-> ParticipantFromScVal(va), B |-> ParticipantFromScVal(vb),
           Nonce |-> ps.Nonce, ChallengeDuration |-> ps.ChallengeDuration]
  BY <1>3 DEF ParamsFromScVal
<1> HIDE DEF w
<1>6. CanToParams(w)
  BY <1>2, <1>5 DEF CanToParams
<1>7. ToParams(w) = [Parts |-> <<[i \in {StellarBackendID} |-> a],
                                 [i \in {StellarBackendID} |-> b]>>,
                     Nonce |-> ps.Nonce, ChallengeDuration |-> ps.ChallengeDuration,
                     LedgerChannel |-> TRUE, VirtualChannel |-> FALSE]
  BY <1>2, <1>5 DEF ToParams
<1>8. /\ [i \in {StellarBackendID} |-> a] = [i \in {StellarBackendID} |-> ps.Parts[1][i]]
      /\ [i \in {StellarBackendID} |-> b] = [i \in {StellarBackendID} |-> ps.Parts[2][i]]
  BY DEF a, b
<1> DEFINE parts == <<[i \in {StellarBackendID} |-> a], [i \in {StellarBackendID} |-> b]>>
<1>9. ToParams(w) = [ps EXCEPT !.Parts = parts]
  <2> HIDE DEF parts
  <2>1. ps.LedgerChannel = TRUE /\ ps.VirtualChannel = FALSE
    OBVIOUS
  <2>2. ToParams(w) = [Parts |-> parts, Nonce |-> ps.Nonce,
                       ChallengeDuration |-> ps.ChallengeDuration,
                       LedgerChannel |-> ps.LedgerChannel,
                       VirtualChannel |-> ps.VirtualChannel]
    BY <1>7, <2>1 DEF parts
  <2>3. ps = [Parts |-> ps.Parts, Nonce |-> ps.Nonce,
              ChallengeDuration |-> ps.ChallengeDuration,
              LedgerChannel |-> ps.LedgerChannel, VirtualChannel |-> ps.VirtualChannel]
    BY <2>1
  <2> QED
    BY <2>2, <2>3
<1> QED
  BY <1>4, <1>6, <1>8, <1>9 DEF v, w
=============================================================================
