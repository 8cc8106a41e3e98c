----------------------------- MODULE MCEncoding -----------------------------
EXTENDS Encoding

CONSTANTS C1, C2, R1, R2, H1    \* two Stellar contracts, two random addresses, a holder

\* Halves of four values: balances up to 7.  A sum of 8 is beyond them.
MCAmounts == {0, 1, 4, 7, 8}

\* No sub-channel, or one without an index map, with the one meant by that, with another.
MCLockings ==
    {<<>>} \cup {<<[ID |-> "sub", Bals |-> <<1>>, IndexMap |-> map]>> :
                    map \in {<<>>, <<0, 1>>, <<1, 0>>}}

\* Every second point is on the curve.
MCCurve == {key \in [X : 0..15, Y : 0..15] : (key.X + key.Y) % 2 # 0}

\* Coordinates with and without a leading zero byte.
Participant(addr, x, y) ==
    [StellarAddress |-> addr, StellarPubKey |-> [X |-> x, Y |-> y], CCAddr |-> addr]

\* A has an Ethereum address as well.  A key that is off the curve opens no channel.
MCParams ==
    {[Parts |-> <<[b \in 1..2 |-> IF b = EthBackendID THEN H1
                                                     ELSE Participant("a", 2, 5)],
                  [b \in {StellarBackendID} |-> Participant("b", y, 0)]>>,
      Nonce |-> "nonce", ChallengeDuration |-> 1,
      LedgerChannel |-> TRUE, VirtualChannel |-> FALSE] : y \in {7, 8}}

FirstState(assets, backends, rows) ==
    [ID |-> "id", Version |-> 0, IsFinal |-> FALSE, Assets |-> assets,
     Backends |-> backends, Balances |-> rows, Locked |-> <<>>]

MCStates ==
    {FirstState(<<StellarAsset(C1)>>, <<2>>, <<row>>) : row \in {<<7, 0>>, <<7, 1>>}}
        \cup {FirstState(<<StellarAsset(C1), StellarAsset(C2)>>, <<2, 2>>,
                         <<<<0, 7>>, <<7, 0>>>>),
              FirstState(<<StellarAsset(C2), EthAsset(1, H1)>>, <<2, 1>>,
                         <<<<7, 0>>, <<1, 0>>>>)}

\* Controls the contract can hold; any two fields differ in one of them.
MCControls ==
    {[OpenControl EXCEPT !.FundedA = TRUE],
     [OpenControl EXCEPT !.FundedA = TRUE, !.FundedB = TRUE, !.Disputed = TRUE,
                         !.Timestamp = 5],
     [OpenControl EXCEPT !.FundedA = TRUE, !.FundedB = TRUE, !.Closed = TRUE],
     [OpenControl EXCEPT !.FundedA = TRUE, !.FundedB = TRUE, !.Closed = TRUE,
                         !.WithdrawnA = TRUE]}
=============================================================================
