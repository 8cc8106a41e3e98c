----------------------------- MODULE MCIdentity -----------------------------
EXTENDS Identity

Account(x, y, addr, cc) ==
    [privateKey |-> [X |-> x, Y |-> y], ParticipantAddress |-> addr, CCAddr |-> cc]

\* The curve has the keys of the accounts, and others.
MCCurve == {key \in [X : 0..7, Y : 0..7] : key.X + key.Y \in {7, 8}}

\* Party 1 has two keys for one Stellar address and two addresses with one key; a
\* coordinate below Base has a leading zero byte.
MCAccounts ==
    <<{Account(2, 6, "a1", "none"), Account(6, 2, "a1", "none"),
       Account(2, 6, "a2", "c1")},
      {Account(0, 7, "b1", "none"), Account(7, 0, "b1", "c2")}>>
=============================================================================
