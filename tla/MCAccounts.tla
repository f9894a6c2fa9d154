----------------------------- MODULE MCAccounts -----------------------------
(* Two devices and two of each name, in either store.                      *)
EXTENDS Accounts, TLC

CONSTANTS c1, c2, a1, a2, k1, k2, w1, w2

MCClients == {c1, c2}
MCAccountNames == {a1, a2}
MCNicks == {k1, k2}
MCPasswords == {w1, w2}

MCSymmetry ==
  Permutations(MCClients) \cup Permutations(MCAccountNames)
    \cup Permutations(MCNicks) \cup Permutations(MCPasswords)
=============================================================================
