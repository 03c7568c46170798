----------------------------- MODULE MCAccounts -----------------------------
(* Small installations for TLC: two people, two requests at once.          *)
EXTENDS Accounts, TLC

\* One field at a time, and one change of both.
OneFieldPatches ==
  {p \in Patch : (p.role = Keep) # (p.disabled = Keep)}
    \union {[role |-> "member", disabled |-> "yes"]}

Symmetries == Permutations(Users) \union Permutations(Requests)
=============================================================================
