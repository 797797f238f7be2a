----------------------------- MODULE MCAccounts -----------------------------
(***************************************************************************)
(* Small instances of Accounts for TLC: two requests at once that agree in *)
(* the email, the password, neither or both, and one more email than       *)
(* requests.                                                               *)
(***************************************************************************)
EXTENDS Accounts, TLC

Interchangeable ==
    Permutations(Emails) \cup Permutations(Passwords) \cup Permutations(Handlers)
=============================================================================
