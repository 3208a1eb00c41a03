--------------------------- MODULE MCUserAccount ---------------------------
EXTENDS UserAccount, TLC

\* Mixes of operations that interact through the same columns and tables
Mixes ==
  {{"login", "lockUser", "unlockUser", "updateStatus", "failure"},
   {"login", "lockUser", "requestReset", "resetPassword", "failure"},
   {"login", "changePassword", "update", "delete", "failure"},
   {"signup", "update", "delete", "failure"},
   {"signup", "update", "sendVerification", "verifyEmail"},
   {"update", "sendVerification", "verifyEmail", "failure"},
   {"requestReset", "resetPassword", "expiry", "failure"},
   {"sendVerification", "verifyEmail", "expiry", "failure"}}

Symmetry ==
  Permutations(User) \cup Permutations(Link) \cup Permutations(Code)
    \cup Permutations(Request) \cup Permutations(Address) \cup Permutations(Password)
=============================================================================
