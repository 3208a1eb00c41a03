--------------------------- MODULE MCDeviceGrant ---------------------------
(* Small instances of DeviceGrant for TLC *)
EXTENDS DeviceGrant, TLC

\* Slots, users and tokens are interchangeable
Symmetry == Permutations(Poller) \cup Permutations(Decider) \cup Permutations(User)
            \cup Permutations(Token)
=============================================================================
