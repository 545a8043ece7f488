---------------------------- MODULE MCDeviceGrant ----------------------------
(***************************************************************************)
(* Instances of DeviceGrant for TLC.  There are fewer user codes than      *)
(* devices, so a code that is free again is shown by another device.       *)
(***************************************************************************)
EXTENDS DeviceGrant, TLC

Symmetries == Permutations(Owners) \cup Permutations(Calls) \cup Permutations(Devices)
              \cup Permutations(ChallengeIds)
\* Bound: two calls run beside each other only while one device was ever seen.
OneDeviceWhenBusy ==
  raced # {} \/ Cardinality({ c \in Calls : calls[c] # Idle }) > 1 =>
    Cardinality({ d \in Devices : devices[d] # None \/ d \in expired }) = 1
=============================================================================
