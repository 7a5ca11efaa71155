-------------------------- MODULE MCDeviceIdentity --------------------------
(* DeviceIdentity with a few tabs, instances and identities.                *)
EXTENDS DeviceIdentity, TLC

TabSymmetry == Permutations(Tabs)
=============================================================================
