-------------------------- MODULE MCDeviceRegistry --------------------------
(* DeviceRegistry for TLC: clients, and devices, are interchangeable.       *)
EXTENDS DeviceRegistry, TLC

Interchangeable == Permutations(Clients) \cup Permutations(Devices)

=============================================================================
