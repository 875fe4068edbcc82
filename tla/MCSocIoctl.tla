----------------------------- MODULE MCSocIoctl -----------------------------
(* SocIoctl with pages of 8 bytes and buffers of 4 registers, for TLC. *)
EXTENDS SocIoctl

MCAddresses == {4}
MCValues == {3, 8}
=============================================================================
