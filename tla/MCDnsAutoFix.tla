---------------------------- MODULE MCDnsAutoFix ----------------------------
(***************************************************************************)
(* DnsAutoFix for TLC: a host with no record or one of the merchant's.     *)
(***************************************************************************)
EXTENDS DnsAutoFix

CONSTANTS a, b

MCOriginals == {<<>>, <<a>>}

=============================================================================
