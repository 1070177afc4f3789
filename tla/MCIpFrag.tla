------------------------------ MODULE MCIpFrag ------------------------------
(* IpFragTable with datagrams of five and three bytes.                     *)
EXTENDS IpFragTable

Lengths == <<5, 3>>
=============================================================================
