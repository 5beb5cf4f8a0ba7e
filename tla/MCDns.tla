-------------------------------- MODULE MCDns --------------------------------
(* One name and one server for TLC.                                        *)
EXTENDS DnsClient

OneName == {<<<<110, 115>>>>}           \* ns
==============================================================================
