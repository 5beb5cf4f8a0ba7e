--------------------------- MODULE MCSniffer ----------------------------
(* Instances of Sniffer for TLC.  Three entries as in the code; six frames *)
(* fill the ring twice.                                                    *)
EXTENDS Sniffer
=========================================================================
