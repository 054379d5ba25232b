--------------------------- MODULE MCJailFirewall ---------------------------
(* JailFirewall with one host per address class, two on the LAN, and a      *)
(* neighbour of the map address in its link-local range.                    *)
EXTENDS JailFirewall

CONSTANTS lan1, lan2, link

MCDropRanges == << {lan1, lan2}, {MapAddr, link} >>
MCNets == { {lan1}, {lan1, lan2}, {MapAddr} }
=============================================================================
