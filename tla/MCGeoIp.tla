------------------------------ MODULE MCGeoIp ------------------------------
(***************************************************************************)
(* GeoIp for TLC: four downloads, of which the second is no database, so   *)
(* that a good one is replaced by it and it by good ones, and two faults.  *)
(***************************************************************************)
EXTENDS GeoIp

MCBad == {2}
=============================================================================
