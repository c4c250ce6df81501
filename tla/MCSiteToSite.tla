---------------------------- MODULE MCSiteToSite ----------------------------
(* Instances of SiteToSite for TLC. *)
EXTENDS SiteToSite
=============================================================================
