--------------------------- MODULE MCCertificates ---------------------------
(* Two projects that claim one name and two edge proxies.                  *)
EXTENDS Certificates
=============================================================================
