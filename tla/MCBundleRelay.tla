---------------------------- MODULE MCBundleRelay ----------------------------
(* Small instances of BundleRelay for TLC.                                  *)
EXTENDS BundleRelay

=============================================================================
