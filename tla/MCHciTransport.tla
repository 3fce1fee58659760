--------------------------- MODULE MCHciTransport ---------------------------
(* HciTransport on small instances: the constants of its TLC runs. *)
EXTENDS HciTransport

MCOpcodes == {"scanResp", "discoverable"}
MCOneOpcode == {"updateChar"}
MCWaits == {"complete", "status"}
MCWaitComplete == {"complete"}
MCUnsolicited == {"hwError", "vendor", "bad"}
MCVendor == {"vendor"}
=============================================================================
