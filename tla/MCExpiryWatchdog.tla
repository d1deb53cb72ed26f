-------------------------- MODULE MCExpiryWatchdog --------------------------
(* A clock that can be set forward and back across the expiry time.        *)
EXTENDS ExpiryWatchdog
MCLeaps == {-4, 2, 5, 9}
=============================================================================
