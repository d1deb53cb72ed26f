------------------------- MODULE MCSnapshotVerifier -------------------------
(* Two names, a budget of three bytes that the larger manifest fills and    *)
(* contents that exceed it; one manifest is not signed, one is not valid.   *)
(* Of the three times, the smaller manifest is valid at the first and the   *)
(* larger one at the second, each at the very edge: 1 is when the one        *)
(* expires and the other is just not too far ahead, 3 when that one expires. *)
EXTENDS SnapshotVerifier, TLC

CONSTANTS a, b, short, long, huge, small, full, forged, odd

MCSize == (short :> 1) @@ (long :> 2) @@ (huge :> 5)
MCGenerated == (small :> 0) @@ (full :> 2) @@ (forged :> 0)
MCExpires == (small :> 1) @@ (full :> 3) @@ (forged :> 1)
MCLists == (small :> (a :> short)) @@ (full :> ((a :> long) @@ (b :> short)))
           @@ (forged :> (a :> long)) @@ (odd :> (b :> short))
=============================================================================
