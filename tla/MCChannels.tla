----------------------------- MODULE MCChannels -----------------------------
(* Small instances of Channels.  A pair is named by the cycles its components *)
(* were first built in.                                                      *)
EXTENDS Channels

P(s, p) == [system |-> s, packages |-> p]
R(v, s, p) == [version |-> v, pair |-> P(s, p)]

\* Live before the first job: a manifest of the current schema with the label
\* the staged closure once gave it, and one of the previous schema.
Live == [EmptyManifest EXCEPT !.devel = P(1, 1), !.default = {"devel"}]
Mislabelled == [Live EXCEPT !.stale = TRUE]
PreviousSchema == [Live EXCEPT !.schema = "v2"]

LiveOnly == {Live}
\* The newest cycle's own pair is live.
LiveNewest == [Live EXCEPT !.devel = P(2, 1)]

AnyManifest == {LiveNewest, Mislabelled, PreviousSchema, EmptyManifest}

RevertedPairs == {P(1, 1), P(2, 1)}

\* The second request rewrites the first version.
TwoSeals == {R(1, 1, 1), R(1, 2, 1), R(2, 2, 2)}
OneSeal == {R(1, 1, 1)}
None == {}

Nightlies == {R(2, 1, 1), R(2, 2, 1)}
Nightly == {R(2, 1, 1)}
=============================================================================
