------------------------------- MODULE MC_Scan -------------------------------
(***************************************************************************)
(* Small instances of Scan for TLC: three channels, two contexts.         *)
(***************************************************************************)
EXTENDS Scan

CONSTANTS c1, c2, null

\* Channels 11, 12 and 13 of the 16.
MCChannels == {11, 12, 13}

\* Masks the stack passes: every mask with channel 11 in it.
MCMasksWith11 == {m \in SUBSET MCChannels : 11 \in m}

\* Masks without channel 11: 0 (all channels) and channel 12 alone.
MCMasksWithout11 == {{}, {12}}

\* Every mask over the three channels.
MCAllMasks == SUBSET MCChannels

MCContexts == {c1, c2}

====
