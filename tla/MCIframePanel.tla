---------------------------- MODULE MCIframePanel ----------------------------
(* Three tabs for two frames, alone or two of them side by side.           *)
EXTENDS IframePanel

CONSTANTS t1, t2, t3

ShownTogether == {{t1}, {t2}, {t3}, {t1, t2}}

=============================================================================
