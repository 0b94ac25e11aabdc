----------------------------- MODULE MCVerifier -----------------------------
EXTENDS Verifier

\* Every list of up to three steps over the commands the verifier tells apart.
MCSteps == [run : Command, required : BOOLEAN]
MCConfigs == UNION {[1 .. n -> MCSteps] : n \in 1 .. 3}

\* A pass, a failure on the merits, a signal, and the shell's two codes of its own.
MCExitCodes == {0, 1, -9, 126, 127}
=============================================================================
