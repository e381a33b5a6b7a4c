---------------------------- MODULE MCSignalSocket ----------------------------
(***************************************************************************)
(* Instances of SignalSocket for TLC: a narrow and a wide rule, signals of *)
(* two interfaces.                                                         *)
(***************************************************************************)
EXTENDS SignalSocket, TLC

CONSTANTS c1, c2, sigA, sigB, iA, iB, narrow, wide

TwoInterfaceOf == (sigA :> iA @@ sigB :> iB)
TwoMatches == (narrow :> {sigA} @@ wide :> {sigA, sigB})

\* Clients are interchangeable (no liveness property in these runs).
Clients == Permutations(Conns)
==============================================================================
