--------------------------- MODULE MCRemoteTransfer ---------------------------
(***************************************************************************)
(* Small instances of RemoteTransfer.  The second name is the first        *)
(* alternative of the first one, as "film (1).mkv" is of "film.mkv".       *)
(***************************************************************************)
EXTENDS RemoteTransfer, TLC

CONSTANTS s1, s2

MCCandidates ==
    [name \in Names |-> IF name = "film" /\ "film (1)" \in Paths
                        THEN <<"film", "film (1)">>
                        ELSE IF name = "film" THEN <<"film">> ELSE <<"film (1)">>]

\* A declared size that the response repeats, contradicts or leaves out, and an
\* undeclared one; the body has any length up to MaxBytes.
MCDeclaredSizes  == {Unknown, 1}
MCContentLengths == {Unknown, 0, 1}

\* An empty file of undeclared size.
Undeclared == {Unknown}

StarterSymmetry == Permutations(Starters)
=============================================================================
