----------------------------- MODULE MCRecovery -----------------------------
(* Instance of Recovery, with the scan of its sources, for TLC. *)
EXTENDS Recovery

\* Frames that continue, repeat or mix what came before, one with a wrong codec
\* header, one for another path, a torn frame and bytes that are no frame.
MCSegments ==
    {Segment(2, TRUE, 0, TRUE, TRUE, "w", <<1>>),
     Segment(1, TRUE, 0, TRUE, TRUE, "w", <<2, 3>>),
     Segment(1, TRUE, 0, TRUE, TRUE, "v", <<4>>),
     Segment(2, TRUE, 0, FALSE, TRUE, "w", <<5>>),
     Segment(1, TRUE, 0, TRUE, FALSE, "w", <<5>>),
     Segment(2, TRUE, 0, TRUE, TRUE, "w", <<6, 6>>),
     Segment(2, FALSE, 0, TRUE, TRUE, "w", << >>),
     Segment(2, FALSE, 2, TRUE, TRUE, "w", << >>)}

NoManifest == Manifest("absent", {"absent"}, "synced")
Complete == Manifest("final", {"final"}, "synced")

\* What the writer may leave of one part, as Publication shows.
Residues ==
    {Residue("partial", {"partial"}, 1, 0, NoManifest, "none"),
     Residue("partial", {"partial"}, 1, 1, NoManifest, "none"),
     Residue("partial", {"partial"}, 0, 1, NoManifest, "none"),
     Residue("partial", {"absent", "partial"}, 0, 0, NoManifest, "none"),
     Residue("both", {"partial", "both"}, 1, 0, NoManifest, "none"),
     Residue("final", {"both", "final"}, 1, 0, NoManifest, "none"),
     Residue("final", {"final"}, 1, 1, NoManifest, "none"),
     Residue("final", {"final"}, 1, 0, Complete, "none"),
     Residue("absent", {"absent"}, 1, 0, Complete, "tombstone"),
     Residue("absent", {"absent"}, 1, 0, Complete, "none"),
     Residue("final", {"final"}, 1, 0, Manifest("temp", {"absent", "temp"}, "torn"), "none"),
     Residue("final", {"final"}, 1, 0, Manifest("temp", {"temp"}, "soft"), "none"),
     Residue("final", {"final"}, 1, 0, Manifest("both", {"temp", "both"}, "synced"), "none"),
     Residue("final", {"final"}, 1, 0, Manifest("final", {"both", "final"}, "synced"), "none")}

\* Every residue in the first part; a torn or a published one in the second.
MCLeftovers ==
    {left \in [{0, 1} -> Residues] :
        left[1] \in {Residue("partial", {"partial"}, 1, 1, NoManifest, "none"),
                     Residue("final", {"final"}, 1, 0, Complete, "none")}}
=============================================================================
