----------------------------- MODULE MCDownload -----------------------------
(* A small instance of DownloadWizard for TLC: a repository of one weight file *)
(* and one optional projector, whose versions have one chunk and two.         *)
EXTENDS DownloadWizard

OnlyWeights == <<"weights">>
OnlyProjector == <<"projector">>
Sizes == <<1, 2>>
=============================================================================
