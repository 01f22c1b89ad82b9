----------------------------- MODULE MCRepoSync -----------------------------
(* An instance of RepoSync for TLC: files no filter keeps back and a drive item. *)
EXTENDS RepoSync

TraitsOfFiles == [f \in Files |-> {}]
OneItem == {[kind |-> "drive", traits |-> {}]}

=============================================================================
