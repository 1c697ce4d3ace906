---------------------------- MODULE MCPublishers -----------------------------
(* Both kinds of publisher in one run: a behaviour is that of a GitHub site    *)
(* (the constant GitHub is TRUE) or that of a WordPress one, chosen at Init.   *)
EXTENDS MCPublication

MaxGitHubFaults == 1   \* bound: the second fault is kept for WordPress, where a
                       \* second creation of a post takes two

VARIABLE kind          \* "github" or "wordpress", for ever

WordPress == INSTANCE Publication WITH GitHub <- FALSE

PublishersInit == \/ kind = "github" /\ Init
                  \/ kind = "wordpress" /\ WordPress!Init
PublishersNext == /\ \/ kind = "github" /\ Next /\ faults' <= MaxGitHubFaults
                     \/ kind = "wordpress" /\ WordPress!Next
                  /\ UNCHANGED kind
PublishersSpec == PublishersInit /\ [][PublishersNext]_<<vars, kind>>

\* The GitHub half alone, with the fairness of Publication: what WordPress did not
\* answer may never have arrived, and is awaited for ever.
GitHubInit == kind = "github" /\ Init
GitHubLiveSpec == GitHubInit /\ [][PublishersNext]_<<vars, kind>> /\ Fairness
=============================================================================
