---------------------------- MODULE MCGitPublish ----------------------------
(* Small instances of GitPublish for TLC.                                    *)
EXTENDS GitPublish, TLC

CONSTANTS r1, r2, post, image, other

\* Two calls for the same post, one of them with an image; a path of nobody's.
TwoCalls == [r \in Runs |-> IF r = r1 THEN {post, image} ELSE {post}]
OnePost  == [r \in Runs |-> post]
=============================================================================
