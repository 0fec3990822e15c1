---------------------------- MODULE MCPublishing ----------------------------
(* Instances of Publishing: an institution's new course.                    *)
EXTENDS Publishing

Drafts == {<<"draft", TRUE, {}, 0>>}
=============================================================================
