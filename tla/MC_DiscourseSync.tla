-------------------------- MODULE MC_DiscourseSync --------------------------
(***************************************************************************)
(* Instances of DiscourseSync for TLC.                                     *)
(***************************************************************************)
EXTENDS DiscourseSync

Plain   == [full |-> FALSE, limit |-> NoLimit, force |-> FALSE]
Limited == [full |-> FALSE, limit |-> 1, force |-> TRUE]
Full    == [full |-> TRUE, limit |-> NoLimit, force |-> FALSE]

AllIntents == {Plain, Limited, Full}
OnlyPlain == {Plain}
=============================================================================
