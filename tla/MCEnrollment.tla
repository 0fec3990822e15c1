---------------------------- MODULE MCEnrollment ----------------------------
(* Instance of Enrollment: a course of two lessons, a revision that takes   *)
(* one out, and one milestone at half the course.                           *)
EXTENDS Enrollment

CONSTANTS l1, l2

TwoLessons == {l1, l2}
OneRemoved == {{l1}}
Half == {50}
=============================================================================
