----------------------------- MODULE MCServices -----------------------------
(***************************************************************************)
(* The values of the services run that a configuration cannot write.       *)
(***************************************************************************)
EXTENDS Services

\* The path of each write: the first and the third are of one resource.
Paths == <<1, 2, 1, 3>>

\* How the course begins: its status, whether an institution owns it, the rows
\* still staged since a flag or an archive closed their revision, and whether the
\* one fault of the run lies behind it.
Starting == {<<"draft", TRUE, {2}, 1>>, <<"draft", FALSE, {2}, 0>>, <<"live", FALSE, {1, 2}, 0>>, <<"live", FALSE, {2}, 1>>}
=============================================================================
