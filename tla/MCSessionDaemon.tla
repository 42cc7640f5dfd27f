--------------------------- MODULE MCSessionDaemon --------------------------
(* Model-checking instance of SessionDaemon: one installed application, with *)
(* one release or two.                                                       *)
EXTENDS SessionDaemon

Release(counter) ==
    [counter |-> counter, epoch |-> 1, digest |-> 10 + counter, key |-> 1,
     trusted |-> TRUE, compatible |-> TRUE]

OneRelease    == {Release(1)}
TwoReleases   == {Release(1), Release(2)}

\* Release 2 was installed over release 1.
Upgraded == [a \in Apps |-> activated(Release(2), activated(Release(1), NoState))]

\* Only release 1 has been installed.
First == [a \in Apps |-> activated(Release(1), NoState)]
=============================================================================
