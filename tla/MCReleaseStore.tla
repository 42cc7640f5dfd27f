--------------------------- MODULE MCReleaseStore ---------------------------
(* Model-checking instance of ReleaseStore: the packages of one application. *)
EXTENDS ReleaseStore

Good(counter, epoch, digest) ==
    [counter |-> counter, epoch |-> epoch, digest |-> digest, key |-> 1,
     trusted |-> TRUE, compatible |-> TRUE]

OneRelease == {Good(1, 1, 11)}

\* Three releases, the third at a higher security epoch than the others.
ThreeReleases == {Good(1, 1, 11), Good(2, 1, 12), Good(3, 2, 13)}

\* Releases 1 and 2, and: a different package under counter 2, a release 3 signed by another key,
\* a release 3 below the epoch of release 2, one the trust store refuses and one
\* that is not compatible with the device.
Adversarial ==
    {Good(1, 1, 11), Good(2, 2, 12), Good(2, 2, 22), Good(3, 1, 13),
     [Good(3, 2, 23) EXCEPT !.key = 2],
     [Good(3, 2, 33) EXCEPT !.trusted = FALSE],
     [Good(3, 2, 43) EXCEPT !.compatible = FALSE]}
=============================================================================
