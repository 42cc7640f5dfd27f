-------------------------- MODULE MCInstallerBroker -------------------------
(* Model-checking instance of InstallerBroker: one application with two       *)
(* releases in the inbox, the second of which does not verify.                *)
EXTENDS InstallerBroker

File(counter, trusted) ==
    [app     |-> CHOOSE a \in Apps : TRUE,
     package |-> [counter |-> counter, epoch |-> 1, digest |-> 10 + counter, key |-> 1,
                  trusted |-> trusted, compatible |-> TRUE]]

OneDamaged == {File(1, TRUE), File(2, FALSE)}
=============================================================================
