------------------------------ MODULE MCOutputs ------------------------------
(* Outputs with a monitor and the remote output, and two copies that may    *)
(* wait for the same screen; or with the built-in screen as well.           *)
EXTENDS Outputs

CONSTANTS panel, monitor, virtual, f1, f2
MCOutput == {panel, monitor, virtual}
Copies == {f1, f2}
Unreliable == {monitor}
=============================================================================
