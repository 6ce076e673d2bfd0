------------------------------- MODULE MCCdc -------------------------------
(* Instances of Cdc for TLC.                                                *)
EXTENDS Cdc, TLC

Quiet == [shapes |-> <<<<"a">>, <<"a", "b">>>>, repl |-> FALSE, rollbacks |-> 0, checkpoints |-> 0,
          trims |-> 0, subscribes |-> 1, crashes |-> 0]

MCWorkloads == {
    [Quiet EXCEPT !.rollbacks = 1, !.crashes = 1, !.subscribes = 2],
    [Quiet EXCEPT !.shapes = <<<<"a">>, <<"a", "b">>, <<"b">>>>, !.repl = TRUE],
    [Quiet EXCEPT !.checkpoints = 1, !.trims = 1, !.subscribes = 2],
    [Quiet EXCEPT !.shapes = <<<<"a">>, <<"a">>>>, !.checkpoints = 1, !.trims = 1, !.crashes = 1,
                  !.subscribes = 2]}

============================================================================
